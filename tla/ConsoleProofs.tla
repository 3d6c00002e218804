--------------------------- MODULE ConsoleProofs ---------------------------
(***************************************************************************)
(* The console server, for any screen, any number of processes and keys,   *)
(* and rings and line buffers of any size.                                 *)
(***************************************************************************)
EXTENDS Console, ListLemmas, TLAPS

-----------------------------------------------------------------------------
(* The keyboard.                                                           *)

\* Where the machine is in the bytes of a key, and what is left of them.
Between == wire = <<>> /\ kstate = "IDLE" /\ state2 \ {"caps"} = held
InCtrl(up) ==
  /\ wire = <<<<"ctrl", up>>>> /\ kstate = "E0_WAIT"
  /\ held = IF up THEN state2 \ {"caps", "rctrl"} ELSE (state2 \ {"caps"}) \cup {"rctrl"}
InEnter(up) ==
  wire = <<<<"enter", up>>>> /\ kstate = "E0_WAIT" /\ state2 \ {"caps"} = held
InPause ==
  /\ state2 \ {"caps"} = held
  /\ \/ /\ wire = <<<<"ctrl", FALSE>>, <<"num", FALSE>>, E1, <<"ctrl", TRUE>>, <<"num", TRUE>>>>
        /\ kstate = "E1_WAIT1"
     \/ wire = <<<<"num", FALSE>>, E1, <<"ctrl", TRUE>>, <<"num", TRUE>>>> /\ kstate = "E1_WAIT2"
     \/ wire = <<E1, <<"ctrl", TRUE>>, <<"num", TRUE>>>> /\ kstate = "IDLE"
     \/ wire = <<<<"ctrl", TRUE>>, <<"num", TRUE>>>> /\ kstate = "E1_WAIT1"
     \/ wire = <<<<"num", TRUE>>>> /\ kstate = "E1_WAIT2"

KeysInv ==
  /\ held \subseteq Modifiers
  /\ Between \/ (\E up \in BOOLEAN : InCtrl(up) \/ InEnter(up)) \/ InPause

(* A byte keeps the machine in step with the key it belongs to. *)
LEMMA KeysStep ==
  ASSUME KeysInv, [ConsoleNext]_consoleVars
  PROVE  KeysInv'
<1>1. ASSUME NEW b \in Byte, PrefixByte(b) \/ ModifierByte(b) \/ CharByte(b)
             \/ TabByte(b) \/ EnterByte(b) \/ OtherByte(b)
      PROVE  KeysInv'
  <2> DEFINE Acts == \/ /\ kstate = "IDLE" /\ b \in {E0, E1}
                        /\ kstate' = IF b = E0 THEN "E0_WAIT" ELSE "E1_WAIT1"
                        /\ UNCHANGED state2
                     \/ kstate = "E1_WAIT1" /\ kstate' = "E1_WAIT2" /\ UNCHANGED state2
                     \/ kstate = "E1_WAIT2" /\ kstate' = "IDLE" /\ UNCHANGED state2
                     \/ kstate = "E0_WAIT" /\ kstate' = "IDLE" /\ state2' = Extended(b)
                     \/ /\ kstate = "IDLE" /\ kstate' = "IDLE"
                        /\ b[1] \in {"ctrl", "lshift", "rshift", "caps"}
                        /\ state2' = CASE b[1] = "ctrl" -> Flag("lctrl", b[2])
                                       [] b[1] = "caps" /\ b[2] -> state2
                                       [] b[1] = "caps" /\ ~b[2] -> Flag("caps", "caps" \in state2)
                                       [] OTHER -> Flag(b[1], b[2])
                     \/ /\ kstate = "IDLE" /\ kstate' = "IDLE" /\ state2' = state2
                        /\ b[1] \in {"char", "tab", "enter", "esc", "back", "fn"}
  <2>1. Sends(b) /\ Acts
    BY <1>1 DEF PrefixByte, ModifierByte, CharByte, TabByte, EnterByte, OtherByte, input
  <2>2. CASE wire # <<>>
    <3>1. b = Head(wire) /\ wire' = Tail(wire) /\ held' = held
      BY <2>1, <2>2 DEF Sends
    <3>2. CASE InPause
      <4>c. PICK c, n, d, m, e : /\ c = <<"ctrl", TRUE>> /\ n = <<"num", TRUE>> /\ e = E1
                                 /\ d = <<"ctrl", FALSE>> /\ m = <<"num", FALSE>>
        OBVIOUS
      <4>1. CASE wire = <<d, m, e, c, n>> /\ kstate = "E1_WAIT1"
        <5>1. wire' = <<m, e, c, n>>
          BY <3>1, <4>1
        <5>2. kstate' = "E1_WAIT2" /\ state2' = state2
          BY <2>1, <4>1
        <5> QED BY <3>1, <3>2, <4>c, <5>1, <5>2 DEF KeysInv, InPause
      <4>2. CASE wire = <<m, e, c, n>> /\ kstate = "E1_WAIT2"
        <5>1. wire' = <<e, c, n>>
          BY <3>1, <4>2
        <5>2. kstate' = "IDLE" /\ state2' = state2
          BY <2>1, <4>2
        <5> QED BY <3>1, <3>2, <4>c, <5>1, <5>2 DEF KeysInv, InPause
      <4>3. CASE wire = <<e, c, n>> /\ kstate = "IDLE"
        <5>1. wire' = <<c, n>> /\ b = e
          BY <3>1, <4>3
        <5>2. kstate' = "E1_WAIT1" /\ state2' = state2
          BY <2>1, <4>c, <4>3, <5>1 DEF E0, E1
        <5> QED BY <3>1, <3>2, <4>c, <5>1, <5>2 DEF KeysInv, InPause
      <4>4. CASE wire = <<c, n>> /\ kstate = "E1_WAIT1"
        <5>1. wire' = <<n>>
          BY <3>1, <4>4
        <5>2. kstate' = "E1_WAIT2" /\ state2' = state2
          BY <2>1, <4>4
        <5> QED BY <3>1, <3>2, <4>c, <5>1, <5>2 DEF KeysInv, InPause
      <4>5. CASE wire = <<n>> /\ kstate = "E1_WAIT2"
        <5>1. wire' = <<>>
          BY <3>1, <4>5
        <5>2. kstate' = "IDLE" /\ state2' = state2
          BY <2>1, <4>5
        <5> QED BY <3>1, <3>2, <4>c, <5>1, <5>2 DEF KeysInv, InPause, Between
      <4> QED BY <3>2, <4>c, <4>1, <4>2, <4>3, <4>4, <4>5 DEF InPause
    <3>3. ASSUME NEW up \in BOOLEAN, InCtrl(up) PROVE KeysInv'
      <4>1. b = <<"ctrl", up>> /\ wire' = <<>>
        BY <3>1, <3>3 DEF InCtrl
      <4>2. kstate' = "IDLE" /\ state2' = Flag("rctrl", up)
        BY <2>1, <3>3, <4>1 DEF InCtrl, Extended
      <4>3. state2' \ {"caps"} = held'
        BY <3>1, <3>3, <4>2 DEF InCtrl, Flag
      <4> QED BY <3>1, <4>1, <4>2, <4>3 DEF KeysInv, Between
    <3>4. ASSUME NEW up \in BOOLEAN, InEnter(up) PROVE KeysInv'
      <4>1. b = <<"enter", up>> /\ wire' = <<>>
        BY <3>1, <3>4 DEF InEnter
      <4>2. kstate' = "IDLE" /\ state2' = state2
        BY <2>1, <3>4, <4>1 DEF InEnter, Extended
      <4> QED BY <3>1, <3>4, <4>1, <4>2 DEF KeysInv, Between, InEnter
    <3> QED BY <2>2, <3>2, <3>3, <3>4 DEF KeysInv, Between
  <2>3. CASE wire = <<>>
    <3>1. /\ kstate = "IDLE" /\ state2 \ {"caps"} = held /\ held \subseteq Modifiers
      BY <2>3 DEF KeysInv, Between, InCtrl, InEnter, InPause
    <3>2. PICK k \in Key, up \in BOOLEAN :
            /\ k \in Modifiers => up = (k \in held)
            /\ Bytes(k, up) # <<>>
            /\ b = Head(Bytes(k, up)) /\ wire' = Tail(Bytes(k, up))
            /\ held' = IF up THEN held \ {k}
                       ELSE IF k \in Modifiers THEN held \cup {k} ELSE held
      BY <2>1, <2>3 DEF Sends
    <3>3. held' \subseteq Modifiers /\ (k \notin Modifiers => held' = held)
      BY <3>1, <3>2
    <3>4. CASE k = "rctrl"
      <4>1. b = E0 /\ wire' = <<<<"ctrl", up>>>>
        BY <3>2, <3>4 DEF Bytes
      <4>2. kstate' = "E0_WAIT" /\ state2' = state2
        BY <2>1, <3>1, <4>1 DEF E0, E1
      <4>3. InCtrl(up)'
        BY <3>1, <3>2, <3>4, <4>1, <4>2 DEF InCtrl, Modifiers
      <4> QED BY <3>3, <4>3 DEF KeysInv
    <3>5. CASE k = "keypad_enter"
      <4>1. b = E0 /\ wire' = <<<<"enter", up>>>>
        BY <3>2, <3>5 DEF Bytes
      <4>2. kstate' = "E0_WAIT" /\ state2' = state2
        BY <2>1, <3>1, <4>1 DEF E0, E1
      <4>3. InEnter(up)'
        BY <3>1, <3>3, <3>5, <4>1, <4>2 DEF InEnter, Modifiers
      <4> QED BY <3>3, <4>3 DEF KeysInv
    <3>6. CASE k = "pause"
      <4>1. /\ b = E1
            /\ wire' = <<<<"ctrl", FALSE>>, <<"num", FALSE>>, E1, <<"ctrl", TRUE>>, <<"num", TRUE>>>>
        <5>1. PICK c, n, d, m, e : /\ c = <<"ctrl", TRUE>> /\ n = <<"num", TRUE>> /\ e = E1
                                   /\ d = <<"ctrl", FALSE>> /\ m = <<"num", FALSE>>
          OBVIOUS
        <5>2. Bytes(k, up) = <<e, d, m, e, c, n>>
          BY <3>2, <3>6, <5>1 DEF Bytes
        <5>3. b = e /\ wire' = <<d, m, e, c, n>>
          BY <3>2, <5>2
        <5> QED BY <5>1, <5>3
      <4>2. kstate' = "E1_WAIT1" /\ state2' = state2
        BY <2>1, <3>1, <4>1 DEF E0, E1
      <4>3. InPause'
        BY <3>1, <3>3, <3>6, <4>1, <4>2 DEF InPause, Modifiers
      <4> QED BY <3>3, <4>3 DEF KeysInv
    <3>7. CASE k = "lctrl"
      <4>1. b = <<"ctrl", up>> /\ wire' = <<>>
        BY <3>2, <3>7 DEF Bytes
      <4>2. kstate' = "IDLE" /\ state2' = Flag("lctrl", up)
        BY <2>1, <3>1, <4>1 DEF E0, E1
      <4>3. state2' \ {"caps"} = held'
        BY <3>1, <3>2, <3>7, <4>2 DEF Flag, Modifiers
      <4> QED BY <3>3, <4>1, <4>2, <4>3 DEF KeysInv, Between
    <3>8. CASE k \in {"char", "tab", "enter", "esc", "back", "fn", "caps", "lshift", "rshift"}
      <4>1. b = <<k, up>> /\ wire' = <<>>
        BY <3>2, <3>8 DEF Bytes
      <4>2. CASE k \in {"lshift", "rshift"}
        <5>1. kstate' = "IDLE" /\ state2' = Flag(k, up)
          BY <2>1, <3>1, <4>1, <4>2 DEF E0, E1
        <5>2. state2' \ {"caps"} = held'
          BY <3>1, <3>2, <4>2, <5>1 DEF Flag, Modifiers
        <5> QED BY <3>3, <4>1, <5>1, <5>2 DEF KeysInv, Between
      <4>3. CASE k \notin {"lshift", "rshift"}
        <5>1. kstate' = "IDLE" /\ state2' \ {"caps"} = state2 \ {"caps"}
          BY <2>1, <3>1, <3>8, <4>1, <4>3 DEF E0, E1, Flag
        <5> QED BY <3>1, <3>3, <3>8, <4>1, <4>3, <5>1 DEF KeysInv, Between, Modifiers
      <4> QED BY <4>2, <4>3
    <3> QED BY <3>4, <3>5, <3>6, <3>7, <3>8, ConsoleAssumption
  <2> QED BY <2>2, <2>3
<1>2. ASSUME UNCHANGED <<wire, held, kstate, state2>> PROVE KeysInv'
  BY <1>2 DEF KeysInv, Between, InCtrl, InEnter, InPause
<1>3. (\E b \in Byte : PrefixByte(b) \/ ModifierByte(b) \/ CharByte(b)
         \/ TabByte(b) \/ EnterByte(b) \/ OtherByte(b)) \/ UNCHANGED <<wire, held, kstate, state2>>
  BY DEF ConsoleNext, consoleVars, keyboard, input, KbdDone, Serve, ServeDone, NoRequest, ReadRequest,
         WriteRequest, SwitchRequest
<1> QED BY <1>1, <1>2, <1>3

(* The modifiers that are down are the ones the server takes for down, for *)
(* any keyboard and whatever is typed (main.c:274-325).                    *)
THEOREM ModifiersFollow == ConsoleSpec => []ModifiersHeld
<1>1. ConsoleInit => KeysInv
  BY DEF ConsoleInit, KeysInv, Between
<1>2. KeysInv => ModifiersHeld
  BY DEF KeysInv, ModifiersHeld, Between, InCtrl, InEnter, InPause
<1> QED BY <1>1, <1>2, KeysStep, PTL DEF ConsoleSpec
-----------------------------------------------------------------------------
(* The screen.                                                             *)

Cell == Nat \cup {Blank}
Screen ==
  [pos_x : Nat, pos_y : Nat, offset : 0 .. VBuf - 1, voff : Nat, total : Nat, top : Nat,
   buffer : [0 .. VBuf - 1 -> Cell], vram : [0 .. R * C -> Cell]]

\* j cells before place o of the ring.
Back(o, j) == IF o - j < 0 THEN o - j + VBuf ELSE o - j

(***************************************************************************)
(* Where the output ends on the screen: at the cursor, or a line above it  *)
(* once the screen has scrolled.  pos_y is C while a line is being ended.  *)
(***************************************************************************)
Rows(s) ==
  /\ s.pos_x \in 0 .. R - 1 /\ s.pos_y \in 0 .. C
  /\ \/ s.voff = s.pos_x * C + s.pos_y
     \/ s.pos_x = R - 1 /\ s.voff = (R - 2) * C + s.pos_y
Shown(s) ==
  /\ s.voff <= s.total
  /\ \A k \in 0 .. R * C : s.vram[k] = IF k < s.voff THEN s.total - s.voff + k ELSE Blank
Kept(s) ==
  \A j \in 1 .. VBuf : j <= s.total => s.buffer[Back(s.offset, j)] = s.total - j

Sound(s) == s \in Screen /\ Rows(s) /\ Shown(s) /\ Kept(s) /\ s.top <= R * C + 1

ScreenInv == Sound(scr) /\ scr.pos_y < C

(* What the constants are. *)
LEMMA Sizes ==
  /\ R \in Nat /\ R >= 2 /\ C \in Nat /\ C >= 1 /\ VBuf \in Nat /\ R * C \in Nat /\ R * C < VBuf
  /\ Ring \in Nat /\ Ring >= 1 /\ (R - 2) * C \in Nat
<1>1. R \in Nat /\ R >= 2 /\ C \in Nat /\ C >= 1 /\ VBuf \in Nat /\ R * C < VBuf
      /\ Ring \in Nat /\ Ring >= 1
  BY ConsoleAssumption
<1>2. \A a \in Nat, b \in Nat : a * b \in Nat
  OBVIOUS
<1> QED BY <1>1, <1>2

(* Indices wrap once. *)
LEMMA Wrap ==
  ASSUME NEW a \in Int, NEW N \in Nat \ {0}, -N <= a, a < 2 * N
  PROVE  a % N = IF a < 0 THEN a + N ELSE IF a < N THEN a ELSE a - N
  OBVIOUS

(* The output ends before the end of the screen while there is room in the *)
(* line, and with it if not.                                               *)
LEMMA RowEnd ==
  ASSUME NEW s \in Screen, Rows(s)
  PROVE  s.voff <= R * C /\ (s.pos_y < C => s.voff < R * C)
<1>1. /\ s.pos_x \in Nat /\ s.pos_x <= R - 1 /\ s.pos_y \in Nat /\ s.pos_y <= C
      /\ R \in Nat /\ C \in Nat /\ R >= 2 /\ C >= 1
  BY Sizes DEF Rows
<1>2. s.pos_x * C <= (R - 1) * C /\ (R - 1) * C = R * C - C /\ (R - 2) * C = R * C - 2 * C
  BY <1>1
<1> QED BY <1>1, <1>2 DEF Rows, Screen

(* One cell. *)
LEMMA CellType ==
  ASSUME NEW s \in Screen
  PROVE  /\ PutCell(s) \in Screen
         /\ PutCell(s).pos_x = s.pos_x /\ PutCell(s).pos_y = s.pos_y + 1
         /\ PutCell(s).voff = s.voff + 1 /\ PutCell(s).total = s.total + 1
         /\ PutCell(s).offset = IF s.offset + 1 = VBuf THEN 0 ELSE s.offset + 1
         /\ PutCell(s).buffer = [s.buffer EXCEPT ![s.offset] = s.total]
         /\ PutCell(s).vram = [s.vram EXCEPT ![s.voff] = s.total]
         /\ PutCell(s).top = IF s.voff < s.top THEN s.top ELSE s.voff + 1
<1>1. PICK o \in 0 .. VBuf - 1, n \in Nat, v \in Nat, y \in Nat, b \in [0 .. VBuf - 1 -> Cell],
           w \in [0 .. R * C -> Cell], e \in Nat :
        /\ s.offset = o /\ s.total = n /\ s.voff = v /\ s.pos_y = y /\ s.buffer = b /\ s.vram = w
        /\ s.top = e
  BY DEF Screen
<1>2. VBuf \in Nat \ {0}
  BY ConsoleAssumption
<1>3. PICK u : u = IF o + 1 = VBuf THEN 0 ELSE o + 1
  OBVIOUS
<1>4. (o + 1) % VBuf = u /\ u \in 0 .. VBuf - 1
  <2>1. o \in Nat /\ o + 1 <= VBuf
    BY <1>2
  <2>2. PICK a \in Int : a = o + 1 /\ -VBuf <= a /\ a < 2 * VBuf
    BY <1>2, <2>1
  <2>3. a % VBuf = IF a < 0 THEN a + VBuf ELSE IF a < VBuf THEN a ELSE a - VBuf
    BY <1>2, <2>2, Wrap
  <2> QED BY <1>2, <1>3, <2>1, <2>2, <2>3
<1>5. PICK b2, w2 : b2 = [b EXCEPT ![o] = n] /\ w2 = [w EXCEPT ![v] = n]
  OBVIOUS
<1>6. b2 \in [0 .. VBuf - 1 -> Cell] /\ w2 \in [0 .. R * C -> Cell]
  BY <1>5 DEF Cell
<1>e. PICK e2 \in Nat : e2 = IF v < e THEN e ELSE v + 1
  OBVIOUS
<1>7. PutCell(s) = [s EXCEPT !.buffer = b2, !.offset = u, !.vram = w2, !.voff = v + 1,
                             !.top = e2, !.pos_y = y + 1, !.total = n + 1]
  BY <1>1, <1>4, <1>5, <1>e DEF PutCell, Screen
<1>8. v + 1 \in Nat /\ y + 1 \in Nat /\ n + 1 \in Nat
  OBVIOUS
<1> HIDE <1>5
<1>9. /\ PutCell(s) \in Screen
      /\ PutCell(s).pos_x = s.pos_x /\ PutCell(s).pos_y = y + 1
      /\ PutCell(s).voff = v + 1 /\ PutCell(s).total = n + 1
      /\ PutCell(s).offset = u /\ PutCell(s).buffer = b2 /\ PutCell(s).vram = w2
      /\ PutCell(s).top = e2
  BY <1>4, <1>6, <1>7, <1>8 DEF Screen
<1> QED BY <1>1, <1>3, <1>5, <1>e, <1>9

(* A cell with room in the line keeps the screen right. *)
LEMMA CellSound ==
  ASSUME NEW s, Sound(s), s.pos_y < C
  PROVE  Sound(PutCell(s))
<1>1. PICK t : t = PutCell(s)
  OBVIOUS
<1>2. /\ s \in Screen /\ t \in Screen
      /\ t.pos_x = s.pos_x /\ t.pos_y = s.pos_y + 1 /\ t.voff = s.voff + 1
      /\ t.total = s.total + 1 /\ t.offset = IF s.offset + 1 = VBuf THEN 0 ELSE s.offset + 1
      /\ t.buffer = [s.buffer EXCEPT ![s.offset] = s.total]
      /\ t.vram = [s.vram EXCEPT ![s.voff] = s.total]
  BY <1>1, CellType DEF Sound
<1>3. PICK o \in 0 .. VBuf - 1, n \in Nat, v \in Nat, y \in Nat, x \in Nat,
           b \in [0 .. VBuf - 1 -> Cell], w \in [0 .. R * C -> Cell] :
        /\ s.offset = o /\ s.total = n /\ s.voff = v /\ s.pos_y = y /\ s.pos_x = x
        /\ s.buffer = b /\ s.vram = w
  BY <1>2 DEF Screen
<1>4. PICK u : u = IF o + 1 = VBuf THEN 0 ELSE o + 1
  OBVIOUS
<1>5. /\ t.pos_x = x /\ t.pos_y = y + 1 /\ t.voff = v + 1 /\ t.total = n + 1 /\ t.offset = u
      /\ t.buffer = [b EXCEPT ![o] = n] /\ t.vram = [w EXCEPT ![v] = n]
  BY <1>2, <1>3, <1>4
<1>6. Rows(t)
  <2>1. PICK p \in Nat, q \in Nat : p = x * C /\ q = (R - 2) * C
    BY Sizes
  <2>2. /\ x \in 0 .. R - 1 /\ y \in 0 .. C /\ y < C /\ C \in Nat
        /\ v = p + y \/ (x = R - 1 /\ v = q + y)
    BY <1>3, <2>1, Sizes DEF Sound, Rows
  <2>3. y + 1 \in 0 .. C
    BY <2>2
  <2>4. v + 1 = p + (y + 1) \/ (x = R - 1 /\ v + 1 = q + (y + 1))
    BY <2>2
  <2> QED BY <1>5, <2>1, <2>2, <2>3, <2>4 DEF Rows
<1>7. v \in 0 .. R * C
  BY <1>2, <1>3, RowEnd, Sizes DEF Sound
<1>8. Shown(t)
  <2>1. v <= n
    BY <1>3 DEF Sound, Shown
  <2>2. ASSUME NEW k \in 0 .. R * C
        PROVE  t.vram[k] = IF k < v + 1 THEN n + 1 - (v + 1) + k ELSE Blank
    <3>1. w[k] = IF k < v THEN n - v + k ELSE Blank
      BY <1>3 DEF Sound, Shown
    <3>2. t.vram[k] = IF k = v THEN n ELSE w[k]
      BY <1>5
    <3>3. PICK i \in Int : i = k
      BY Sizes
    <3>4. n + 1 - (v + 1) + i = n - v + i /\ (i = v => n - v + i = n)
          /\ (i < v + 1 <=> i < v \/ i = v)
      OBVIOUS
    <3> QED BY <3>1, <3>2, <3>3, <3>4
  <2> QED BY <1>5, <2>1, <2>2 DEF Shown
<1>9. Kept(t)
  <2>v. VBuf \in Nat /\ VBuf >= 1
    BY ConsoleAssumption
  <2> SUFFICES ASSUME NEW j \in 1 .. VBuf, j <= n + 1
               PROVE  t.buffer[Back(u, j)] = n + 1 - j
    BY <1>5 DEF Kept
  <2>1. CASE j = 1
    <3>1. Back(u, 1) = o
      BY <1>4, <2>v DEF Back
    <3> QED BY <1>5, <2>1, <3>1
  <2>2. CASE j # 1
    <3>1. PICK i : i = j - 1
      OBVIOUS
    <3>2. i \in 1 .. VBuf /\ i <= n /\ i <= VBuf - 1 /\ j = i + 1
      BY <2>v, <2>2, <3>1
    <3>3. b[Back(o, i)] = n - i
      BY <1>3, <3>2 DEF Sound, Kept
    <3>4. Back(u, j) = Back(o, i) /\ Back(o, i) # o /\ Back(o, i) \in 0 .. VBuf - 1
      BY <1>4, <2>v, <3>2 DEF Back
    <3>5. t.buffer[Back(o, i)] = b[Back(o, i)]
      BY <1>5, <3>4
    <3> QED BY <3>2, <3>3, <3>4, <3>5
  <2> QED BY <2>1, <2>2
<1>10. t.top <= R * C + 1
  <2>1. t.top = IF v < s.top THEN s.top ELSE v + 1
    BY <1>1, <1>2, <1>3, CellType
  <2>2. s.top <= R * C + 1 /\ v + 1 <= R * C + 1
    BY <1>7, Sizes DEF Sound
  <2> QED BY <2>1, <2>2
<1> QED BY <1>1, <1>2, <1>6, <1>8, <1>9, <1>10 DEF Sound

(* The loop of line_feed: cell after cell. *)
LEMMA CellsSteps ==
  ASSUME NEW s \in Screen, NEW n \in Nat
  PROVE  \E g : /\ g[0] = s /\ PutCells(s, n) = g[n]
                /\ \A i \in 1 .. n : g[i] = PutCell(g[i - 1])
<1> DEFINE Body(g) == [i \in 0 .. n |-> IF i = 0 THEN s ELSE PutCell(g[i - 1])]
           f == [z \in (1 .. n) \X Screen |-> PutCell(z[2])]
           c == CHOOSE g : g = Body(g)
<1>1. PutCells(s, n) = c[n]
  BY DEF PutCells
<1>2. f \in [(1 .. n) \X Screen -> Screen]
  BY CellType
<1>3. \A i \in 1 .. n, x \in Screen : f[<<i, x>>] = PutCell(x)
  OBVIOUS
<1> HIDE DEF f
<1>4. PICK g : Iterates(g, f, s, n, Screen)
  BY <1>2, Iterate
<1>5. g \in [0 .. n -> Screen] /\ g[0] = s /\ \A i \in 1 .. n : g[i] = f[<<i, g[i - 1]>>]
  BY <1>4 DEF Iterates
<1>6. \A i \in 0 .. n : g[i] = IF i = 0 THEN s ELSE PutCell(g[i - 1])
  <2> SUFFICES ASSUME NEW i \in 0 .. n, i # 0 PROVE g[i] = PutCell(g[i - 1])
    BY <1>5
  <2>1. i \in 1 .. n /\ i - 1 \in 0 .. n
    OBVIOUS
  <2>2. g[i - 1] \in Screen /\ g[i] = f[<<i, g[i - 1]>>]
    BY <1>5, <2>1
  <2> QED BY <1>3, <2>1, <2>2
<1>7. g = Body(g)
  <2>1. g = [i \in 0 .. n |-> g[i]]
    BY <1>5
  <2> QED BY <1>6, <2>1
<1>8. c = Body(c)
  <2> HIDE DEF Body
  <2> QED BY <1>7
<1> HIDE DEF c
<1>9. \A i \in 0 .. n : c[i] = IF i = 0 THEN s ELSE PutCell(c[i - 1])
  <2> DEFINE e(i) == IF i = 0 THEN s ELSE PutCell(c[i - 1])
  <2>1. c = [i \in 0 .. n |-> e(i)]
    BY <1>8
  <2> HIDE DEF e
  <2>2. \A i \in 0 .. n : c[i] = e(i)
    BY <2>1
  <2> QED BY <2>2 DEF e
<1>10. c[0] = s /\ \A i \in 1 .. n : c[i] = PutCell(c[i - 1])
  <2>1. 0 \in 0 .. n /\ \A i \in 1 .. n : i \in 0 .. n /\ i # 0
    OBVIOUS
  <2> QED BY <1>9, <2>1
<1> QED BY <1>1, <1>10

(* So do several. *)
LEMMA CellsSound ==
  ASSUME NEW s, Sound(s), NEW n \in Nat, s.pos_y + n <= C
  PROVE  /\ Sound(PutCells(s, n))
         /\ PutCells(s, n).pos_y = s.pos_y + n /\ PutCells(s, n).pos_x = s.pos_x
         /\ PutCells(s, n).voff = s.voff + n
<1>1. s \in Screen
  BY DEF Sound
<1>2. PICK g : /\ g[0] = s /\ PutCells(s, n) = g[n]
               /\ \A i \in 1 .. n : g[i] = PutCell(g[i - 1])
  BY <1>1, CellsSteps
<1>3. PICK y \in Nat, v \in Nat : s.pos_y = y /\ s.voff = v /\ y + n <= C /\ C \in Nat
  BY <1>1, Sizes DEF Screen
<1> DEFINE Done(i) == /\ Sound(g[i]) /\ g[i].pos_y = y + i /\ g[i].pos_x = s.pos_x
                      /\ g[i].voff = v + i
           T == {i \in 0 .. n : Done(i)}
<1>4. 0 \in T
  BY <1>2, <1>3
<1>5. ASSUME NEW i \in 1 .. n, i - 1 \in T PROVE i \in T
  <2>1. PICK t : t = g[i - 1]
    OBVIOUS
  <2>2. /\ Sound(t) /\ t.pos_y = y + (i - 1) /\ t.pos_x = s.pos_x /\ t.voff = v + (i - 1)
        /\ g[i] = PutCell(t)
    BY <1>2, <1>5, <2>1
  <2>3. y + (i - 1) < C /\ y + (i - 1) + 1 = y + i /\ v + (i - 1) + 1 = v + i
    BY <1>3
  <2>4. Sound(PutCell(t))
    BY <2>2, <2>3, CellSound
  <2>5. t \in Screen
    BY <2>2 DEF Sound
  <2>6. /\ PutCell(t).pos_x = t.pos_x /\ PutCell(t).pos_y = t.pos_y + 1
        /\ PutCell(t).voff = t.voff + 1
    BY <2>5, CellType
  <2> QED BY <2>2, <2>3, <2>4, <2>6
<1> HIDE DEF T
<1>6. n \in T
  BY <1>4, <1>5, UpTo
<1>7. Done(n)
  BY <1>6 DEF T
<1> QED BY <1>2, <1>3, <1>7

(* blit() shows the end of the ring, and nothing behind it. *)
LEMMA BlitSound ==
  ASSUME NEW s \in Screen, Kept(s), s.pos_x = R - 1, s.pos_y = 0, (R - 2) * C <= s.total
  PROVE  Sound(Blit(s)) /\ Blit(s).pos_y = 0
<1>2. PICK o \in 0 .. VBuf - 1, n \in Nat, v \in Nat, b \in [0 .. VBuf - 1 -> Cell] :
        s.offset = o /\ s.total = n /\ s.voff = v /\ s.buffer = b
  BY DEF Screen
<1>3. PICK q \in Nat : q = (R - 2) * C /\ s.pos_y + (s.pos_x - 1) * C = q
  BY Sizes
<1>4. PICK z \in Nat : z = R * C /\ q <= z /\ z < VBuf /\ VBuf \in Nat \ {0} /\ q < z
  <2>1. (R - 2) * C = R * C - 2 * C
    BY Sizes
  <2> QED BY <1>3, <2>1, Sizes
<1>5. q <= n
  BY <1>2, <1>3
<1> DEFINE st == BlitStart(s, q)
           w == [k \in 0 .. R * C |-> IF k < q THEN b[(st + k) % VBuf] ELSE Blank]
<1>6. Blit(s) = [s EXCEPT !.voff = q, !.top = R * C + 1, !.vram = w]
  BY <1>2, <1>3 DEF Blit
<1>7. ASSUME NEW k \in 0 .. z, k < q
      PROVE  b[(st + k) % VBuf] = n - q + k /\ n - q + k \in Nat
  <2>1. st = Back(o, q)
    BY <1>2 DEF BlitStart, Back
  <2>2. PICK e \in Int : e = Back(o, q) + k /\ -VBuf <= e /\ e < 2 * VBuf
    <3>1. Back(o, q) \in 0 .. VBuf - 1
      BY <1>4 DEF Back
    <3> QED BY <1>4, <1>7, <3>1
  <2>3. e % VBuf = IF e < 0 THEN e + VBuf ELSE IF e < VBuf THEN e ELSE e - VBuf
    BY <1>4, <2>2, Wrap
  <2>4. e % VBuf = Back(o, q - k)
    BY <1>4, <1>7, <2>2, <2>3 DEF Back
  <2>5. q - k \in 1 .. VBuf /\ q - k <= n /\ n - (q - k) = n - q + k /\ n - q + k \in Nat
    BY <1>4, <1>5, <1>7
  <2>6. b[Back(o, q - k)] = n - (q - k)
    BY <1>2, <2>5 DEF Kept
  <2> QED BY <2>1, <2>2, <2>4, <2>5, <2>6
<1>8. w \in [0 .. R * C -> Cell] /\ \A k \in 0 .. R * C : w[k] = IF k < q THEN n - q + k ELSE Blank
  BY <1>4, <1>7 DEF Cell
<1> HIDE DEF w, st
<1>9. PICK t : t = Blit(s)
  OBVIOUS
<1>10. /\ t \in Screen /\ t.voff = q /\ t.vram = w /\ t.total = n /\ t.offset = o /\ t.buffer = b
       /\ t.pos_x = R - 1 /\ t.pos_y = 0 /\ t.top = z + 1
  <2>1. z + 1 \in Nat /\ Blit(s) = [s EXCEPT !.voff = q, !.top = z + 1, !.vram = w]
    BY <1>4, <1>6
  <2> QED BY <1>2, <1>8, <1>9, <2>1 DEF Screen
<1>11. Rows(t)
  BY <1>3, <1>10, Sizes DEF Rows
<1>12. Shown(t)
  BY <1>5, <1>8, <1>10 DEF Shown
<1>13. Kept(t)
  BY <1>2, <1>10 DEF Kept
<1> QED BY <1>4, <1>9, <1>10, <1>11, <1>12, <1>13 DEF Sound

(* The rest of the line, and a line feed that may scroll. *)
LEMMA LineFeedSound ==
  ASSUME NEW s, Sound(s)
  PROVE  Sound(LineFeed(s)) /\ LineFeed(s).pos_y = 0
<1>1. s \in Screen /\ s.pos_y \in 0 .. C /\ s.pos_x \in 0 .. R - 1
  BY DEF Sound, Rows
<1>2. PICK f : f = PutCells(s, C - s.pos_y)
  OBVIOUS
<1>3. C - s.pos_y \in Nat /\ s.pos_y + (C - s.pos_y) = C /\ s.pos_y + (C - s.pos_y) <= C
  BY <1>1, Sizes
<1>4. Sound(f) /\ f.pos_y = C /\ f.pos_x = s.pos_x
  BY <1>2, <1>3, CellsSound
<1>5. f \in Screen
  BY <1>4 DEF Sound
<1>6. CASE s.pos_x + 1 >= R
  <2>1. PICK t : t = [f EXCEPT !.pos_x = R - 1, !.pos_y = 0]
    OBVIOUS
  <2>2. s.pos_x = R - 1
    BY <1>1, <1>6, Sizes
  <2>3. LineFeed(s) = Blit(t)
    BY <1>2, <1>6, <2>1 DEF LineFeed
  <2>4. /\ t \in Screen /\ t.pos_x = R - 1 /\ t.pos_y = 0 /\ t.voff = f.voff
        /\ t.total = f.total /\ t.offset = f.offset /\ t.buffer = f.buffer /\ t.vram = f.vram
        /\ t.top = f.top
    <3>1. R - 1 \in Nat /\ 0 \in Nat
      BY Sizes
    <3>2. PICK r : r = R - 1
      OBVIOUS
    <3> QED BY <1>5, <2>1, <3>1, <3>2 DEF Screen
  <2>5. Kept(t)
    BY <1>4, <2>4 DEF Sound, Kept
  <2>6. (R - 2) * C <= t.total
    <3>1. PICK q \in Nat, n \in Nat, v \in Nat : q = (R - 2) * C /\ n = f.total /\ v = f.voff
      BY <1>5, Sizes DEF Screen
    <3>2. (R - 1) * C = q + C
      BY <3>1, Sizes
    <3>3. v <= n /\ (v = (R - 1) * C + C \/ v = q + C) /\ C \in Nat
      BY <1>4, <2>2, <3>1, Sizes DEF Sound, Shown, Rows
    <3>4. q <= n
      BY <3>2, <3>3
    <3> QED BY <2>4, <3>1, <3>4
  <2> QED BY <2>3, <2>4, <2>5, <2>6, BlitSound
<1>7. CASE s.pos_x + 1 < R
  <2>1. PICK t : t = LineFeed(s)
    OBVIOUS
  <2>2. t = [f EXCEPT !.pos_x = f.pos_x + 1, !.pos_y = 0]
    BY <1>1, <1>2, <1>7, <2>1, Sizes DEF LineFeed
  <2>3. /\ t \in Screen /\ t.pos_x = s.pos_x + 1 /\ t.pos_y = 0 /\ t.voff = f.voff
        /\ t.total = f.total /\ t.offset = f.offset /\ t.buffer = f.buffer /\ t.vram = f.vram
        /\ t.top = f.top
    <3>1. PICK x \in Nat : x = f.pos_x + 1 /\ x = s.pos_x + 1
      BY <1>1, <1>4
    <3> QED BY <1>5, <2>2, <3>1 DEF Screen
  <2>4. Rows(t)
    <3>1. PICK x \in Nat : x = s.pos_x /\ x + 1 < R
      BY <1>1, <1>7
    <3>2. f.voff = x * C + C
      <4>1. x # R - 1
        BY <3>1, Sizes
      <4> QED BY <1>4, <3>1, <4>1 DEF Sound, Rows
    <3>3. x * C + C = (x + 1) * C + 0
      BY <3>1, Sizes
    <3> QED BY <2>3, <3>1, <3>2, <3>3, Sizes DEF Rows
  <2>5. Shown(t) /\ Kept(t)
    BY <1>4, <2>3 DEF Sound, Shown, Kept
  <2> QED BY <1>4, <2>1, <2>3, <2>4, <2>5 DEF Sound
<1>8. R \in Nat
  BY Sizes
<1> QED BY <1>1, <1>6, <1>7, <1>8

(* A character, and the line feed of a full line. *)
LEMMA PutCharSound ==
  ASSUME NEW s, Sound(s), s.pos_y < C
  PROVE  Sound(PutChar(s)) /\ PutChar(s).pos_y < C
<1>1. PICK t : t = PutCell(s)
  OBVIOUS
<1>2. Sound(t)
  BY <1>1, CellSound
<1>3. t.pos_y \in Nat /\ C \in Nat /\ 0 < C
  BY <1>2, Sizes DEF Sound, Screen
<1>4. CASE t.pos_y >= C
  <2>1. PutChar(s) = LineFeed(t)
    BY <1>1, <1>4 DEF PutChar
  <2> QED BY <1>2, <1>3, <2>1, LineFeedSound
<1>5. CASE ~(t.pos_y >= C)
  <2>1. PutChar(s) = t
    BY <1>1, <1>5 DEF PutChar
  <2> QED BY <1>2, <1>3, <1>5, <2>1
<1> QED BY <1>4, <1>5

(* Every step draws with these only. *)
LEMMA ScreenStep ==
  ASSUME ScreenInv, [ConsoleNext]_consoleVars
  PROVE  ScreenInv'
<1>1. scr' \in {scr, PutChar(scr), LineFeed(scr), LineFeed(PutChar(scr))}
  <2>1. ASSUME NEW b \in Byte, PrefixByte(b) \/ ModifierByte(b) \/ CharByte(b)
               \/ TabByte(b) \/ EnterByte(b) \/ OtherByte(b)
        PROVE  scr' \in {scr, PutChar(scr), LineFeed(scr)}
    BY <2>1 DEF PrefixByte, ModifierByte, CharByte, TabByte, EnterByte, OtherByte
  <2>2. ASSUME NEW p \in Proc, (\E len \in Lens : ReadRequest(p, len)) \/ WriteRequest(p)
                              \/ SwitchRequest(p)
        PROVE  scr' \in {scr, PutChar(scr), LineFeed(scr), LineFeed(PutChar(scr))}
    BY <2>2 DEF ReadRequest, WriteRequest, SwitchRequest
  <2>3. ASSUME KbdDone \/ Serve \/ ServeDone \/ NoRequest \/ UNCHANGED consoleVars
        PROVE  scr' = scr
    BY <2>3 DEF KbdDone, Serve, ServeDone, NoRequest, consoleVars
  <2> QED BY <2>1, <2>2, <2>3 DEF ConsoleNext
<1>2. 0 < C
  BY Sizes
<1>3. Sound(scr) /\ scr.pos_y < C
  BY DEF ScreenInv
<1>4. Sound(PutChar(scr)) /\ PutChar(scr).pos_y < C
  BY <1>3, PutCharSound
<1>5. Sound(LineFeed(scr)) /\ LineFeed(scr).pos_y = 0
  BY <1>3, LineFeedSound
<1>6. Sound(LineFeed(PutChar(scr))) /\ LineFeed(PutChar(scr)).pos_y = 0
  BY <1>4, LineFeedSound
<1>7. Sound(scr') /\ scr'.pos_y < C
  BY <1>1, <1>2, <1>3, <1>4, <1>5, <1>6
<1> QED BY <1>7 DEF ScreenInv

(* The screen shows the end of the output, however often it has scrolled,  *)
(* and nothing is written behind its end but one blank cell (the <= of     *)
(* blit, main.c:122), for any screen with two rows or more and any buffer  *)
(* with more room than the screen (main.c:112-160).                        *)
THEOREM ScreenShowsTail == ConsoleSpec => []ScreenTail
<1>1. ConsoleInit => ScreenInv
  <2> SUFFICES ASSUME ConsoleInit PROVE ScreenInv
    OBVIOUS
  <2>1. scr = [pos_x |-> 0, pos_y |-> 0, offset |-> 0, voff |-> 0, total |-> 0, top |-> 0,
               buffer |-> [k \in 0 .. VBuf - 1 |-> Blank], vram |-> [k \in 0 .. R * C |-> Blank]]
    BY DEF ConsoleInit
  <2>2. scr \in Screen
    BY <2>1, Sizes DEF Screen, Cell
  <2>3. Rows(scr) /\ scr.pos_y < C
    <3>1. 0 * C + 0 = 0 /\ 0 \in 0 .. R - 1 /\ 0 \in 0 .. C /\ 0 < C
      BY Sizes
    <3> QED BY <2>1, <3>1 DEF Rows
  <2>4. Shown(scr)
    BY <2>1, Sizes DEF Shown
  <2>5. Kept(scr)
    BY <2>1, Sizes DEF Kept
  <2>6. scr.top <= R * C + 1
    BY <2>1, Sizes
  <2> QED BY <2>2, <2>3, <2>4, <2>5, <2>6 DEF ScreenInv, Sound
<1>2. ScreenInv => ScreenTail
  BY RowEnd DEF ScreenInv, ScreenTail, Sound, Shown
<1> QED BY <1>1, <1>2, ScreenStep, PTL DEF ConsoleSpec

-----------------------------------------------------------------------------
(* The rings.  InRing lists what one holds: an entry at the tail is        *)
(* appended, the one at the head is taken off.                             *)

Slots == 0 .. Ring - 1

\* a lists the entries of f from h to t.
Lists(a, f, h, t) ==
  /\ Len(a) = (IF t < h THEN t - h + Ring ELSE t - h)
  /\ \A i \in 1 .. Len(a) : a[i] = f[IF h + i - 1 < Ring THEN h + i - 1 ELSE h + i - 1 - Ring]

(* What a ring holds. *)
LEMMA RingType ==
  ASSUME NEW X, NEW f \in [Slots -> X], NEW h \in Slots, NEW t \in Slots
  PROVE  InRing(f, h, t) \in Seq(X) /\ Lists(InRing(f, h, t), f, h, t)
<1>1. Ring \in Nat /\ Ring >= 1 /\ h \in Nat /\ t \in Nat /\ h < Ring /\ t < Ring
  BY Sizes DEF Slots
<1>2. PICK n : n = IF t < h THEN t - h + Ring ELSE t - h
  OBVIOUS
<1>n. n \in Nat /\ n < Ring
  BY <1>1, <1>2
<1>3. (t - h) % Ring = n
  <2>1. /\ t - h \in Int /\ Ring \in Nat \ {0} /\ -Ring <= t - h /\ t - h < 2 * Ring
        /\ t - h < Ring /\ (t < h <=> t - h < 0)
    BY <1>1
  <2>2. (t - h) % Ring = IF t - h < 0 THEN t - h + Ring ELSE IF t - h < Ring THEN t - h ELSE t - h - Ring
    BY <2>1, Wrap
  <2> QED BY <1>2, <2>1, <2>2
<1>4. ASSUME NEW i \in 1 .. n
      PROVE  /\ (h + i - 1) % Ring = IF h + i - 1 < Ring THEN h + i - 1 ELSE h + i - 1 - Ring
             /\ (h + i - 1) % Ring \in Slots
  <2>1. PICK k \in Int : k = h + i - 1
    BY <1>1
  <2>2. /\ Ring \in Nat \ {0} /\ -Ring <= k /\ k < 2 * Ring /\ 0 <= k
    BY <1>1, <1>n, <2>1
  <2>3. k % Ring = IF k < 0 THEN k + Ring ELSE IF k < Ring THEN k ELSE k - Ring
    BY <2>2, Wrap
  <2> QED BY <1>1, <2>1, <2>2, <2>3 DEF Slots
<1>5. InRing(f, h, t) = [i \in 1 .. n |-> f[(h + i - 1) % Ring]]
  BY <1>3 DEF InRing
<1>6. InRing(f, h, t) \in Seq(X) /\ Len(InRing(f, h, t)) = n
  BY <1>n, <1>4, <1>5
<1> QED BY <1>2, <1>4, <1>5, <1>6 DEF Lists

(* The next place of a ring. *)
LEMMA RingNext ==
  ASSUME NEW h \in Slots
  PROVE  (h + 1) % Ring \in Slots /\ (h + 1) % Ring = IF h + 1 = Ring THEN 0 ELSE h + 1
<1>1. PICK k \in Int : k = h + 1 /\ 0 < k /\ k <= Ring /\ Ring \in Nat \ {0}
  BY Sizes DEF Slots
<1>2. k % Ring = IF k < 0 THEN k + Ring ELSE IF k < Ring THEN k ELSE k - Ring
  BY <1>1, Wrap
<1> QED BY <1>1, <1>2 DEF Slots

\* g is f with x stored at the tail t, u the new tail.
Stored(g, u, f, t, x) == g = [f EXCEPT ![t] = x] /\ u = (t + 1) % Ring

Longer(b, a, x) == b = Append(a, x)

(* An entry at the tail. *)
LEMMA RingAppend ==
  ASSUME NEW X, NEW f \in [Slots -> X], NEW h \in Slots, NEW t \in Slots, NEW x \in X,
         Len(InRing(f, h, t)) + 1 < Ring, NEW g, NEW u, Stored(g, u, f, t, x)
  PROVE  u \in Slots /\ Longer(InRing(g, h, u), InRing(f, h, t), x)
<1>1. Ring \in Nat /\ Ring >= 1 /\ h \in Nat /\ t \in Nat /\ h < Ring /\ t < Ring
  BY Sizes DEF Slots
<1>2. u = IF t + 1 = Ring THEN 0 ELSE t + 1
  BY RingNext DEF Stored
<1>3. u \in Slots
  BY <1>1, <1>2 DEF Slots
<1>5. g \in [Slots -> X] /\ g[t] = x /\ \A k \in Slots \ {t} : g[k] = f[k]
  BY DEF Stored
<1>6. PICK a : a = InRing(f, h, t)
  OBVIOUS
<1>7. PICK b : b = InRing(g, h, u)
  OBVIOUS
<1>8. a \in Seq(X) /\ Lists(a, f, h, t)
  BY <1>6, RingType
<1>9. b \in Seq(X) /\ Lists(b, g, h, u)
  BY <1>3, <1>5, <1>7, RingType
<1>10. PICK n \in Nat : n = Len(a) /\ n + 1 < Ring
  BY <1>6, <1>8
<1>11. Len(b) = n + 1
  BY <1>1, <1>2, <1>8, <1>9, <1>10 DEF Lists
<1>12. ASSUME NEW i \in 1 .. n PROVE b[i] = a[i]
  <2>1. PICK k : k = IF h + i - 1 < Ring THEN h + i - 1 ELSE h + i - 1 - Ring
    OBVIOUS
  <2>2. k \in Slots /\ k # t
    BY <1>1, <1>8, <1>10, <2>1 DEF Slots, Lists
  <2>3. i \in 1 .. Len(a) /\ i \in 1 .. Len(b)
    BY <1>10, <1>11
  <2>4. a[i] = f[k]
    BY <1>8, <2>1, <2>3 DEF Lists
  <2>5. b[i] = g[k]
    BY <1>9, <2>1, <2>3 DEF Lists
  <2> QED BY <1>5, <2>2, <2>4, <2>5
<1>13. b[n + 1] = x
  <2>1. (IF h + (n + 1) - 1 < Ring THEN h + (n + 1) - 1 ELSE h + (n + 1) - 1 - Ring) = t
    BY <1>1, <1>8, <1>10 DEF Lists
  <2>2. n + 1 \in 1 .. Len(b)
    BY <1>11
  <2> QED BY <1>5, <1>9, <2>1, <2>2 DEF Lists
<1>14. b = Append(a, x)
  BY <1>8, <1>9, <1>10, <1>11, <1>12, <1>13
<1> QED BY <1>3, <1>6, <1>7, <1>14 DEF Longer

(* The entry at the head. *)
LEMMA RingTail ==
  ASSUME NEW X, NEW f \in [Slots -> X], NEW h \in Slots, NEW t \in Slots, h # t
  PROVE  /\ (h + 1) % Ring \in Slots
         /\ InRing(f, h, t) # <<>> /\ InRing(f, h, t)[1] = f[h]
         /\ InRing(f, (h + 1) % Ring, t) = Tail(InRing(f, h, t))
<1>1. Ring \in Nat /\ Ring >= 1 /\ h \in Nat /\ t \in Nat /\ h < Ring /\ t < Ring
  BY Sizes DEF Slots
<1>2. PICK u : u = (h + 1) % Ring /\ u = IF h + 1 = Ring THEN 0 ELSE h + 1
  BY RingNext
<1>3. u \in Slots
  BY <1>1, <1>2 DEF Slots
<1>4. PICK a : a = InRing(f, h, t)
  OBVIOUS
<1>5. PICK b : b = InRing(f, u, t)
  OBVIOUS
<1>6. a \in Seq(X) /\ Lists(a, f, h, t)
  BY <1>4, RingType
<1>7. b \in Seq(X) /\ Lists(b, f, u, t)
  BY <1>3, <1>5, RingType
<1>8. PICK n \in Nat : n = Len(b) /\ Len(a) = n + 1
  <2>1. Len(b) \in Nat
    BY <1>7
  <2>2. /\ Len(a) = (IF t < h THEN t - h + Ring ELSE t - h)
        /\ Len(b) = (IF t < u THEN t - u + Ring ELSE t - u)
    BY <1>6, <1>7 DEF Lists
  <2>3. Len(a) = Len(b) + 1
    BY <1>1, <1>2, <2>2
  <2> QED BY <2>1, <2>3
<1>9. a # <<>> /\ a[1] = f[h]
  <2>1. (IF h + 1 - 1 < Ring THEN h + 1 - 1 ELSE h + 1 - 1 - Ring) = h /\ 1 \in 1 .. Len(a)
    BY <1>1, <1>8
  <2> QED BY <1>6, <1>8, <2>1 DEF Lists
<1>10. ASSUME NEW i \in 1 .. n PROVE b[i] = a[i + 1]
  <2>1. PICK k : k = IF u + i - 1 < Ring THEN u + i - 1 ELSE u + i - 1 - Ring
    OBVIOUS
  <2>2. k = IF h + (i + 1) - 1 < Ring THEN h + (i + 1) - 1 ELSE h + (i + 1) - 1 - Ring
    BY <1>1, <1>2, <1>6, <1>8, <2>1 DEF Lists
  <2>3. b[i] = f[k]
    BY <1>7, <1>8, <2>1 DEF Lists
  <2>4. i + 1 \in 1 .. Len(a)
    BY <1>8
  <2> QED BY <1>6, <2>2, <2>3, <2>4 DEF Lists
<1>11. b = Tail(a)
  BY <1>6, <1>7, <1>8, <1>9, <1>10
<1> QED BY <1>2, <1>3, <1>4, <1>5, <1>9, <1>11

-----------------------------------------------------------------------------
(* Waiting reads.  A process that waits asks for nothing, so the ring has  *)
(* a free place for every request: there are fewer processes than places.  *)

Pending == [proc : Proc \cup {NoProc}, len : Nat]

PendInv ==
  /\ ph \in Slots /\ pt \in Slots /\ pending_read \in [Slots -> Pending]
  /\ waiting \in Seq(Proc) /\ IsInjective(waiting)
  /\ PendingExact
  /\ pc = "request" => rlh = rlt \/ ph = pt

\* The processes of reads.
Procs(ps) == [i \in DOMAIN ps |-> ps[i].proc]

(* One more read waits. *)
LEMMA ProcsAppend ==
  ASSUME NEW ps \in Seq(Pending), NEW r \in Pending
  PROVE  Procs(Append(ps, r)) = Append(Procs(ps), r.proc)
<1>1. PICK q : q = Append(ps, r)
  OBVIOUS
<1>2. /\ q \in Seq(Pending) /\ Len(q) = Len(ps) + 1 /\ q[Len(ps) + 1] = r
      /\ \A i \in 1 .. Len(ps) : q[i] = ps[i]
  BY <1>1
<1>4. Procs(ps) \in Seq({z.proc : z \in Pending}) /\ Len(Procs(ps)) = Len(ps)
  BY DEF Procs
<1>5. Procs(q) \in Seq({z.proc : z \in Pending}) /\ Len(Procs(q)) = Len(ps) + 1
  BY <1>2 DEF Procs
<1>6. \A i \in 1 .. Len(ps) : Procs(q)[i] = Procs(ps)[i]
  BY <1>2 DEF Procs
<1>7. Procs(q)[Len(ps) + 1] = r.proc
  BY <1>2 DEF Procs
<1>8. Procs(q) = Append(Procs(ps), r.proc)
  BY <1>4, <1>5, <1>6, <1>7
<1> QED BY <1>1, <1>8

(* One less. *)
LEMMA ProcsTail ==
  ASSUME NEW ps \in Seq(Pending), ps # <<>>
  PROVE  Procs(ps) # <<>> /\ Procs(Tail(ps)) = Tail(Procs(ps)) /\ Head(Procs(ps)) = ps[1].proc
<1>1. PICK q : q = Tail(ps)
  OBVIOUS
<1>2. PICK n \in Nat : Len(ps) = n + 1
  BY DEF Pending
<1>3. q \in Seq(Pending) /\ Len(q) = n /\ \A i \in 1 .. n : q[i] = ps[i + 1]
  BY <1>1, <1>2
<1>4. Procs(ps) \in Seq({r.proc : r \in Pending}) /\ Len(Procs(ps)) = n + 1
  BY <1>2 DEF Procs
<1>5. Procs(q) \in Seq({r.proc : r \in Pending}) /\ Len(Procs(q)) = n
  BY <1>3 DEF Procs
<1>6. \A i \in 1 .. n : Procs(q)[i] = Procs(ps)[i + 1]
  BY <1>2, <1>3 DEF Procs
<1>7. Procs(ps)[1] = ps[1].proc
  BY <1>2 DEF Procs
<1> QED BY <1>1, <1>4, <1>5, <1>6, <1>7

(* A read that waits is put behind the others. *)
LEMMA ReadWaits ==
  ASSUME PendInv, NEW p \in Proc, ~Contains(waiting, p), pc' = "kbd",
         NEW r \in Pending, r.proc = p, Stored(pending_read', pt', pending_read, pt, r),
         waiting' = Append(waiting, p), ph' = ph
  PROVE  PendInv' /\ ServedInOrder
<1>2. PICK w \in Seq(Proc) : w = waiting /\ IsInjective(w) /\ p \notin Range(w)
  BY DEF PendInv, Contains, Range
<1>3. PICK v : v = Append(w, p)
  OBVIOUS
<1>4. v \in Seq(Proc) /\ IsInjective(v) /\ Range(v) = Range(w) \cup {p}
  BY <1>2, <1>3, AppendDistinct
<1>5. Len(w) + 1 < Ring
  <2>1. Cardinality(Range(v)) = Len(v)
    BY <1>4, DistinctLength
  <2>2. Range(v) \in SUBSET Proc
    BY <1>4 DEF Range
  <2>3. /\ Cardinality(Range(v)) <= Cardinality(Proc) /\ Cardinality(Proc) < Ring
        /\ Cardinality(Proc) \in Nat
    BY <2>2, ConsoleAssumption, FS_Subset, FS_CardinalityType
  <2>4. Len(v) = Len(w) + 1 /\ Len(w) \in Nat
    BY <1>3
  <2> QED BY <2>1, <2>3, <2>4, Sizes
<1>6. PICK ps \in Seq(Pending) : ps = InRing(pending_read, ph, pt)
  BY RingType DEF PendInv
<1>7. w = Procs(ps)
  BY <1>2, <1>6 DEF PendInv, PendingExact, Procs
<1>8. Len(ps) + 1 < Ring
  BY <1>5, <1>7 DEF Procs
<1>9. pt' \in Slots /\ InRing(pending_read', ph', pt') = Append(ps, r)
  <2>1. ph \in Slots /\ pt \in Slots /\ pending_read \in [Slots -> Pending]
    BY DEF PendInv
  <2>2. Len(InRing(pending_read, ph, pt)) + 1 < Ring
    BY <1>6, <1>8
  <2>3. pt' \in Slots /\ Longer(InRing(pending_read', ph, pt'), InRing(pending_read, ph, pt), r)
    BY <2>1, <2>2, RingAppend
  <2> QED BY <1>6, <2>3 DEF Longer
<1>10. waiting' = Procs(Append(ps, r))
  BY <1>2, <1>7, ProcsAppend
<1>11. PendingExact'
  BY <1>9, <1>10 DEF PendingExact, Procs
<1>12. pending_read' \in [Slots -> Pending]
  BY DEF PendInv, Stored
<1>13. PendInv'
  BY <1>2, <1>3, <1>4, <1>9, <1>11, <1>12 DEF PendInv
<1>14. ServedInOrder
  <2>1. \A q : Contains(w, q) => Contains(v, q)
    BY <1>3 DEF Contains
  <2> QED BY <1>2, <1>3, <2>1 DEF ServedInOrder
<1> QED BY <1>13, <1>14

(* The first one is answered. *)
LEMMA ReadServed ==
  ASSUME PendInv, Serve
  PROVE  PendInv' /\ ServedInOrder
<1>1. /\ pc = "serve" /\ pc' = pc /\ pt # ph /\ ph' = (ph + 1) % Ring
      /\ waiting' = RemoveFirst(waiting, pending_read[ph].proc)
      /\ pending_read' = pending_read /\ pt' = pt
  BY DEF Serve
<1>2. PICK ps \in Seq(Pending) : ps = InRing(pending_read, ph, pt)
  BY RingType DEF PendInv
<1>3. ps # <<>> /\ ps[1] = pending_read[ph] /\ ph' \in Slots /\ InRing(pending_read, ph', pt) = Tail(ps)
  BY <1>1, <1>2, RingTail DEF PendInv
<1>4. PICK w \in Seq(Proc) : w = waiting /\ IsInjective(w) /\ w = Procs(ps)
  BY <1>2 DEF PendInv, PendingExact, Procs
<1>5. w # <<>> /\ Procs(Tail(ps)) = Tail(w) /\ Head(w) = pending_read[ph].proc
  BY <1>3, <1>4, ProcsTail
<1>6. waiting' = Tail(w)
  BY <1>1, <1>4, <1>5, RemoveHead
<1>7. PendingExact'
  BY <1>1, <1>3, <1>5, <1>6 DEF PendingExact, Procs
<1>8. Tail(w) \in Seq(Proc) /\ IsInjective(Tail(w)) /\ Range(Tail(w)) = Range(w) \ {Head(w)}
  BY <1>4, <1>5, TailDistinct
<1>9. PendInv'
  BY <1>1, <1>3, <1>6, <1>7, <1>8 DEF PendInv
<1>10. ServedInOrder
  <2>1. \A q : Contains(w, q) <=> q \in Range(w)
    BY DEF Contains, Range
  <2>2. ASSUME NEW v \in Seq(Proc) PROVE \A q : Contains(v, q) <=> q \in Range(v)
    BY DEF Contains, Range
  <2> QED BY <1>4, <1>6, <1>8, <2>1, <2>2 DEF ServedInOrder
<1> QED BY <1>9, <1>10

(* What a step does with the waiting reads. *)
LEMMA PendStep ==
  ASSUME PendInv, ConsoleNext
  PROVE  PendInv' /\ NobodyWaits /\ ServedInOrder
<1>1. ASSUME UNCHANGED pend, pc' = "request" => rlh' = rlt' \/ ph' = pt'
      PROVE  PendInv' /\ ServedInOrder
  <2>1. PendingExact'
    BY <1>1 DEF pend, PendInv, PendingExact, InRing
  <2> QED BY <1>1, <2>1 DEF pend, PendInv, ServedInOrder
<1>2. ASSUME NEW b \in Byte, PrefixByte(b) \/ ModifierByte(b) \/ CharByte(b)
             \/ TabByte(b) \/ EnterByte(b) \/ OtherByte(b)
      PROVE  pc = "kbd" /\ pc' = "kbd" /\ UNCHANGED pend
  BY <1>2 DEF PrefixByte, ModifierByte, CharByte, TabByte, EnterByte, OtherByte
<1>3. ASSUME KbdDone \/ NoRequest \/ \E p \in Proc : WriteRequest(p) \/ SwitchRequest(p)
      PROVE  UNCHANGED <<pend, ring>> /\ pc' # "request"
  BY <1>3 DEF KbdDone, NoRequest, WriteRequest, SwitchRequest
<1>4. CASE ServeDone
  <2>1. UNCHANGED pend /\ (rlh' = rlt' \/ ph' = pt') /\ pc # "request"
    BY <1>4 DEF ServeDone, pend, ring
  <2> QED BY <1>1, <2>1 DEF NobodyWaits
<1>5. CASE Serve
  <2>1. pc # "request"
    BY <1>5 DEF Serve
  <2> QED BY <1>5, <2>1, ReadServed DEF NobodyWaits
<1>6. ASSUME NEW p \in Proc, NEW len \in Lens, ReadRequest(p, len)
      PROVE  PendInv' /\ NobodyWaits /\ ServedInOrder
  <2>1. pc = "request" /\ pc' = "kbd" /\ ~Contains(waiting, p) /\ len \in Nat
    BY <1>6, ConsoleAssumption DEF ReadRequest
  <2>2. CASE UNCHANGED <<ring, pend>>
    BY <1>1, <2>1, <2>2 DEF ring, pend, NobodyWaits, PendInv
  <2>3. CASE /\ p = control_pid /\ ~LineReady
             /\ pending_read' = [pending_read EXCEPT ![pt] = [proc |-> p, len |-> len]]
             /\ pt' = AfterPt
             /\ waiting' = Append(waiting, p)
             /\ UNCHANGED <<ring, got, ph>>
    <3>1. PendInv' /\ ServedInOrder
      <4>1. PICK r \in Pending : r = [proc |-> p, len |-> len]
        BY <2>1 DEF Pending
      <4>2. r.proc = p /\ Stored(pending_read', pt', pending_read, pt, r)
        BY <2>3, <4>1 DEF Stored, AfterPt
      <4> QED BY <2>1, <2>3, <4>2, ReadWaits
    <3>2. NobodyWaits
      BY <2>3 DEF NobodyWaits, LineReady, ring
    <3> QED BY <3>1, <3>2
  <2>4. CASE LineReady /\ UNCHANGED pend
    <3>1. ph = pt
      BY <2>1, <2>4 DEF PendInv, LineReady
    <3> QED BY <1>1, <2>1, <2>4, <3>1 DEF NobodyWaits, pend
  <2> QED BY <1>6, <2>2, <2>3, <2>4 DEF ReadRequest
<1>7. ASSUME UNCHANGED <<pend, ring>>, pc' # "request"
      PROVE  PendInv' /\ NobodyWaits /\ ServedInOrder
  BY <1>1, <1>7 DEF pend, ring, NobodyWaits, PendInv
<1>8. ASSUME pc = "kbd" /\ pc' = "kbd" /\ UNCHANGED pend
      PROVE  PendInv' /\ NobodyWaits /\ ServedInOrder
  BY <1>1, <1>8 DEF NobodyWaits
<1> QED BY <1>2, <1>3, <1>4, <1>5, <1>6, <1>7, <1>8, Zenon DEF ConsoleNext

(* No read waits at the start. *)
LEMMA PendInit == ConsoleInit => PendInv
<1> SUFFICES ASSUME ConsoleInit PROVE PendInv
  OBVIOUS
<1>1. 0 \in Slots /\ (0 - 0) % Ring = 0
  BY Sizes DEF Slots
<1>2. pending_read \in [Slots -> Pending]
  BY DEF ConsoleInit, Slots, Pending
<1>3. waiting \in Seq(Proc) /\ IsInjective(waiting)
  BY DEF ConsoleInit, IsInjective
<1>4. PendingExact
  BY <1>1 DEF ConsoleInit, PendingExact, InRing
<1> QED BY <1>1, <1>2, <1>3, <1>4 DEF PendInv, ConsoleInit

(* And every step keeps the ring right. *)
LEMMA PendKeeps == PendInv /\ [ConsoleNext]_consoleVars => PendInv'
<1>1. ASSUME PendInv, UNCHANGED consoleVars PROVE PendInv'
  <2>1. PendingExact'
    BY <1>1 DEF consoleVars, pend, PendInv, PendingExact, InRing
  <2> QED BY <1>1, <2>1 DEF consoleVars, pend, ring, PendInv
<1> QED BY <1>1, PendStep

(***************************************************************************)
(* No line is in store while a read waits when the server sleeps, and      *)
(* reads are answered first come, first served (main.c:416-434).           *)
(***************************************************************************)
THEOREM ReadsInOrder == ConsoleSpec => ReadsServed
<1>1. PendInv /\ [ConsoleNext]_consoleVars => [NobodyWaits /\ ServedInOrder]_consoleVars
  BY PendStep
<1> QED BY <1>1, PendInit, PendKeeps, PTL DEF ConsoleSpec, ReadsServed

-----------------------------------------------------------------------------
(* Lines.  The junk of a line is behind its text, so a part of a line is   *)
(* text, junk, or text and then junk.                                      *)

Sym == Nat \cup {OldChar}
TextEnds(s, k) == k \in 0 .. Len(s) /\ \A j \in 1 .. Len(s) : s[j] # OldChar <=> j <= k
Line == {s \in Seq(Sym) : \E k \in Nat : TextEnds(s, k)}

(* The text of a line is what is before its junk. *)
LEMMA TextOf ==
  ASSUME NEW s \in Seq(Sym), NEW k \in Nat, TextEnds(s, k)
  PROVE  /\ s \in Line /\ Text(s) \in Seq(Nat) /\ Len(Text(s)) = k
         /\ \A j \in 1 .. k : Text(s)[j] = s[j]
<1>1. k <= Len(s) /\ \A j \in 1 .. Len(s) : s[j] # OldChar <=> j <= k
  BY DEF TextEnds
<1>2. {j \in DOMAIN s : s[j] # OldChar} = 1 .. k
  BY <1>1
<1>3. Cardinality(1 .. k) = k
  BY FS_Interval
<1>4. Text(s) = SubSeq(s, 1, k)
  BY <1>2, <1>3 DEF Text
<1>5. \A j \in 1 .. k : s[j] \in Nat
  BY <1>1 DEF Sym
<1>6. SubSeq(s, 1, k) \in Seq(Nat) /\ Len(SubSeq(s, 1, k)) = k /\ \A j \in 1 .. k : SubSeq(s, 1, k)[j] = s[j]
  BY <1>1, <1>5
<1> QED BY <1>4, <1>6 DEF Line

(* The text of a line cut in two. *)
LEMMA TextParts ==
  ASSUME NEW s \in Line, NEW m \in Nat, m <= Len(s)
  PROVE  /\ SubSeq(s, 1, m) \in Line /\ SubSeq(s, m + 1, Len(s)) \in Line
         /\ Text(s) = Text(SubSeq(s, 1, m)) \o Text(SubSeq(s, m + 1, Len(s)))
<1>1. PICK k \in Nat : s \in Seq(Sym) /\ TextEnds(s, k)
  BY DEF Line
<1>2. PICK n \in Nat : n = Len(s) /\ m <= n /\ k <= n
  BY <1>1 DEF TextEnds
<1>3. PICK a : a = SubSeq(s, 1, m)
  OBVIOUS
<1>4. PICK b : b = SubSeq(s, m + 1, n)
  OBVIOUS
<1>5. a \in Seq(Sym) /\ Len(a) = m /\ \A j \in 1 .. m : a[j] = s[j]
  BY <1>1, <1>2, <1>3
<1>6. b \in Seq(Sym) /\ Len(b) = n - m /\ \A j \in 1 .. n - m : b[j] = s[j + m]
  BY <1>1, <1>2, <1>4
<1>7. PICK ka \in Nat, kb \in Nat : /\ ka = (IF k <= m THEN k ELSE m)
                                    /\ kb = (IF k <= m THEN 0 ELSE k - m)
  <2>1. (IF k <= m THEN k ELSE m) \in Nat
    OBVIOUS
  <2>2. (IF k <= m THEN 0 ELSE k - m) \in Nat
    OBVIOUS
  <2> QED BY <2>1, <2>2
<1>8. TextEnds(a, ka)
  BY <1>1, <1>2, <1>5, <1>7 DEF TextEnds
<1>9. TextEnds(b, kb)
  <2>1. kb \in 0 .. n - m
    BY <1>2, <1>7
  <2>2. ASSUME NEW j \in 1 .. n - m PROVE b[j] # OldChar <=> j <= kb
    <3>1. j + m \in 1 .. n
      BY <1>2
    <3>2. s[j + m] # OldChar <=> j + m <= k
      BY <1>1, <1>2, <3>1 DEF TextEnds
    <3>3. j + m <= k <=> j <= kb
      BY <1>2, <1>7
    <3> QED BY <1>6, <3>2, <3>3
  <2> QED BY <1>6, <2>1, <2>2 DEF TextEnds
<1>10. PICK t \in Seq(Nat) : t = Text(s) /\ Len(t) = k /\ \A j \in 1 .. k : t[j] = s[j]
  BY <1>1, TextOf
<1>11. PICK ta \in Seq(Nat) : ta = Text(a) /\ Len(ta) = ka /\ \A j \in 1 .. ka : ta[j] = a[j]
  BY <1>5, <1>8, TextOf
<1>12. PICK tb \in Seq(Nat) : tb = Text(b) /\ Len(tb) = kb /\ \A j \in 1 .. kb : tb[j] = b[j]
  BY <1>6, <1>9, TextOf
<1>13. t = ta \o tb
  <2>d. PICK d : d = ta \o tb
    OBVIOUS
  <2>1. /\ d \in Seq(Nat) /\ Len(d) = ka + kb
        /\ \A j \in 1 .. ka : d[j] = ta[j]
        /\ \A j \in 1 .. kb : d[ka + j] = tb[j]
    <3>1. d \in Seq(Nat) /\ Joined(d, ta, tb)
      BY <2>d, Join
    <3> QED BY <1>11, <1>12, <3>1 DEF Joined
  <2>2. ka + kb = k
    BY <1>7
  <2>3. ASSUME NEW j \in 1 .. k PROVE t[j] = d[j]
    <3>1. CASE j <= ka
      <4>1. j \in 1 .. ka /\ j \in 1 .. m
        BY <1>7, <3>1
      <4>2. t[j] = s[j] /\ s[j] = a[j]
        BY <1>5, <1>10, <4>1
      <4>3. d[j] = ta[j] /\ ta[j] = a[j]
        BY <1>11, <2>1, <4>1
      <4> QED BY <4>2, <4>3
    <3>2. CASE j > ka
      <4>1. PICK i \in 1 .. kb : j = ka + i /\ ka = m /\ i \in 1 .. n - m
        <5>1. j - ka \in 1 .. kb /\ j = ka + (j - ka) /\ ka = m /\ j - ka \in 1 .. n - m
          BY <1>2, <1>7, <2>2, <3>2
        <5> QED BY <5>1
      <4>2. d[j] = tb[i] /\ tb[i] = b[i] /\ b[i] = s[i + m]
        BY <1>6, <1>12, <2>1, <4>1
      <4>3. i + m = j
        BY <4>1
      <4> QED BY <1>10, <4>2, <4>3
    <3> QED BY <3>1, <3>2
  <2>4. Len(t) = Len(d) /\ \A j \in 1 .. Len(t) : t[j] = d[j]
    BY <1>10, <2>1, <2>2, <2>3
  <2>5. t = d
    BY <2>1, <2>4
  <2> QED BY <2>d, <2>5
<1>14. a \in Line /\ b \in Line
  BY <1>5, <1>6, <1>8, <1>9 DEF Line
<1> QED BY <1>2, <1>3, <1>4, <1>10, <1>11, <1>12, <1>13, <1>14

\* What is unread of the line s after off characters; the texts of the lines
\* of the ring, the first one after off characters.
Rest(s, off) == SubSeq(s, off + 1, Len(s))
Texts(ls, off) == [i \in DOMAIN ls |-> Text(IF i = 1 THEN Rest(ls[1], off) ELSE ls[i])]

(* The rest of a line is text and then junk too. *)
LEMMA RestLine ==
  ASSUME NEW s \in Line, NEW off \in Nat, off <= Len(s)
  PROVE  Rest(s, off) \in Line /\ Len(Rest(s, off)) = Len(s) - off /\ Rest(s, 0) = s
<1>1. s \in Seq(Sym)
  BY DEF Line
<1> QED BY <1>1, TextParts DEF Rest

(* The texts in store. *)
TextsOf(t, ls, off) ==
  /\ Len(t) = Len(ls)
  /\ \A i \in 1 .. Len(ls) : t[i] = Text(IF i = 1 THEN Rest(ls[1], off) ELSE ls[i])

LEMMA TextsType ==
  ASSUME NEW ls \in Seq(Line), NEW off \in Nat, Len(ls) > 0 => off <= Len(ls[1])
  PROVE  Texts(ls, off) \in Seq(Seq(Nat)) /\ TextsOf(Texts(ls, off), ls, off)
<1>1. PICK n \in Nat : n = Len(ls) /\ DOMAIN ls = 1 .. n
  OBVIOUS
<1>2. \A s \in Line : Text(s) \in Seq(Nat)
  BY TextOf DEF Line
<1>3. ASSUME NEW i \in 1 .. n
      PROVE  Text(IF i = 1 THEN Rest(ls[1], off) ELSE ls[i]) \in Seq(Nat)
  <2>1. ls[i] \in Line /\ ls[1] \in Line /\ off <= Len(ls[1])
    BY <1>1
  <2>2. Rest(ls[1], off) \in Line
    BY <2>1, RestLine
  <2> QED BY <1>2, <2>1, <2>2
<1>4. PICK t : t = [i \in 1 .. n |-> Text(IF i = 1 THEN Rest(ls[1], off) ELSE ls[i])]
  OBVIOUS
<1>5. /\ t \in [1 .. n -> Seq(Nat)]
      /\ \A i \in 1 .. n : t[i] = Text(IF i = 1 THEN Rest(ls[1], off) ELSE ls[i])
  BY <1>3, <1>4
<1>6. t \in Seq(Seq(Nat)) /\ Len(t) = n
  BY <1>5
<1>7. Texts(ls, off) = t
  BY <1>1, <1>4 DEF Texts
<1> QED BY <1>1, <1>5, <1>6, <1>7 DEF TextsOf

(* One more line. *)
LEMMA TextsAppend ==
  ASSUME NEW ls \in Seq(Line), NEW off \in Nat, NEW s \in Line,
         IF Len(ls) > 0 THEN off <= Len(ls[1]) ELSE off = 0
  PROVE  Texts(Append(ls, s), off) = Append(Texts(ls, off), Text(s))
<1>1. PICK n \in Nat : n = Len(ls)
  OBVIOUS
<1>m. PICK ms : ms = Append(ls, s)
  OBVIOUS
<1>2. /\ ms \in Seq(Line) /\ Len(ms) = n + 1 /\ ms[n + 1] = s
      /\ \A i \in 1 .. n : ms[i] = ls[i]
  BY <1>1, <1>m
<1>3. PICK a : a = Texts(ls, off)
  OBVIOUS
<1>4. PICK b : b = Texts(ms, off)
  OBVIOUS
<1>5. /\ a \in Seq(Seq(Nat)) /\ Len(a) = n
      /\ \A i \in 1 .. n : a[i] = Text(IF i = 1 THEN Rest(ls[1], off) ELSE ls[i])
  <2>1. a \in Seq(Seq(Nat)) /\ TextsOf(a, ls, off)
    BY <1>3, TextsType
  <2> QED BY <1>1, <2>1 DEF TextsOf
<1>6. off <= Len(ms[1])
  <2>1. CASE n > 0
    BY <1>1, <1>2, <2>1
  <2>2. CASE n = 0
    <3>1. Len(s) \in Nat
      BY DEF Line
    <3> QED BY <1>1, <1>2, <2>2, <3>1
  <2> QED BY <2>1, <2>2
<1>7. /\ b \in Seq(Seq(Nat)) /\ Len(b) = n + 1
      /\ \A i \in 1 .. n + 1 : b[i] = Text(IF i = 1 THEN Rest(ms[1], off) ELSE ms[i])
  <2>1. b \in Seq(Seq(Nat)) /\ TextsOf(b, ms, off)
    BY <1>2, <1>4, <1>6, TextsType
  <2> QED BY <1>2, <2>1 DEF TextsOf
<1>8. ASSUME NEW i \in 1 .. n PROVE b[i] = a[i]
  <2>1. ms[i] = ls[i] /\ ms[1] = ls[1]
    BY <1>2
  <2>2. i \in 1 .. n + 1
    OBVIOUS
  <2>3. a[i] = Text(IF i = 1 THEN Rest(ls[1], off) ELSE ls[i])
    BY <1>5
  <2>4. b[i] = Text(IF i = 1 THEN Rest(ls[1], off) ELSE ls[i])
    BY <1>7, <2>1, <2>2
  <2> QED BY <2>3, <2>4
<1>9. b[n + 1] = Text(s)
  <2>1. CASE n > 0
    BY <1>2, <1>7, <2>1
  <2>2. CASE n = 0
    <3>1. off = 0 /\ ms[1] = s
      BY <1>1, <1>2, <2>2
    <3>2. Rest(s, 0) = s
      BY <1>2, <1>6, <3>1, RestLine
    <3> QED BY <1>7, <2>2, <3>1, <3>2
  <2> QED BY <2>1, <2>2
<1>10. Text(s) \in Seq(Nat)
  BY TextOf DEF Line
<1>11. b = Append(a, Text(s))
  <2>1. PICK t \in Seq(Nat) : t = Text(s)
    BY <1>10
  <2>2. b = Append(a, t)
    BY <1>5, <1>7, <1>8, <1>9, <2>1
  <2> QED BY <2>1, <2>2
<1> QED BY <1>m, <1>3, <1>4, <1>11

(* A character behind two lists. *)
LEMMA ConcatAppend ==
  \A x, l \in Seq(Nat), n \in Nat : x \o Append(l, n) = Append(x \o l, n)
OBVIOUS

(* The first text and the others. *)
LEMMA TailTexts ==
  ASSUME NEW a \in Seq(Seq(Nat)), NEW b \in Seq(Seq(Nat)), Len(a) = Len(b) + 1,
         \A i \in 1 .. Len(b) : a[i + 1] = b[i]
  PROVE  FlattenSeq(a) = a[1] \o FlattenSeq(b)
<1>1. PICK u : u = Tail(a)
  OBVIOUS
<1>2. u \in Seq(Seq(Nat)) /\ Len(u) = Len(b) /\ \A i \in 1 .. Len(b) : u[i] = a[i + 1]
  BY <1>1
<1>3. u = b
  <2>1. \A i \in 1 .. Len(u) : u[i] = b[i]
    BY <1>2
  <2>2. Len(u) = Len(b)
    BY <1>2
  <2> QED BY <1>2, <2>1, <2>2, SameList
<1>4. Len(a) > 0
  OBVIOUS
<1>5. FlattenSeq(a) = a[1] \o FlattenSeq(u)
  BY <1>1, <1>4, FlattenCons
<1> QED BY <1>3, <1>5

(* A line is sent, and so is a part of one. *)
WholeSent(ls, off) ==
  FlattenSeq(Texts(ls, off)) = Text(Rest(ls[1], off)) \o FlattenSeq(Texts(Tail(ls), 0))
PartSent(ls, off, m) ==
  FlattenSeq(Texts(ls, off))
    = Text(SubSeq(Rest(ls[1], off), 1, m)) \o FlattenSeq(Texts(ls, off + m))

LEMMA TextsSent ==
  ASSUME NEW ls \in Seq(Line), Len(ls) > 0, NEW off \in Nat, off <= Len(ls[1])
  PROVE  /\ WholeSent(ls, off)
         /\ \A m \in Nat : off + m <= Len(ls[1]) => PartSent(ls, off, m)
<1>1. PICK n \in Nat : Len(ls) = n + 1
  <2>1. Len(ls) \in Nat /\ Len(ls) > 0
    OBVIOUS
  <2>2. Len(ls) - 1 \in Nat /\ Len(ls) = (Len(ls) - 1) + 1
    BY <2>1
  <2> QED BY <2>2
<1>2. PICK us : us = Tail(ls)
  OBVIOUS
<1>3. us \in Seq(Line) /\ Len(us) = n /\ \A i \in 1 .. n : us[i] = ls[i + 1]
  BY <1>1, <1>2
<1>4. PICK first \in Line : first = ls[1] /\ off <= Len(first) /\ first \in Seq(Sym)
  BY <1>1 DEF Line
<1>5. PICK b : b = Texts(us, 0)
  OBVIOUS
<1>6. b \in Seq(Seq(Nat)) /\ Len(b) = n /\ \A i \in 1 .. n : b[i] = Text(us[i])
  <2>1. ASSUME Len(us) > 0 PROVE 0 <= Len(us[1])
    <3>1. us[1] \in Line
      BY <1>3, <2>1
    <3> QED BY <3>1 DEF Line
  <2>2. /\ b \in Seq(Seq(Nat)) /\ Len(b) = Len(us)
        /\ \A i \in 1 .. Len(us) : b[i] = Text(IF i = 1 THEN Rest(us[1], 0) ELSE us[i])
    <3>1. b \in Seq(Seq(Nat)) /\ TextsOf(b, us, 0)
      BY <1>3, <1>5, <2>1, TextsType
    <3> QED BY <3>1 DEF TextsOf
  <2>3. ASSUME NEW i \in 1 .. n, i = 1 PROVE Rest(us[1], 0) = us[1]
    <3>1. us[1] \in Line
      BY <1>3, <2>3
    <3>2. us[1] \in Line /\ 0 <= Len(us[1])
      BY <3>1 DEF Line
    <3> QED BY <3>2, RestLine
  <2> QED BY <1>3, <2>2, <2>3
<1>7. ASSUME NEW o \in Nat, o <= Len(first)
      PROVE  FlattenSeq(Texts(ls, o)) = Text(Rest(first, o)) \o FlattenSeq(b)
  <2>1. PICK a : a = Texts(ls, o)
    OBVIOUS
  <2>2. /\ a \in Seq(Seq(Nat)) /\ Len(a) = n + 1
        /\ \A i \in 1 .. n + 1 : a[i] = Text(IF i = 1 THEN Rest(first, o) ELSE ls[i])
    <3>1. a \in Seq(Seq(Nat)) /\ TextsOf(a, ls, o)
      BY <1>4, <1>7, <2>1, TextsType
    <3> QED BY <1>1, <1>4, <3>1 DEF TextsOf
  <2>3. a[1] = Text(Rest(first, o))
    BY <2>2
  <2>4. ASSUME NEW i \in 1 .. n PROVE a[i + 1] = b[i]
    <3>1. i + 1 \in 1 .. n + 1 /\ i + 1 # 1
      OBVIOUS
    <3>2. a[i + 1] = Text(ls[i + 1])
      BY <2>2, <3>1
    <3> QED BY <1>3, <1>6, <3>2
  <2>6. FlattenSeq(a) = a[1] \o FlattenSeq(b)
    BY <1>6, <2>2, <2>4, TailTexts
  <2> QED BY <2>1, <2>3, <2>6
<1>8. ASSUME NEW m \in Nat, off + m <= Len(first)
      PROVE  FlattenSeq(Texts(ls, off))
               = Text(SubSeq(Rest(first, off), 1, m)) \o FlattenSeq(Texts(ls, off + m))
  <2>1. PICK s \in Line : s = Rest(first, off) /\ Len(s) = Len(first) - off
    BY <1>4, RestLine
  <2>2. PICK l \in Nat : l = Len(first) /\ Len(s) = l - off /\ off + m <= l
    BY <1>4, <1>8, <2>1
  <2>3. Rest(first, off + m) = SubSeq(s, m + 1, Len(s))
    BY <1>4, <2>1, <2>2 DEF Rest
  <2>4. PICK x : x = SubSeq(s, 1, m)
    OBVIOUS
  <2>5. PICK y : y = SubSeq(s, m + 1, Len(s))
    OBVIOUS
  <2>6. x \in Line /\ y \in Line /\ Text(s) = Text(x) \o Text(y)
    <3>1. m <= Len(s)
      BY <2>2
    <3>2. /\ SubSeq(s, 1, m) \in Line /\ SubSeq(s, m + 1, Len(s)) \in Line
          /\ Text(s) = Text(SubSeq(s, 1, m)) \o Text(SubSeq(s, m + 1, Len(s)))
      BY <3>1, TextParts
    <3> QED BY <2>4, <2>5, <3>2
  <2>7. PICK tx \in Seq(Nat), ty \in Seq(Nat) : tx = Text(x) /\ ty = Text(y)
    BY <2>6, TextOf DEF Line
  <2>8. PICK z \in Seq(Nat) : z = FlattenSeq(b)
    BY <1>6, FlattenType
  <2>9. FlattenSeq(Texts(ls, off)) = (tx \o ty) \o z
    BY <1>4, <1>7, <2>1, <2>6, <2>7, <2>8
  <2>10. FlattenSeq(Texts(ls, off + m)) = ty \o z
    <3>1. off + m \in Nat
      OBVIOUS
    <3>2. FlattenSeq(Texts(ls, off + m)) = Text(Rest(first, off + m)) \o FlattenSeq(b)
      BY <1>7, <1>8, <3>1
    <3> QED BY <2>3, <2>5, <2>7, <2>8, <3>2
  <2>11. Assoc(tx, ty, z)
    BY ConcatThree
  <2> QED BY <2>1, <2>4, <2>7, <2>9, <2>10, <2>11 DEF Assoc
<1>9. WholeSent(ls, off)
  BY <1>2, <1>4, <1>5, <1>7 DEF WholeSent
<1> QED BY <1>4, <1>8, <1>9 DEF PartSent

(***************************************************************************)
(* The lines in store are text and then junk, and no more of the first one *)
(* has been read than it holds; rl_off is 0 when there is none.            *)
(***************************************************************************)
Store == InRing(readable_lines, rlh, rlt)
Numbers(n) == [i \in 1 .. n |-> i]
Sums(g, f, l, n) == (g \o f) \o l = Numbers(n)
Balance(g, ls, off, l, n) == Sums(g, FlattenSeq(Texts(ls, off)), l, n)

LineInv ==
  /\ rlh \in Slots /\ rlt \in Slots /\ readable_lines \in [Slots -> Line] /\ rl_off \in Nat
  /\ IF rlh = rlt THEN rl_off = 0 ELSE rl_off <= Len(readable_lines[rlh])
  /\ got \in Seq(Nat) /\ line \in Seq(Nat) /\ typed \in Nat
  /\ Balance(got, Store, rl_off, line, typed)

(* Balance is TextExact without its local definitions. *)
LEMMA BalanceText == TextExact <=> Balance(got, Store, rl_off, line, typed)
<1>1. PICK left : left = Store
  OBVIOUS
<1> DEFINE U == [i \in DOMAIN left |->
                   IF i = 1 THEN SubSeq(left[1], rl_off + 1, Len(left[1])) ELSE left[i]]
<1>2. DOMAIN U = DOMAIN left /\ \A i \in DOMAIN left :
        U[i] = IF i = 1 THEN Rest(left[1], rl_off) ELSE left[i]
  BY DEF Rest
<1>3. TextExact <=> got \o FlattenSeq([i \in DOMAIN U |-> Text(U[i])]) \o line = Numbers(typed)
  BY <1>1 DEF TextExact, Numbers, Store
<1> HIDE DEF U
<1>4. [i \in DOMAIN U |-> Text(U[i])] = Texts(left, rl_off)
  BY <1>2 DEF Texts
<1> QED BY <1>1, <1>3, <1>4 DEF Balance, Sums

(* A key puts the next number behind the line. *)
LEMMA BalanceType ==
  ASSUME NEW g \in Seq(Nat), NEW l \in Seq(Nat), NEW n \in Nat, NEW f \in Seq(Nat),
         Sums(g, f, l, n)
  PROVE  Sums(g, f, Append(l, n + 1), n + 1)
<1>0. PICK x : x = g \o f
  OBVIOUS
<1>1. x \in Seq(Nat) /\ n + 1 \in Nat
  BY <1>0
<1>2. x \o Append(l, n + 1) = Append(x \o l, n + 1)
  BY <1>1, ConcatAppend
<1>3. Append(Numbers(n), n + 1) = Numbers(n + 1)
  <2>1. PICK a : a = Numbers(n)
    OBVIOUS
  <2>2. a \in Seq(Nat) /\ Len(a) = n /\ \A i \in 1 .. n : a[i] = i
    BY <2>1 DEF Numbers
  <2>3. PICK b : b = Numbers(n + 1)
    OBVIOUS
  <2>4. b \in Seq(Nat) /\ Len(b) = n + 1 /\ \A i \in 1 .. n + 1 : b[i] = i
    BY <2>3 DEF Numbers
  <2>5. Append(a, n + 1) = b
    BY <2>2, <2>4
  <2> QED BY <2>1, <2>3, <2>5
<1> QED BY <1>0, <1>2, <1>3 DEF Sums

(* What LineInv says of the lines in store. *)
LEMMA StoreType ==
  ASSUME LineInv
  PROVE  /\ Store \in Seq(Line)
         /\ IF Len(Store) > 0
            THEN rlh # rlt /\ Store[1] = readable_lines[rlh] /\ rl_off <= Len(Store[1])
            ELSE rlh = rlt /\ rl_off = 0
         /\ FlattenSeq(Texts(Store, rl_off)) \in Seq(Nat)
<1>1. /\ rlh \in Slots /\ rlt \in Slots /\ readable_lines \in [Slots -> Line] /\ rl_off \in Nat
      /\ IF rlh = rlt THEN rl_off = 0 ELSE rl_off <= Len(readable_lines[rlh])
  BY DEF LineInv
<1>2. PICK ls : ls = Store
  OBVIOUS
<1>3. ls \in Seq(Line) /\ Lists(ls, readable_lines, rlh, rlt)
  BY <1>1, <1>2, RingType DEF Store
<1>4. Len(ls) > 0 <=> rlh # rlt
  BY <1>1, <1>3, Sizes DEF Lists, Slots
<1>5. rlh # rlt => ls[1] = readable_lines[rlh]
  BY <1>1, <1>2, RingTail DEF Store
<1>6. IF Len(ls) > 0 THEN rlh # rlt /\ ls[1] = readable_lines[rlh] /\ rl_off <= Len(ls[1])
      ELSE rlh = rlt /\ rl_off = 0
  BY <1>1, <1>4, <1>5
<1>7. Texts(ls, rl_off) \in Seq(Seq(Nat))
  BY <1>1, <1>3, <1>6, TextsType
<1>8. FlattenSeq(Texts(ls, rl_off)) \in Seq(Nat)
  BY <1>7, FlattenType
<1> QED BY <1>2, <1>3, <1>6, <1>8

(* A character or a tab. *)
LEMMA LineTyped ==
  ASSUME LineInv, UNCHANGED ring, got' = got, line' = Append(line, typed + 1), typed' = typed + 1
  PROVE  LineInv'
<1>1. PICK f \in Seq(Nat) : f = FlattenSeq(Texts(Store, rl_off))
  BY StoreType
<1>2. Sums(got, f, line, typed) /\ got \in Seq(Nat) /\ line \in Seq(Nat) /\ typed \in Nat
  BY <1>1 DEF LineInv, Balance
<1>3. Sums(got, f, line', typed')
  BY <1>2, BalanceType
<1>4. f = FlattenSeq(Texts(Store', rl_off'))
  BY <1>1 DEF Store, ring
<1>5. line' \in Seq(Nat) /\ typed' \in Nat
  BY <1>2
<1> QED BY <1>3, <1>4, <1>5 DEF LineInv, Balance, ring

(* Enter: the line goes behind the others. *)
LEMMA LineStored ==
  ASSUME LineInv, ~RingFull, NEW s \in Line, Stored(readable_lines', rlt', readable_lines, rlt, s),
         rlh' = rlh, rl_off' = rl_off, got' = got, line' = <<>>,
         \/ Text(s) = line /\ typed' = typed
         \/ Text(s) = Append(line, typed + 1) /\ typed' = typed + 1
  PROVE  LineInv'
<1>1. /\ rlh \in Slots /\ rlt \in Slots /\ readable_lines \in [Slots -> Line] /\ rl_off \in Nat
      /\ got \in Seq(Nat) /\ line \in Seq(Nat) /\ typed \in Nat
  BY DEF LineInv
<1>2. PICK ls \in Seq(Line) : ls = Store
  BY StoreType
<1>3. Len(ls) + 1 < Ring
  <2>1. Lists(ls, readable_lines, rlh, rlt)
    BY <1>1, <1>2, RingType DEF Store
  <2>2. (IF rlt + 1 = Ring THEN 0 ELSE rlt + 1) # rlh
    BY <1>1, RingNext DEF RingFull
  <2> QED BY <1>1, <2>1, <2>2, Sizes DEF Lists, Slots
<1>4. rlt' \in Slots /\ Longer(Store', ls, s)
  <2>1. rlt' \in Slots /\ Longer(InRing(readable_lines', rlh, rlt'), InRing(readable_lines, rlh, rlt), s)
    BY <1>1, <1>2, <1>3, RingAppend DEF Store
  <2> QED BY <1>2, <2>1 DEF Store
<1>5. IF Len(ls) > 0 THEN rl_off <= Len(ls[1]) ELSE rl_off = 0
  BY <1>2, StoreType
<1>6. PICK t \in Seq(Seq(Nat)) : t = Texts(ls, rl_off)
  BY <1>1, <1>5, TextsType
<1>7. PICK f \in Seq(Nat) : f = FlattenSeq(t)
  BY <1>6, FlattenType
<1>8. PICK x \in Seq(Nat) : x = Text(s)
  BY TextOf DEF Line
<1>9. Texts(Store', rl_off') = Append(t, x)
  BY <1>1, <1>4, <1>5, <1>6, <1>8, TextsAppend DEF Longer
<1>10. FlattenSeq(Append(t, x)) = f \o x
  BY <1>7, FlattenAppend
<1>11. Sums(got, f, line, typed)
  BY <1>2, <1>6, <1>7 DEF LineInv, Balance
<1>12. Sums(got, f, x, typed') /\ typed' \in Nat
  <2>1. CASE Text(s) = line /\ typed' = typed
    BY <1>1, <1>8, <1>11, <2>1
  <2>2. CASE Text(s) = Append(line, typed + 1) /\ typed' = typed + 1
    <3>1. Sums(got, f, Append(line, typed + 1), typed + 1)
      BY <1>1, <1>11, BalanceType
    <3> QED BY <1>1, <1>8, <2>2, <3>1
  <2> QED BY <2>1, <2>2
<1>13. (got \o (f \o x)) \o <<>> = (got \o f) \o x
  <2>1. Assoc(got, f, x)
    BY <1>1, ConcatThree
  <2>2. PICK y : y = (got \o f) \o x
    OBVIOUS
  <2>3. y \in Seq(Nat)
    BY <1>1, <2>2
  <2>4. y \o <<>> = y
    BY <2>3
  <2> QED BY <2>1, <2>2, <2>4 DEF Assoc
<1>14. Balance(got', Store', rl_off', line', typed')
  BY <1>9, <1>10, <1>12, <1>13 DEF Balance, Sums
<1>15. readable_lines' \in [Slots -> Line]
  BY <1>1 DEF Stored
<1>16. IF rlh' = rlt' THEN rl_off' = 0 ELSE rl_off' <= Len(readable_lines'[rlh'])
  <2>1. rlt' = IF rlt + 1 = Ring THEN 0 ELSE rlt + 1
    BY <1>1, RingNext DEF Stored
  <2>2. CASE rlh = rlt
    <3>1. rl_off = 0 /\ readable_lines'[rlh'] = s
      BY <1>1, <2>2 DEF LineInv, Stored
    <3>2. Len(s) \in Nat
      BY DEF Line
    <3> QED BY <3>1, <3>2
  <2>3. CASE rlh # rlt
    <3>1. readable_lines'[rlh'] = readable_lines[rlh] /\ rl_off <= Len(readable_lines[rlh])
      BY <1>1, <2>3 DEF LineInv, Stored
    <3>2. rlt' # rlh'
      BY <2>1, <1>1, RingNext DEF RingFull
    <3> QED BY <3>1, <3>2
  <2> QED BY <2>2, <2>3
<1> QED BY <1>1, <1>4, <1>12, <1>14, <1>15, <1>16 DEF LineInv

(* A read is answered. *)
LEMMA LineSent ==
  ASSUME LineInv, LineReady, NEW len \in Nat, SendResult(len), UNCHANGED <<line, typed>>
  PROVE  LineInv'
<1>1. /\ rlh \in Slots /\ rlt \in Slots /\ readable_lines \in [Slots -> Line] /\ rl_off \in Nat
      /\ got \in Seq(Nat) /\ line \in Seq(Nat) /\ typed \in Nat /\ rlh # rlt
  BY DEF LineInv, LineReady
<1>2. PICK ls \in Seq(Line) : ls = Store /\ ls = InRing(readable_lines, rlh, rlt)
  BY StoreType DEF Store
<1>3. PICK whole \in Line : whole = readable_lines[rlh] /\ whole = ls[1] /\ rl_off <= Len(whole)
                            /\ Len(ls) > 0
  BY <1>1, <1>2, StoreType
<1>4. PICK src \in Line : src = Rest(whole, rl_off) /\ Len(src) = Len(whole) - rl_off
  BY <1>1, <1>3, RestLine
<1>5. src \in Seq(Sym) /\ Len(src) \in Nat /\ Len(whole) \in Nat
  BY DEF Line
<1>6. PICK f \in Seq(Nat) : f = FlattenSeq(Texts(ls, rl_off)) /\ Sums(got, f, line, typed)
  BY <1>2, StoreType DEF LineInv, Balance
<1>7. /\ rlh' = (IF len >= Len(src) THEN (rlh + 1) % Ring ELSE rlh)
      /\ rl_off' = (IF len >= Len(src) THEN 0 ELSE rl_off + len)
      /\ got' = got \o Text(SubSeq(src, 1, IF len >= Len(src) THEN Len(src) ELSE len))
      /\ readable_lines' = readable_lines /\ rlt' = rlt
  BY <1>3, <1>4 DEF SendResult, OffAfter, Rest
<1>8. ASSUME NEW x \in Seq(Nat), NEW y \in Seq(Nat), f = x \o y, got' = got \o x,
             y = FlattenSeq(Texts(Store', rl_off'))
      PROVE  Balance(got', Store', rl_off', line', typed') /\ got' \in Seq(Nat)
  <2>1. Assoc(got, x, y)
    BY <1>1, ConcatThree
  <2>2. Sums(got', y, line, typed)
    BY <1>6, <1>8, <2>1 DEF Assoc, Sums
  <2>3. got' \in Seq(Nat)
    BY <1>1, <1>8
  <2> QED BY <1>8, <2>2, <2>3 DEF Balance
<1>9. CASE len >= Len(src)
  <2>1. rlh' \in Slots /\ Store' = Tail(ls)
    <3>1. /\ (rlh + 1) % Ring \in Slots
          /\ InRing(readable_lines, (rlh + 1) % Ring, rlt) = Tail(InRing(readable_lines, rlh, rlt))
      BY <1>1, RingTail
    <3> QED BY <1>2, <1>7, <1>9, <3>1 DEF Store
  <2>2. f = Text(src) \o FlattenSeq(Texts(Store', rl_off'))
    <3>1. WholeSent(ls, rl_off)
      BY <1>1, <1>3, TextsSent
    <3> QED BY <1>3, <1>4, <1>6, <1>7, <1>9, <2>1, <3>1 DEF WholeSent
  <2>3. SubSeq(src, 1, Len(src)) = src
    BY <1>5
  <2>4. got' = got \o Text(src)
    BY <1>7, <1>9, <2>3
  <2>5. PICK x \in Seq(Nat) : x = Text(src)
    BY TextOf DEF Line
  <2>6. IF rlh' = rlt' THEN rl_off' = 0 ELSE rl_off' <= Len(readable_lines'[rlh'])
    <3>1. readable_lines[rlh'] \in Line
      BY <1>1, <2>1
    <3>2. Len(readable_lines[rlh']) \in Nat
      BY <3>1 DEF Line
    <3> QED BY <1>7, <1>9, <3>2
  <2>7. PICK y \in Seq(Nat) : y = FlattenSeq(Texts(Store', rl_off'))
    <3>0. PICK us : us = Tail(ls)
      OBVIOUS
    <3>1. us \in Seq(Line)
      BY <1>3, <3>0
    <3>2. ASSUME Len(us) > 0 PROVE 0 <= Len(us[1])
      <4>1. PICK s \in Line : s = us[1]
        BY <3>1, <3>2
      <4>2. Len(s) \in Nat
        BY DEF Line
      <4> QED BY <4>1, <4>2
    <3>3. Texts(us, 0) \in Seq(Seq(Nat))
      BY <3>1, <3>2, TextsType
    <3> QED BY <1>7, <1>9, <2>1, <3>0, <3>3, FlattenType
  <2>8. Balance(got', Store', rl_off', line', typed') /\ got' \in Seq(Nat)
    BY <1>8, <2>2, <2>4, <2>5, <2>7
  <2> QED BY <1>1, <1>7, <1>9, <2>1, <2>6, <2>8 DEF LineInv
<1>10. CASE ~(len >= Len(src))
  <2>1. PICK off \in Nat : off = rl_off + len /\ off <= Len(whole)
    BY <1>1, <1>4, <1>5, <1>10
  <2>2. Store' = ls /\ rl_off' = off /\ rlh' = rlh
    BY <1>2, <1>7, <1>10, <2>1 DEF Store
  <2>3. PICK x : x = Text(SubSeq(src, 1, len))
    OBVIOUS
  <2>4. x \in Seq(Nat) /\ got' = got \o x
    <3>1. len <= Len(src)
      BY <1>5, <1>10
    <3>2. SubSeq(src, 1, len) \in Line
      BY <3>1, TextParts
    <3> QED BY <1>7, <1>10, <2>3, <3>2, TextOf DEF Line
  <2>5. f = x \o FlattenSeq(Texts(Store', rl_off'))
    <3>1. PartSent(ls, rl_off, len)
      BY <1>1, <1>3, <2>1, TextsSent
    <3> QED BY <1>3, <1>4, <1>6, <2>1, <2>2, <2>3, <3>1 DEF PartSent
  <2>6. PICK y \in Seq(Nat) : y = FlattenSeq(Texts(Store', rl_off'))
    <3>1. Texts(ls, off) \in Seq(Seq(Nat))
      BY <1>3, <2>1, TextsType
    <3> QED BY <2>2, <3>1, FlattenType
  <2>7. Balance(got', Store', rl_off', line', typed') /\ got' \in Seq(Nat)
    BY <1>8, <2>4, <2>5, <2>6
  <2> QED BY <1>1, <1>3, <1>7, <2>1, <2>2, <2>7 DEF LineInv
<1> QED BY <1>9, <1>10

(* A line of the buffer and the junk behind it. *)
LEMMA JunkBehind ==
  ASSUME NEW l \in Seq(Nat), NEW n \in Nat
  PROVE  /\ l \o [i \in 1 .. n |-> OldChar] \in Line
         /\ Text(l \o [i \in 1 .. n |-> OldChar]) = l
<1>1. PICK j : j = [i \in 1 .. n |-> OldChar]
  OBVIOUS
<1>2. j \in Seq(Sym) /\ Len(j) = n /\ \A i \in 1 .. n : j[i] = OldChar
  BY <1>1 DEF Sym
<1>3. PICK k \in Nat : k = Len(l)
  OBVIOUS
<1>4. l \in Seq(Sym) /\ \A i \in 1 .. k : l[i] # OldChar
  <2>1. \A i \in 1 .. k : l[i] \in Nat
    BY <1>3
  <2>2. OldChar \notin Nat
    BY ConsoleAssumption
  <2>3. l \in Seq(Sym)
    BY DEF Sym
  <2> QED BY <2>1, <2>2, <2>3, Zenon
<1>5. PICK s : s = l \o j
  OBVIOUS
<1>6. /\ s \in Seq(Sym) /\ Len(s) = k + n
      /\ \A i \in 1 .. k : s[i] = l[i]
      /\ \A i \in 1 .. n : s[k + i] = j[i]
  <2>1. l \o j \in Seq(Sym) /\ Joined(l \o j, l, j)
    BY <1>2, <1>4, Join
  <2>2. s \in Seq(Sym) /\ Joined(s, l, j)
    BY <1>5, <2>1
  <2> QED BY <1>2, <1>3, <2>2 DEF Joined
<1>7. TextEnds(s, k)
  <2>1. ASSUME NEW i \in 1 .. k + n PROVE s[i] # OldChar <=> i <= k
    <3>1. CASE i <= k
      BY <1>4, <1>6, <3>1
    <3>2. CASE i > k
      <4>1. i - k \in 1 .. n /\ k + (i - k) = i
        BY <3>2
      <4>2. s[i] = j[i - k] /\ j[i - k] = OldChar
        BY <1>2, <1>6, <4>1
      <4> QED BY <3>2, <4>2
    <3> QED BY <3>1, <3>2
  <2> QED BY <1>6, <2>1 DEF TextEnds
<1>8. s \in Line /\ Text(s) \in Seq(Nat) /\ Len(Text(s)) = k /\ \A i \in 1 .. k : Text(s)[i] = s[i]
  BY <1>6, <1>7, TextOf
<1>9. Text(s) = l
  <2>1. PICK t \in Seq(Nat) : t = Text(s) /\ Len(t) = k /\ \A i \in 1 .. k : t[i] = l[i]
    BY <1>6, <1>8
  <2>2. Len(t) = Len(l) /\ \A i \in 1 .. Len(t) : t[i] = l[i]
    BY <1>3, <2>1
  <2>3. t = l
    BY <2>2, SameList
  <2> QED BY <2>1, <2>3
<1> QED BY <1>1, <1>5, <1>8, <1>9

(* Every step keeps what was typed. *)
LEMMA LineStep ==
  ASSUME LineInv, PendInv, [ConsoleNext]_consoleVars
  PROVE  LineInv'
<1>1. ASSUME UNCHANGED <<ring, got, line, typed>> PROVE LineInv'
  <2>1. Store' = Store
    BY <1>1 DEF Store, ring
  <2> QED BY <1>1, <2>1 DEF LineInv, ring
<1>2. ASSUME NEW b \in Byte, PrefixByte(b) \/ ModifierByte(b) \/ OtherByte(b)
      PROVE  UNCHANGED <<ring, got, line, typed>>
  BY <1>2 DEF PrefixByte, ModifierByte, OtherByte, input
<1>3. ASSUME NEW b \in Byte, CharByte(b) \/ TabByte(b)
      PROVE  LineInv'
  <2>1. \/ UNCHANGED <<ring, got, line, typed>>
        \/ UNCHANGED ring /\ got' = got /\ line' = Append(line, typed + 1) /\ typed' = typed + 1
    BY <1>3 DEF CharByte, TabByte
  <2> QED BY <1>1, <2>1, LineTyped
<1>4. ASSUME NEW b \in Byte, EnterByte(b)
      PROVE  LineInv'
  <2>0. rlh' = rlh /\ rl_off' = rl_off /\ got' = got
    BY <1>4 DEF EnterByte
  <2>1. CASE UNCHANGED <<line, typed, readable_lines, rlt>>
    BY <1>1, <2>0, <2>1 DEF ring
  <2>2. CASE ~(b[2] \/ RingFull)
    <3>1. PICK n \in Stale :
            /\ IF Len(line) < LineMax
               THEN /\ readable_lines' = [readable_lines EXCEPT ![rlt] =
                                            Append(line, typed + 1) \o [i \in 1 .. n |-> OldChar]]
                    /\ typed' = typed + 1
               ELSE /\ readable_lines' = [readable_lines EXCEPT ![rlt] =
                                            line \o [i \in 1 .. n |-> OldChar]]
                    /\ UNCHANGED typed
            /\ rlt' = (rlt + 1) % Ring /\ line' = <<>> /\ ~RingFull
      BY <1>4, <2>2 DEF EnterByte
    <3>2. n \in Nat /\ line \in Seq(Nat) /\ typed + 1 \in Nat /\ Append(line, typed + 1) \in Seq(Nat)
      BY ConsoleAssumption DEF LineInv
    <3>3. CASE Len(line) < LineMax
      <4>1. PICK s : s = Append(line, typed + 1) \o [i \in 1 .. n |-> OldChar]
        OBVIOUS
      <4>2. s \in Line /\ Text(s) = Append(line, typed + 1)
        BY <3>2, <4>1, JunkBehind
      <4>3. Stored(readable_lines', rlt', readable_lines, rlt, s) /\ typed' = typed + 1
        BY <3>1, <3>3, <4>1 DEF Stored
      <4> QED BY <2>0, <3>1, <4>2, <4>3, LineStored
    <3>4. CASE ~(Len(line) < LineMax)
      <4>1. PICK s : s = line \o [i \in 1 .. n |-> OldChar]
        OBVIOUS
      <4>2. s \in Line /\ Text(s) = line
        BY <3>2, <4>1, JunkBehind
      <4>3. Stored(readable_lines', rlt', readable_lines, rlt, s) /\ typed' = typed
        BY <3>1, <3>4, <4>1 DEF Stored
      <4> QED BY <2>0, <3>1, <4>2, <4>3, LineStored
    <3> QED BY <3>3, <3>4
  <2> QED BY <1>4, <2>1, <2>2 DEF EnterByte
<1>5. ASSUME \/ KbdDone \/ ServeDone \/ NoRequest \/ UNCHANGED consoleVars
             \/ \E p \in Proc : WriteRequest(p) \/ SwitchRequest(p)
      PROVE  UNCHANGED <<ring, got, line, typed>>
  BY <1>5 DEF KbdDone, ServeDone, NoRequest, WriteRequest, SwitchRequest, consoleVars, input
<1>6. CASE Serve
  <2>1. PICK len : len = pending_read[ph].len
    OBVIOUS
  <2>2. len \in Nat
    BY <2>1 DEF PendInv, Pending
  <2>3. LineReady /\ SendResult(len) /\ UNCHANGED <<line, typed>>
    BY <1>6, <2>1 DEF Serve, LineReady, input
  <2> QED BY <2>2, <2>3, LineSent
<1>7. ASSUME NEW p \in Proc, NEW len \in Lens, ReadRequest(p, len)
      PROVE  LineInv'
  <2>1. /\ UNCHANGED <<line, typed>>
        /\ (ring' = ring /\ got' = got) \/ (LineReady /\ SendResult(len))
    <3>1. UNCHANGED input
      BY <1>7 DEF ReadRequest
    <3>2. (ring' = ring /\ got' = got) \/ (LineReady /\ SendResult(len))
      BY <1>7, Zenon DEF ReadRequest
    <3>3. UNCHANGED <<line, typed>>
      BY <3>1 DEF input
    <3> QED BY <3>2, <3>3, Zenon
  <2>2. len \in Nat
    BY ConsoleAssumption
  <2>3. CASE ring' = ring /\ got' = got
    BY <1>1, <2>1, <2>3
  <2> QED BY <2>1, <2>2, <2>3, LineSent
<1> QED BY <1>1, <1>2, <1>3, <1>4, <1>5, <1>6, <1>7, Zenon DEF ConsoleNext

(***************************************************************************)
(* What is typed is read, once and in order, and pending_read holds the    *)
(* reads that wait (main.c:246-256, 337-355, 416-434).                     *)
(***************************************************************************)
THEOREM LinesAreExact == ConsoleSpec => []LinesExact
<1>1. ConsoleInit => LineInv
  <2> SUFFICES ASSUME ConsoleInit PROVE LineInv
    OBVIOUS
  <2>1. /\ rlh = 0 /\ rlt = 0 /\ rl_off = 0 /\ got = <<>> /\ line = <<>> /\ typed = 0
        /\ readable_lines = [i \in Slots |-> <<>>]
    BY DEF ConsoleInit, Slots
  <2>2. 0 \in Slots /\ (0 - 0) % Ring = 0
    BY Sizes DEF Slots
  <2>3. <<>> \in Line
    BY DEF Line, TextEnds
  <2>4. Store = <<>>
    BY <2>1, <2>2 DEF Store, InRing
  <2>5. Texts(<<>>, 0) = <<>>
    BY DEF Texts
  <2>6. FlattenSeq(<<>>) = <<>>
    BY DEF FlattenSeq
  <2>7. (<<>> \o <<>>) \o <<>> = Numbers(0)
    BY DEF Numbers
  <2>8. Balance(got, Store, rl_off, line, typed)
    BY <2>1, <2>4, <2>5, <2>6, <2>7 DEF Balance, Sums
  <2> QED BY <2>1, <2>2, <2>3, <2>8 DEF LineInv
<1>2. LineInv /\ PendInv => LinesExact
  BY BalanceText DEF LineInv, PendInv, LinesExact
<1>3. PendInv /\ LineInv /\ [ConsoleNext]_consoleVars => LineInv' /\ PendInv'
  BY LineStep, PendKeeps
<1>4. ConsoleInit => PendInv
  BY PendInit
<1> QED BY <1>1, <1>2, <1>3, <1>4, PTL DEF ConsoleSpec

=============================================================================
