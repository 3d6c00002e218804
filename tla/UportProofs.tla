---------------------------- MODULE UportProofs ----------------------------
(***************************************************************************)
(* The properties of Uport, for any number of servers, clients, objects    *)
(* and descriptors.  Three inductive invariants: the types; WaitInv, which *)
(* makes wait_on safe whatever mistakes programs make; and LinkInv, which  *)
(* describes connections, messages and cookies while they make none.       *)
(* Rpc is implemented because of the last.                                 *)
(***************************************************************************)
EXTENDS Uport, ListLemmas, TLAPS

\* The types, and the setting of the behaviour.
TypeInv == TypeOK /\ trial \in Trials

\* A struct request.
Object == [kind : Kind, live : BOOLEAN, owner : Task \cup {Null},
           state : {"SERVER", "PENDING", "ESTABLISHED", "CLOSED"},
           data : Obj \cup {Null}, waited : SUBSET {1, 2}]

\* A struct uport_cookie.
Cookie == [live : BOOLEAN, client : Obj \cup {Null}, response : BOOLEAN]

(***************************************************************************)
(* What wait_on relies on, whatever mistakes the programs make: a          *)
(* descriptor a task waits for is its own and stays so while it sleeps,    *)
(* its waited_rw says that somebody must be woken, and a cookie points     *)
(* back to the client's end or nowhere.                                    *)
(***************************************************************************)
OwnersSound ==
  /\ \A o \in Obj : obj[o].live => o <= used
  /\ \A t \in Task : \A o \in fds[t] : o <= used /\ (obj[o].live => obj[o].owner = t)
  /\ \A o \in Obj :
       /\ upc[o].client \in {o, Null}
       /\ upc[o].client # Null \/ upc[o].response =>
            o <= used /\ (obj[o].live => obj[o].state \in {"ESTABLISHED", "CLOSED"})

\* t waits for o, which is its own, and will be woken through it.
Awaited(t, o, rw) ==
  o \in fds[t] /\ obj[o].live /\ (sleep[t] = "asleep" => rw \in obj[o].waited)

\* t is in user space, or waits for descriptors none of which is ready.
Settled(t) ==
  /\ sleep[t] # "no" => /\ \A o \in want[t].rd : Awaited(t, o, 1)
                        /\ \A o \in want[t].wr : Awaited(t, o, 2)
  /\ sleep[t] = "asleep" => ~SomeReady(want[t])

\* Up to the first fault of the kernel.
WaitInv == fault = "none" => OwnersSound /\ \A t \in Task : Settled(t)

\* The clients' ends of connections and requests, and the server's.
ClientKind == {"REQUEST", "COOKIE"}
ServerKind == {"PORT", "PORT_REQ", "PORT_COOKIE"}

\* Objects not allocated yet.
FreshSound ==
  \A o \in Obj : o > used =>
    /\ ~obj[o].live /\ obj[o].kind = "GARBAGE"
    /\ incoming[o] = <<>> /\ clients[o] = {} /\ upc[o] = NoCookie

\* A descriptor and the request behind it.
DescriptorsSound ==
  /\ \A t \in Task : \A r \in fds[t] : obj[r].live /\ obj[r].owner = t
  /\ \A o \in Obj : obj[o].live =>
       /\ obj[o].owner \in Task /\ o \in fds[obj[o].owner]
       /\ obj[o].kind \in ClientKind => obj[o].state # "SERVER"
       /\ obj[o].kind \in ServerKind => obj[o].state = "SERVER"

\* The port is registered with its PORT object, the only one there is.
PortSound ==
  /\ port <=> uport # Null
  /\ \A o \in Obj : o \in Live("PORT") <=> o = uport

\* Each message is in one queue, once, at the end it was sent to.
QueuesSound ==
  /\ \A o \in Obj : IsInjective(incoming[o])
  /\ \A o \in Obj : \A c \in Range(incoming[o]) :
       /\ obj[c].live /\ obj[c].state = "PENDING"
       /\ \/ o \in Live("PORT") /\ obj[c].kind = "REQUEST"
          \/ o \in Live("PORT_REQ") /\ obj[c].kind = "COOKIE"
  /\ \A o, p \in Obj : \A c \in Range(incoming[o]) : c \in Range(incoming[p]) => o = p
  /\ \A c \in Live("REQUEST") \cup Live("COOKIE") : obj[c].state = "PENDING" =>
       \E o \in Obj : c \in Range(incoming[o])

\* A cookie, the client's end and the server's.
CookiesSound ==
  /\ \A s \in Live("PORT_COOKIE") :
       obj[s].data \in Obj /\ upc[obj[s].data].live /\ ~upc[obj[s].data].response
  /\ \A s, u \in Live("PORT_COOKIE") : obj[s].data = obj[u].data => s = u
  /\ \A c \in Obj : Accepted(c) =>
       /\ upc[c].live /\ upc[c].client = c
       /\ ~upc[c].response => Answerers(c) # {}
  /\ \A c \in Obj : upc[c].live =>
       /\ obj[c].kind = "COOKIE"
       /\ obj[c].live => obj[c].state = "ESTABLISHED"
       /\ ~obj[c].live => upc[c].client = Null /\ Answerers(c) # {}
  /\ \A c \in Obj : ~upc[c].live => upc[c] = NoCookie

\* While programs make no mistake.
LinkInv ==
  Polite => /\ fault = "none"
            /\ FreshSound /\ DescriptorsSound /\ PortSound /\ ConnectionsLinked
            /\ QueuesSound /\ CookiesSound
-----------------------------------------------------------------------------
\* Types.

(* alloc_fd(): a new descriptor, in a table that is not full. *)
LEMMA FdAdded ==
  ASSUME TypeInv, NEW t \in Task, Room(t), fds' = [fds EXCEPT ![t] = @ \cup {New}]
  PROVE  /\ New \in Obj /\ New \in 0..trial.objs
         /\ fds' \in [Task -> SUBSET Obj]
         /\ \A u \in Task : Cardinality(fds'[u]) <= MaxFds
<1>1. New \in Obj /\ New \in 0..trial.objs
  BY UportAssumption DEF TypeInv, TypeOK, Room, New, Obj
<1>2. fds' \in [Task -> SUBSET Obj]
  BY <1>1 DEF TypeInv, TypeOK
<1>3. IsFiniteSet(Obj)
  BY FS_Interval, UportAssumption DEF Obj
<1>4. IsFiniteSet(fds[t])
  BY <1>3, FS_Subset DEF TypeInv, TypeOK
<1>5. Cardinality(fds[t]) \in Nat
  BY <1>4, FS_CardinalityType
<1>6. Cardinality(fds[t] \cup {New}) \in {Cardinality(fds[t]), Cardinality(fds[t]) + 1}
  BY <1>4, FS_AddElement
<1>7. Cardinality(fds[t] \cup {New}) <= MaxFds
  <2>1. Cardinality(fds[t]) < MaxFds
    BY DEF Room
  <2>2. \A m, n \in Nat : \A k : m < n /\ k \in {m, m + 1} => k <= n
    OBVIOUS
  <2> QED BY <1>5, <1>6, <2>1, <2>2, UportAssumption
<1>8. \A u \in Task : fds'[u] = IF u = t THEN fds[t] \cup {New} ELSE fds[u]
  BY DEF TypeInv, TypeOK
<1> QED BY <1>1, <1>2, <1>7, <1>8 DEF TypeInv, TypeOK

(* A descriptor removed from the table. *)
LEMMA FdRemoved ==
  ASSUME TypeInv, NEW t \in Task, NEW r, fds' = [fds EXCEPT ![t] = @ \ {r}]
  PROVE  /\ fds' \in [Task -> SUBSET Obj]
         /\ \A u \in Task : Cardinality(fds'[u]) <= MaxFds
<1>1. fds' \in [Task -> SUBSET Obj]
  BY DEF TypeInv, TypeOK
<1>2. IsFiniteSet(Obj)
  BY FS_Interval, UportAssumption DEF Obj
<1>3. IsFiniteSet(fds[t]) /\ fds[t] \ {r} \in SUBSET fds[t]
  BY <1>2, FS_Subset DEF TypeInv, TypeOK
<1>4. /\ Cardinality(fds[t] \ {r}) <= Cardinality(fds[t])
      /\ Cardinality(fds[t] \ {r}) \in Nat /\ Cardinality(fds[t]) \in Nat
  BY <1>3, FS_Subset, FS_CardinalityType
<1>5. Cardinality(fds[t] \ {r}) <= MaxFds
  <2>1. Cardinality(fds[t]) <= MaxFds
    BY DEF TypeInv, TypeOK
  <2>2. \A m, n, k \in Nat : m <= n /\ n <= k => m <= k
    OBVIOUS
  <2> QED BY <1>4, <2>1, <2>2, UportAssumption
<1>6. \A u \in Task : fds'[u] = IF u = t THEN fds[t] \ {r} ELSE fds[u]
  BY DEF TypeInv, TypeOK
<1> QED BY <1>1, <1>5, <1>6 DEF TypeInv, TypeOK

(* wake_up() moves sleepers only. *)
LEMMA WokenType ==
  ASSUME TypeInv, NEW X
  PROVE  /\ Woken(X) \in [Task -> {"no", "asleep", "woken"}]
         /\ \A t \in Task : /\ Woken(X)[t] # "no" <=> sleep[t] # "no"
                            /\ Woken(X)[t] = "asleep" =>
                                 sleep[t] = "asleep" /\ \A o \in X : obj[o].owner # t
BY DEF Woken, TypeInv, TypeOK

(* What is left of a freed object is typed like any other. *)
LEMMA FreedType ==
  ASSUME TypeInv, NEW r \in Obj
  PROVE  /\ Freed(r).kind = obj[r].kind /\ ~Freed(r).live
         /\ Freed(r) \in Object
BY DEF Freed, NoObj, TypeInv, TypeOK, Kind, Object

(* Notifying client ends changes their state and nothing else. *)
LEMMA ClosedType ==
  ASSUME TypeInv, NEW X
  PROVE  /\ Closed(X) \in [Obj -> Object]
         /\ \A o \in Obj :
              /\ Closed(X)[o].kind = obj[o].kind /\ Closed(X)[o].live = obj[o].live
              /\ Closed(X)[o].owner = obj[o].owner /\ Closed(X)[o].data = obj[o].data
              /\ Closed(X)[o].waited = obj[o].waited
              /\ Closed(X)[o].state = IF o \in X THEN "CLOSED" ELSE obj[o].state
<1>1. ASSUME NEW o \in Obj
      PROVE  /\ [obj[o] EXCEPT !.state = "CLOSED"] \in Object
             /\ [obj[o] EXCEPT !.state = "CLOSED"].kind = obj[o].kind
             /\ [obj[o] EXCEPT !.state = "CLOSED"].live = obj[o].live
             /\ [obj[o] EXCEPT !.state = "CLOSED"].owner = obj[o].owner
             /\ [obj[o] EXCEPT !.state = "CLOSED"].data = obj[o].data
             /\ [obj[o] EXCEPT !.state = "CLOSED"].waited = obj[o].waited
             /\ [obj[o] EXCEPT !.state = "CLOSED"].state = "CLOSED"
  <2>1. obj[o] \in Object
    BY DEF TypeInv, TypeOK, Object
  <2> QED BY <2>1 DEF Object
<1>2. \A o \in Obj : obj[o] \in Object
  BY DEF TypeInv, TypeOK, Object
<1> QED BY <1>1, <1>2, Zenon DEF Closed

(* A struct request as port.c initialises it. *)
LEMMA RequestType ==
  ASSUME NEW k \in Kind, NEW t \in Task, NEW d \in Obj \cup {Null},
         NEW st \in {"SERVER", "PENDING", "ESTABLISHED", "CLOSED"}
  PROVE  /\ Request0(k, t, st, d) \in Object
         /\ Request0(k, t, st, d).kind = k /\ Request0(k, t, st, d).live
         /\ Request0(k, t, st, d).owner = t /\ Request0(k, t, st, d).state = st
         /\ Request0(k, t, st, d).data = d /\ Request0(k, t, st, d).waited = {}
BY DEF Request0, Object

(* close(): the descriptor and its request go, the others are as ob says. *)
LEMMA DroppedType ==
  ASSUME TypeInv, NEW t \in Task, NEW r \in Obj, NEW ob \in [Obj -> Object],
         Dropped(t, r, ob)
  PROVE  /\ fds' \in [Task -> SUBSET Obj]
         /\ \A u \in Task : Cardinality(fds'[u]) <= MaxFds
         /\ obj' \in [Obj -> Object]
         /\ \A u \in Task : fds'[u] = IF u = t THEN fds[t] \ {r} ELSE fds[u]
         /\ \A o \in Obj \ {r} : obj'[o] = ob[o]
         /\ obj'[r].kind = obj[r].kind /\ ~obj'[r].live
<1>1. fds' = [fds EXCEPT ![t] = @ \ {r}] /\ obj' = [ob EXCEPT ![r] = Freed(r)]
  BY DEF Dropped
<1>2. /\ fds' \in [Task -> SUBSET Obj]
      /\ \A u \in Task : Cardinality(fds'[u]) <= MaxFds
  BY <1>1, FdRemoved
<1>3. \A u \in Task : fds'[u] = IF u = t THEN fds[t] \ {r} ELSE fds[u]
  BY <1>1 DEF TypeInv, TypeOK
<1> DEFINE f == Freed(r)
<1>4. f \in Object /\ f.kind = obj[r].kind /\ ~f.live
  BY FreedType
<1> HIDE DEF f
<1>5. obj' = [ob EXCEPT ![r] = f]
  BY <1>1 DEF f
<1>6. obj' \in [Obj -> Object] /\ obj'[r] = f /\ \A o \in Obj \ {r} : obj'[o] = ob[o]
  BY <1>4, <1>5
<1> QED BY <1>2, <1>3, <1>4, <1>6

(* A new request in the table of task t. *)
LEMMA CreatedType ==
  ASSUME TypeInv, NEW t \in Task, NEW R \in Object, Room(t), used' = New,
         fds' = [fds EXCEPT ![t] = @ \cup {New}], obj' = [obj EXCEPT ![New] = R]
  PROVE  /\ New \in Obj
         /\ used' \in 0..trial.objs
         /\ fds' \in [Task -> SUBSET Obj]
         /\ \A u \in Task : Cardinality(fds'[u]) <= MaxFds
         /\ obj' \in [Obj -> Object]
         /\ \A u \in Task : fds'[u] = IF u = t THEN fds[t] \cup {New} ELSE fds[u]
         /\ \A o \in Obj : obj'[o] = IF o = New THEN R ELSE obj[o]
<1>1. /\ New \in Obj /\ New \in 0..trial.objs
      /\ fds' \in [Task -> SUBSET Obj]
      /\ \A u \in Task : Cardinality(fds'[u]) <= MaxFds
  BY FdAdded
<1>2. \A u \in Task : fds'[u] = IF u = t THEN fds[t] \cup {New} ELSE fds[u]
  BY DEF TypeInv, TypeOK
<1>3. obj \in [Obj -> Object]
  BY DEF TypeInv, TypeOK, Object
<1>4. obj' \in [Obj -> Object] /\ \A o \in Obj : obj'[o] = IF o = New THEN R ELSE obj[o]
  BY <1>1, <1>3
<1> QED BY <1>1, <1>2, <1>4

(* The changes to a cookie: answered, freed, abandoned by the client. *)
LEMMA CookieType ==
  ASSUME TypeInv, NEW c
  PROVE  /\ [upc EXCEPT ![c].response = TRUE] \in [Obj -> Cookie]
         /\ [upc EXCEPT ![c] = NoCookie] \in [Obj -> Cookie]
         /\ [upc EXCEPT ![c].client = Null] \in [Obj -> Cookie]
         /\ c \in Obj =>
              \A o \in Obj :
                /\ [upc EXCEPT ![c] = NoCookie][o] = IF o = c THEN NoCookie ELSE upc[o]
                /\ o # c => /\ [upc EXCEPT ![c].response = TRUE][o] = upc[o]
                            /\ [upc EXCEPT ![c].client = Null][o] = upc[o]
         /\ c \in Obj =>
              /\ [upc EXCEPT ![c].response = TRUE][c].response
              /\ [upc EXCEPT ![c].response = TRUE][c].live = upc[c].live
              /\ [upc EXCEPT ![c].response = TRUE][c].client = upc[c].client
              /\ [upc EXCEPT ![c].client = Null][c].client = Null
              /\ [upc EXCEPT ![c].client = Null][c].live = upc[c].live
              /\ [upc EXCEPT ![c].client = Null][c].response = upc[c].response
         /\ NoCookie \in Cookie
         /\ ~NoCookie.live /\ NoCookie.client = Null /\ ~NoCookie.response
<1>1. upc \in [Obj -> Cookie] /\ \A o \in Obj : upc[o] \in Cookie
  BY DEF TypeInv, TypeOK, Cookie
<1>2. NoCookie \in Cookie /\ ~NoCookie.live /\ NoCookie.client = Null /\ ~NoCookie.response
  BY DEF NoCookie, Cookie
<1>3. CASE c \in Obj
  <2> DEFINE A == [upc[c] EXCEPT !.response = TRUE]
             N == [upc[c] EXCEPT !.client = Null]
  <2>1. /\ A \in Cookie /\ A.response /\ A.live = upc[c].live /\ A.client = upc[c].client
        /\ N \in Cookie /\ N.client = Null /\ N.live = upc[c].live
        /\ N.response = upc[c].response
    BY <1>1, <1>3 DEF Cookie
  <2>2. /\ [upc EXCEPT ![c].response = TRUE] = [upc EXCEPT ![c] = A]
        /\ [upc EXCEPT ![c].client = Null] = [upc EXCEPT ![c] = N]
    OBVIOUS
  <2> HIDE DEF A, N
  <2> QED BY <1>1, <1>2, <1>3, <2>1, <2>2
<1>4. CASE c \notin Obj
  <2>1. /\ [upc EXCEPT ![c].response = TRUE] = upc
        /\ [upc EXCEPT ![c] = NoCookie] = upc
        /\ [upc EXCEPT ![c].client = Null] = upc
    BY <1>1, <1>4
  <2> QED BY <1>1, <1>2, <1>4, <2>1
<1> QED BY <1>3, <1>4

(* list_add_tail of a message to a queue. *)
LEMMA QueuedType ==
  ASSUME TypeInv, NEW q, NEW x \in Obj
  PROVE  /\ [incoming EXCEPT ![q] = Append(@, x)] \in [Obj -> Seq(Obj)]
         /\ q \in Obj => \A o \in Obj : [incoming EXCEPT ![q] = Append(@, x)][o] =
                                 IF o = q THEN Append(incoming[q], x) ELSE incoming[o]
<1>1. incoming \in [Obj -> Seq(Obj)]
  BY DEF TypeInv, TypeOK
<1>2. CASE q \in Obj
  <2>1. Append(incoming[q], x) \in Seq(Obj)
    BY <1>1, <1>2
  <2> DEFINE a == Append(incoming[q], x)
  <2> HIDE DEF a
  <2>2. [incoming EXCEPT ![q] = a] \in [Obj -> Seq(Obj)]
    BY <1>1, <2>1 DEF a
  <2> QED BY <1>1, <1>2, <2>2 DEF a
<1>3. CASE q \notin Obj
  BY <1>1, <1>3
<1> QED BY <1>2, <1>3

\* The message pop_request takes, and whether it is a connection.
Popped(r) == Head(incoming[r])
Connects(r) == obj[r].kind = "PORT"

\* What pop_request does, field by field.
PopEffect(t, r) ==
  LET c == Popped(r)
  IN  /\ New \in Obj /\ c \in Obj
      /\ \A u \in Task : fds'[u] = IF u = t THEN fds[t] \cup {New} ELSE fds[u]
      /\ \A o \in Obj \ {c, New} : obj'[o] = obj[o]
      /\ c # New =>
           /\ obj'[New] = IF Connects(r) THEN Request0("PORT_REQ", t, "SERVER", Null)
                          ELSE Request0("PORT_COOKIE", t, "SERVER", c)
           /\ obj'[c].state = "ESTABLISHED"
           /\ obj'[c].data = IF Connects(r) THEN New ELSE c
           /\ obj'[c].kind = obj[c].kind /\ obj'[c].live = obj[c].live
           /\ obj'[c].owner = obj[c].owner /\ obj'[c].waited = obj[c].waited
      /\ \A o \in Obj : incoming'[o] = IF o = r THEN Tail(incoming[r]) ELSE incoming[o]
      /\ \A o \in Obj : clients'[o] =
           IF o # New THEN clients[o] ELSE IF Connects(r) THEN {c} ELSE {}
      /\ Connects(r) => upc' = upc
      /\ ~Connects(r) => \A o \in Obj : upc'[o] =
           IF o = c THEN [live |-> TRUE, client |-> o, response |-> FALSE] ELSE upc[o]

(* pop_request: the new descriptor, and the client's end acknowledged. *)
LEMMA PopRequestType ==
  ASSUME TypeInv, NEW t \in Task, NEW r \in Obj, PopRequest(t, r), trial' = trial
  PROVE  TypeInv' /\ PopEffect(t, r)
<1> DEFINE c == Head(incoming[r])
           conn == obj[r].kind = "PORT"
           R == IF conn THEN Request0("PORT_REQ", t, "SERVER", Null)
                ELSE Request0("PORT_COOKIE", t, "SERVER", c)
<1>1. /\ Room(t) /\ used' = New /\ fds' = [fds EXCEPT ![t] = @ \cup {New}]
      /\ incoming[r] # <<>>
      /\ incoming' = [incoming EXCEPT ![r] = Tail(@)]
      /\ clients' = [clients EXCEPT ![New] = IF conn THEN {c} ELSE {}]
      /\ upc' = IF conn THEN upc
                ELSE [upc EXCEPT ![c] = [live |-> TRUE, client |-> c, response |-> FALSE]]
      /\ obj' = [obj EXCEPT ![New] = R, ![c].state = "ESTABLISHED",
                            ![c].data = IF conn THEN New ELSE c]
      /\ sleep' = Woken(Waited(c, {2}))
      /\ fault' = IF obj[c].live THEN "none" ELSE "dangling"
      /\ port' = port /\ uport' = uport /\ want' = want
  BY DEF PopRequest
<1>2. incoming[r] \in Seq(Obj) /\ c \in Obj /\ Tail(incoming[r]) \in Seq(Obj)
  BY <1>1 DEF TypeInv, TypeOK
<1>3. /\ New \in Obj /\ New \in 0..trial.objs
      /\ fds' \in [Task -> SUBSET Obj]
      /\ \A u \in Task : Cardinality(fds'[u]) <= MaxFds
  BY <1>1, FdAdded
<1>4. sleep' \in [Task -> {"no", "asleep", "woken"}]
  BY <1>1, WokenType
<1>5. \A u \in Task : fds'[u] = IF u = t THEN fds[t] \cup {New} ELSE fds[u]
  BY <1>1 DEF TypeInv, TypeOK
<1>6. R \in Object
  BY <1>2, RequestType DEF Kind
<1>7. \A o \in Obj : obj[o] \in Object
  BY DEF TypeInv, TypeOK, Object
<1> HIDE DEF c, conn, R
<1>8. /\ incoming' \in [Obj -> Seq(Obj)]
      /\ \A o \in Obj : incoming'[o] = IF o = r THEN Tail(incoming[r]) ELSE incoming[o]
  BY <1>1, <1>2 DEF TypeInv, TypeOK
<1>9. /\ clients' \in [Obj -> SUBSET Obj]
      /\ \A o \in Obj : clients'[o] =
           IF o # New THEN clients[o] ELSE IF conn THEN {c} ELSE {}
  BY <1>1, <1>2, <1>3 DEF TypeInv, TypeOK
<1>10. /\ upc' \in [Obj -> Cookie]
       /\ conn => upc' = upc
       /\ ~conn => \A o \in Obj : upc'[o] =
            IF o = c THEN [live |-> TRUE, client |-> c, response |-> FALSE] ELSE upc[o]
  BY <1>1, <1>2 DEF TypeInv, TypeOK, Cookie
<1> DEFINE S == IF c = New THEN R ELSE obj[c]
           T == [[S EXCEPT !.state = "ESTABLISHED"] EXCEPT !.data = IF conn THEN New ELSE c]
<1>11. /\ S \in Object /\ T \in Object
       /\ T.state = "ESTABLISHED" /\ T.data = IF conn THEN New ELSE c
       /\ T.kind = S.kind /\ T.live = S.live /\ T.owner = S.owner /\ T.waited = S.waited
  BY <1>2, <1>3, <1>6, <1>7 DEF Object
<1>12. obj' = [[[obj EXCEPT ![New] = R] EXCEPT ![c].state = "ESTABLISHED"]
                EXCEPT ![c].data = IF conn THEN New ELSE c]
  BY <1>1
<1>13. obj' = [[obj EXCEPT ![New] = R] EXCEPT ![c] = T]
  BY <1>2, <1>3, <1>12 DEF TypeInv, TypeOK
<1> HIDE DEF S, T
<1>14. /\ obj' \in [Obj -> Object]
       /\ \A o \in Obj \ {c, New} : obj'[o] = obj[o]
       /\ obj'[c] = T /\ (c # New => obj'[New] = R)
  <2>1. obj \in [Obj -> Object]
    BY DEF TypeInv, TypeOK, Object
  <2> QED BY <2>1, <1>2, <1>3, <1>6, <1>11, <1>13
<1>15. TypeInv'
  <2>1. fault' \in {"none", "null", "dangling", "deleted_again", "panic"}
    BY <1>1
  <2>2. trial' \in Trials /\ used' \in 0..trial'.objs
    BY <1>1, <1>3 DEF TypeInv
  <2> QED BY <1>1, <1>3, <1>4, <1>8, <1>9, <1>10, <1>14, <2>1, <2>2
          DEF TypeInv, TypeOK, Object, Cookie
<1>16. c # New =>
         /\ obj'[New] = R
         /\ obj'[c].state = "ESTABLISHED"
         /\ obj'[c].data = IF conn THEN New ELSE c
         /\ obj'[c].kind = obj[c].kind /\ obj'[c].live = obj[c].live
         /\ obj'[c].owner = obj[c].owner /\ obj'[c].waited = obj[c].waited
  BY <1>11, <1>14 DEF S
<1> QED BY <1>2, <1>3, <1>5, <1>8, <1>9, <1>10, <1>14, <1>15, <1>16, Zenon
        DEF c, conn, R, Popped, Connects, PopEffect

(* wait_on: the descriptors it looks at, and what it leaves behind. *)
LEMMA WaitOnType ==
  ASSUME TypeInv, NEW t \in Task, NEW w \in WaitSets(t), WaitOn(t, w), trial' = trial
  PROVE  /\ TypeInv'
         /\ w.rd \in SUBSET Obj /\ w.wr \in SUBSET Obj
         /\ \A o \in Obj :
              /\ obj'[o].kind = obj[o].kind /\ obj'[o].live = obj[o].live
              /\ obj'[o].owner = obj[o].owner /\ obj'[o].data = obj[o].data
              /\ obj'[o].state = obj[o].state
         /\ ~SomeReady(w) => \A o \in Obj :
              /\ obj[o].waited \subseteq obj'[o].waited
              /\ o \in w.rd => 1 \in obj'[o].waited
              /\ o \in w.wr => 2 \in obj'[o].waited
         /\ SomeReady(w) => \A o \in Obj : o \notin fds[t] => obj'[o].waited = obj[o].waited
<1>1. w \in [rd : SUBSET Obj, wr : SUBSET Obj]
  <2>1. fds[t] \subseteq Obj
    BY DEF TypeInv, TypeOK
  <2> QED BY <2>1 DEF WaitSets
<1>o. \A o \in Obj : obj[o] \in Object
  BY DEF TypeInv, TypeOK, Object
<1>2. CASE SomeReady(w)
  <2>1. /\ sleep' = [sleep EXCEPT ![t] = "no"]
        /\ want' = [want EXCEPT ![t] = [rd |-> {}, wr |-> {}]]
        /\ obj' = [o \in Obj |-> IF o \in w.rd \cup w.wr
                                 THEN [obj[o] EXCEPT !.waited = {}] ELSE obj[o]]
        /\ \A o \in w.rd \cup w.wr : o \in fds[t]
    BY <1>2 DEF WaitOn
  <2>2. \A o \in Obj : /\ [obj[o] EXCEPT !.waited = {}] \in Object
                       /\ [obj[o] EXCEPT !.waited = {}].kind = obj[o].kind
                       /\ [obj[o] EXCEPT !.waited = {}].live = obj[o].live
                       /\ [obj[o] EXCEPT !.waited = {}].owner = obj[o].owner
                       /\ [obj[o] EXCEPT !.waited = {}].data = obj[o].data
                       /\ [obj[o] EXCEPT !.waited = {}].state = obj[o].state
    BY <1>o DEF Object
  <2>3. obj' \in [Obj -> Object]
    BY <1>o, <2>1, <2>2, Zenon
  <2>4. \A o \in Obj : /\ obj'[o].kind = obj[o].kind /\ obj'[o].live = obj[o].live
                       /\ obj'[o].owner = obj[o].owner /\ obj'[o].data = obj[o].data
                       /\ obj'[o].state = obj[o].state
    BY <2>1, <2>2, Zenon
  <2>5. \A o \in Obj : o \notin fds[t] => obj'[o].waited = obj[o].waited
    BY <2>1, Zenon
  <2>6. TypeInv'
    BY <2>1, <2>3 DEF WaitOn, TypeInv, TypeOK, Object
  <2> QED BY <1>1, <1>2, <2>4, <2>5, <2>6
<1>3. CASE ~SomeReady(w)
  <2> DEFINE More(o) == obj[o].waited \cup (IF o \in w.rd THEN {1} ELSE {})
                                      \cup (IF o \in w.wr THEN {2} ELSE {})
             N(o) == [obj[o] EXCEPT !.waited = More(o)]
  <2>1. /\ sleep' = [sleep EXCEPT ![t] = "asleep"]
        /\ want' = [want EXCEPT ![t] = w]
        /\ obj' = [o \in Obj |-> N(o)]
    BY <1>3 DEF WaitOn
  <2>2. ASSUME NEW o \in Obj
        PROVE  /\ N(o) \in Object /\ N(o).kind = obj[o].kind /\ N(o).live = obj[o].live
               /\ N(o).owner = obj[o].owner /\ N(o).data = obj[o].data
               /\ N(o).state = obj[o].state /\ N(o).waited = More(o)
    <3>1. More(o) \in SUBSET {1, 2}
      BY <1>o DEF Object
    <3> HIDE DEF More
    <3> QED BY <1>o, <3>1 DEF Object
  <2>m. \A o \in Obj : /\ obj[o].waited \subseteq More(o)
                       /\ o \in w.rd => 1 \in More(o)
                       /\ o \in w.wr => 2 \in More(o)
    OBVIOUS
  <2> HIDE DEF N, More
  <2>3. obj' \in [Obj -> Object] /\ \A o \in Obj : obj'[o] = N(o)
    BY <2>1, <2>2, Zenon
  <2>4. TypeInv'
    BY <1>1, <2>1, <2>3 DEF WaitOn, TypeInv, TypeOK, Object
  <2> QED BY <1>1, <1>3, <2>2, <2>3, <2>4, <2>m, Zenon
<1> QED BY <1>2, <1>3

(* Every system call keeps the types, mistakes or not. *)
LEMMA TypeStep == TypeInv /\ [Next]_vars => TypeInv'
<1> SUFFICES ASSUME TypeInv, [Next]_vars PROVE TypeInv'
  OBVIOUS
<1> USE DEF TypeInv
<1>t. /\ obj \in [Obj -> Object] /\ Null \notin Obj
      /\ trial.clients \subseteq Task /\ Server \subseteq Task
      /\ \A t \in Task : fds[t] \subseteq Obj
  BY UportAssumption DEF TypeOK, Object, Task
<1>u. CASE UNCHANGED vars
  BY <1>u DEF vars, TypeOK
<1> SUFFICES ASSUME Next PROVE TypeInv'
  BY <1>u
<1>n. trial' = trial /\ fault = "none"
  BY DEF Next
<1>k. /\ \A t \in Task, d \in Obj \cup {Null} :
           /\ Request0("PORT", t, "SERVER", d) \in Object
           /\ Request0("REQUEST", t, "PENDING", d) \in Object
           /\ Request0("REQUEST", t, "ESTABLISHED", d) \in Object
           /\ Request0("COOKIE", t, "PENDING", d) \in Object
  BY RequestType DEF Kind
<1>1. ASSUME NEW t \in Task, NEW w \in {{}, {1}}, OpenPort(t, w) PROVE TypeInv'
  <2>1. CASE /\ Room(t) /\ used' = New /\ uport' = New
             /\ fds' = [fds EXCEPT ![t] = @ \cup {New}]
             /\ obj' = [obj EXCEPT ![New] = [Request0("PORT", t, "SERVER", Null)
                                             EXCEPT !.waited = w]]
    <3> DEFINE R == [Request0("PORT", t, "SERVER", Null) EXCEPT !.waited = w]
    <3>1. R \in Object
      BY DEF Request0, Object, Kind
    <3> HIDE DEF R
    <3>2. obj' = [obj EXCEPT ![New] = R]
      BY <2>1 DEF R
    <3>3. /\ New \in Obj /\ used' \in 0..trial.objs /\ fds' \in [Task -> SUBSET Obj]
          /\ \A u \in Task : Cardinality(fds'[u]) <= MaxFds
          /\ obj' \in [Obj -> Object]
      BY <2>1, <3>1, <3>2, CreatedType
    <3> QED BY <1>1, <1>n, <2>1, <3>3 DEF OpenPort, waitVars, TypeOK, Object
  <2>2. CASE UNCHANGED <<used, obj, fds, uport>>
    BY <1>1, <1>n, <2>2 DEF OpenPort, waitVars, TypeOK
  <2> QED BY <1>1, <2>1, <2>2 DEF OpenPort
<1>2. ASSUME NEW t \in Task, PortConnect(t) PROVE TypeInv'
  <2>1. /\ New \in Obj /\ used' \in 0..trial.objs /\ fds' \in [Task -> SUBSET Obj]
        /\ \A u \in Task : Cardinality(fds'[u]) <= MaxFds
        /\ obj' \in [Obj -> Object]
    BY <1>2, <1>k, CreatedType DEF PortConnect
  <2>2. incoming' \in [Obj -> Seq(Obj)]
    <3>1. \/ incoming' = incoming
          \/ incoming' = [incoming EXCEPT ![uport] = Append(@, New)]
      BY <1>2 DEF PortConnect
    <3>2. incoming \in [Obj -> Seq(Obj)]
      BY DEF TypeOK
    <3>3. [incoming EXCEPT ![uport] = Append(@, New)] \in [Obj -> Seq(Obj)]
      BY <2>1, QueuedType
    <3> QED BY <3>1, <3>2, <3>3, Zenon
  <2>3. sleep' \in [Task -> {"no", "asleep", "woken"}]
    BY <1>2, WokenType DEF PortConnect, TypeOK
  <2> QED BY <1>2, <1>n, <2>1, <2>2, <2>3 DEF PortConnect, TypeOK, Object
<1>3. ASSUME NEW t \in Task, NEW r \in Obj, Request(t, r) PROVE TypeInv'
  <2>1. /\ New \in Obj /\ used' \in 0..trial.objs /\ fds' \in [Task -> SUBSET Obj]
        /\ \A u \in Task : Cardinality(fds'[u]) <= MaxFds
        /\ obj' \in [Obj -> Object]
    BY <1>3, <1>k, CreatedType DEF Request
  <2>2. incoming' \in [Obj -> Seq(Obj)]
    BY <1>3, <2>1, QueuedType DEF Request
  <2>3. sleep' \in [Task -> {"no", "asleep", "woken"}]
    BY <1>3, WokenType DEF Request
  <2> QED BY <1>3, <1>n, <2>1, <2>2, <2>3 DEF Request, TypeOK, Object
<1>4. ASSUME NEW t \in Task, NEW r \in Obj, RequestFails(t, r) PROVE TypeInv'
  <2> DEFINE f == Freed(r)
  <2>1. f \in Object /\ obj' = [obj EXCEPT ![r] = f]
    BY <1>4, FreedType DEF RequestFails
  <2> HIDE DEF f
  <2>2. obj' \in [Obj -> Object]
    BY <1>t, <2>1
  <2> QED BY <1>4, <1>n, <2>2 DEF RequestFails, waitVars, TypeOK, Object
<1>5. ASSUME NEW t \in Task, NEW r \in Obj, PopRequest(t, r) PROVE TypeInv'
  BY <1>5, <1>n, PopRequestType
<1>6. ASSUME NEW t \in Task, NEW r \in Obj, PopRequestFails(t, r) PROVE TypeInv'
  <2>1. /\ New \in 0..trial.objs /\ fds' \in [Task -> SUBSET Obj]
        /\ \A u \in Task : Cardinality(fds'[u]) <= MaxFds
    BY <1>6, FdAdded DEF PopRequestFails
  <2> QED BY <1>6, <1>n, <2>1 DEF PopRequestFails, waitVars, TypeOK
<1>7. ASSUME NEW t \in Task, NEW r \in Obj, Respond(t, r) PROVE TypeInv'
  <2>1. Dropped(t, r, obj)
    BY <1>7 DEF Respond, Dropped
  <2>2. /\ fds' \in [Task -> SUBSET Obj] /\ obj' \in [Obj -> Object]
        /\ \A u \in Task : Cardinality(fds'[u]) <= MaxFds
    BY <1>t, <2>1, DroppedType
  <2>3. sleep' \in [Task -> {"no", "asleep", "woken"}]
    BY <1>7, WokenType DEF Respond
  <2>4. upc' \in [Obj -> Cookie]
    BY <1>7, CookieType DEF Respond
  <2> QED BY <1>7, <1>n, <2>2, <2>3, <2>4 DEF Respond, TypeOK, Object, Cookie
<1>8. ASSUME NEW t \in Task, NEW r \in Obj, GetResponse(t, r) PROVE TypeInv'
  <2>1. Dropped(t, r, obj)
    BY <1>8 DEF GetResponse, Dropped
  <2>2. /\ fds' \in [Task -> SUBSET Obj] /\ obj' \in [Obj -> Object]
        /\ \A u \in Task : Cardinality(fds'[u]) <= MaxFds
    BY <1>t, <2>1, DroppedType
  <2>4. upc' \in [Obj -> Cookie]
    <3>1. upc' = upc \/ upc' = [upc EXCEPT ![r] = NoCookie]
      BY <1>8 DEF GetResponse
    <3>2. upc \in [Obj -> Cookie]
      BY DEF TypeOK, Cookie
    <3> QED BY <3>1, <3>2, CookieType
  <2> QED BY <1>8, <1>n, <2>2, <2>4 DEF GetResponse, TypeOK, Object, Cookie, waitVars
<1>9. ASSUME NEW t \in Task, NEW u \in Task, NEW r \in Obj, Dup(t, u, r) PROVE TypeInv'
  <2>1. /\ New \in Obj /\ used' \in 0..trial.objs /\ fds' \in [Task -> SUBSET Obj]
        /\ \A v \in Task : Cardinality(fds'[v]) <= MaxFds
        /\ obj' \in [Obj -> Object]
    <3>1. obj[r].data \in Obj \cup {Null}
      BY <1>t DEF Object
    <3> QED BY <1>9, <1>k, <3>1, CreatedType DEF Dup
  <2>2. clients' \in [Obj -> SUBSET Obj]
    BY <1>9, <2>1 DEF Dup, TypeOK
  <2> QED BY <1>9, <1>n, <2>1, <2>2 DEF Dup, TypeOK, Object, waitVars
<1>10. ASSUME NEW t \in Task, NEW r \in Obj, CloseConnection(t, r) PROVE TypeInv'
  <2>1. /\ fds' \in [Task -> SUBSET Obj] /\ obj' \in [Obj -> Object]
        /\ \A u \in Task : Cardinality(fds'[u]) <= MaxFds
    BY <1>10, <1>t, DroppedType DEF CloseConnection
  <2>2. clients' \in [Obj -> SUBSET Obj]
    BY <1>10 DEF CloseConnection, TypeOK
  <2>3. fault' \in {"none", "null", "deleted_again"}
    BY <1>10 DEF CloseConnection
  <2> QED BY <1>10, <1>n, <2>1, <2>2, <2>3 DEF CloseConnection, TypeOK, Object, waitVars
<1>11. ASSUME NEW t \in Task, NEW r \in Obj, CloseCookie(t, r) PROVE TypeInv'
  <2>1. /\ fds' \in [Task -> SUBSET Obj] /\ obj' \in [Obj -> Object]
        /\ \A u \in Task : Cardinality(fds'[u]) <= MaxFds
    BY <1>11, <1>t, DroppedType DEF CloseCookie
  <2>2. incoming' \in [Obj -> Seq(Obj)]
    <3>1. \A o \in Obj : RemoveFirst(incoming[o], r) \in Seq(Obj)
      BY RemoveType DEF TypeOK
    <3> QED BY <1>11, <3>1 DEF CloseCookie, TypeOK
  <2>3. upc' \in [Obj -> Cookie]
    BY <1>11, CookieType DEF CloseCookie, TypeOK, Cookie
  <2>4. fault' \in {"none", "dangling"}
    BY <1>11 DEF CloseCookie
  <2> QED BY <1>11, <1>n, <2>1, <2>2, <2>3, <2>4 DEF CloseCookie, TypeOK, Object, Cookie, waitVars
<1>12. ASSUME NEW t \in Task, NEW r \in Obj, ClosePort(t, r) PROVE TypeInv'
  <2>1. /\ fds' \in [Task -> SUBSET Obj] /\ obj' \in [Obj -> Object]
        /\ \A u \in Task : Cardinality(fds'[u]) <= MaxFds
    BY <1>12, ClosedType, DroppedType DEF ClosePort
  <2>2. sleep' \in [Task -> {"no", "asleep", "woken"}]
    BY <1>12, WokenType DEF ClosePort
  <2>3. incoming' \in [Obj -> Seq(Obj)]
    BY <1>12 DEF ClosePort, TypeOK
  <2>4. fault' \in {"none", "dangling"}
    BY <1>12 DEF ClosePort
  <2> QED BY <1>12, <1>n, <2>1, <2>2, <2>3, <2>4 DEF ClosePort, TypeOK, Object
<1>13. ASSUME NEW t \in Task, NEW r \in Obj, ClosePortReq(t, r) PROVE TypeInv'
  <2>1. /\ fds' \in [Task -> SUBSET Obj] /\ obj' \in [Obj -> Object]
        /\ \A u \in Task : Cardinality(fds'[u]) <= MaxFds
    BY <1>13, ClosedType, DroppedType DEF ClosePortReq
  <2>2. sleep' \in [Task -> {"no", "asleep", "woken"}]
    BY <1>13, WokenType DEF ClosePortReq
  <2>3. incoming' \in [Obj -> Seq(Obj)] /\ clients' \in [Obj -> SUBSET Obj]
    BY <1>13 DEF ClosePortReq, TypeOK
  <2>4. fault' \in {"none", "dangling"}
    BY <1>13 DEF ClosePortReq
  <2> QED BY <1>13, <1>n, <2>1, <2>2, <2>3, <2>4 DEF ClosePortReq, TypeOK, Object
<1>14. ASSUME NEW t \in Task, NEW r \in Obj, ClosePortCookie(t, r) PROVE TypeInv'
  <2>1. /\ fds' \in [Task -> SUBSET Obj] /\ obj' \in [Obj -> Object]
        /\ \A u \in Task : Cardinality(fds'[u]) <= MaxFds
    BY <1>14, ClosedType, DroppedType DEF ClosePortCookie
  <2>2. sleep' \in [Task -> {"no", "asleep", "woken"}]
    BY <1>14, WokenType DEF ClosePortCookie
  <2>3. upc' \in [Obj -> Cookie]
    BY <1>14, CookieType DEF ClosePortCookie
  <2>4. fault' \in {"none", "dangling", "panic"}
    BY <1>14 DEF ClosePortCookie
  <2> QED BY <1>14, <1>n, <2>1, <2>2, <2>3, <2>4 DEF ClosePortCookie, TypeOK, Object, Cookie
<1>15. ASSUME NEW t \in Task, NEW r \in Obj, UseFreed(t, r) PROVE TypeInv'
  BY <1>15, <1>n DEF UseFreed, TypeOK, waitVars
<1>16. ASSUME NEW t \in Task, NEW w \in WaitSets(t), WaitOn(t, w) PROVE TypeInv'
  BY <1>16, <1>n, WaitOnType
<1> QED
  BY <1>t, <1>1, <1>2, <1>3, <1>4, <1>5, <1>6, <1>7, <1>8, <1>9, <1>10, <1>11, <1>12,
     <1>13, <1>14, <1>15, <1>16 DEF Next, ClientStep, ServerStep, AnyStep

(* An empty system is typed. *)
LEMMA TypeInit == Init => TypeInv
<1> SUFFICES ASSUME Init PROVE TypeInv
  OBVIOUS
<1>1. NoObj \in Object /\ NoCookie \in Cookie
  BY DEF NoObj, NoCookie, Object, Cookie, Kind
<1>2. \A t \in Task : Cardinality(fds[t]) <= MaxFds
  BY FS_EmptySet, UportAssumption DEF Init
<1>3. trial \in Trials /\ 0 \in 0..trial.objs
  BY UportAssumption DEF Init
<1>4. obj \in [Obj -> Object]
  BY <1>1 DEF Init
<1>5. upc \in [Obj -> Cookie] /\ incoming \in [Obj -> Seq(Obj)] /\ clients \in [Obj -> SUBSET Obj]
  BY <1>1 DEF Init
<1>6. /\ sleep \in [Task -> {"no", "asleep", "woken"}] /\ fds \in [Task -> SUBSET Obj]
      /\ want \in [Task -> [rd : SUBSET Obj, wr : SUBSET Obj]]
  BY DEF Init
<1> QED BY <1>2, <1>3, <1>4, <1>5, <1>6 DEF Init, TypeInv, TypeOK, Object, Cookie

(***************************************************************************)
(* Type correctness, mistakes or not: the descriptor tables never hold     *)
(* more than file[] has room for (port.c:12-22), and no number that is not *)
(* an object's gets into a queue, a list of clients or a descriptor.       *)
(***************************************************************************)
THEOREM TypeCorrect == Spec => []TypeOK
<1>1. TypeInv => TypeOK
  BY DEF TypeInv
<1> QED BY <1>1, TypeInit, TypeStep, PTL DEF Spec
-----------------------------------------------------------------------------
\* wait_on.

(***************************************************************************)
(* A step of other tasks leaves a task in wait_on settled if it takes none *)
(* of its descriptors away and wakes it when one of them becomes ready.    *)
(***************************************************************************)
LEMMA SettledKept ==
  ASSUME TypeInv, NEW u \in Task, Settled(u), want'[u] = want[u],
         sleep'[u] # "no" => sleep[u] # "no",
         sleep'[u] = "asleep" => sleep[u] = "asleep",
         ASSUME NEW o \in fds[u], sleep[u] # "no", obj[o].live
         PROVE  /\ o \in fds'[u] /\ obj'[o].live /\ obj[o].waited \subseteq obj'[o].waited
                /\ sleep'[u] = "asleep" => \A rw \in {1, 2} :
                     rw \in obj[o].waited /\ ~Available(o, rw) => ~(Available(o, rw)')
  PROVE  Settled(u)'
<1>1. ASSUME sleep'[u] # "no", NEW rw \in {1, 2}, NEW o, Awaited(u, o, rw)
      PROVE  Awaited(u, o, rw)'
  BY <1>1 DEF Awaited
<1>2. ASSUME sleep'[u] = "asleep", NEW rw \in {1, 2}, NEW o, Awaited(u, o, rw),
             ~Available(o, rw)
      PROVE  ~(Available(o, rw)')
  BY <1>2 DEF Awaited
<1>3. ASSUME sleep'[u] # "no"
      PROVE  /\ \A o \in want'[u].rd : Awaited(u, o, 1)'
             /\ \A o \in want'[u].wr : Awaited(u, o, 2)'
  BY <1>1, <1>3 DEF Settled
<1>4. ASSUME sleep'[u] = "asleep" PROVE ~(SomeReady(want[u])')
  <2>1. ~SomeReady(want[u])
    BY <1>4 DEF Settled
  <2>2. /\ \A o \in want[u].rd : Awaited(u, o, 1)
        /\ \A o \in want[u].wr : Awaited(u, o, 2)
    BY <1>4 DEF Settled
  <2>3. /\ \A o \in want[u].rd : ~(Available(o, 1)')
        /\ \A o \in want[u].wr : ~(Available(o, 2)')
    BY <1>2, <1>4, <2>1, <2>2 DEF SomeReady
  <2> QED BY <2>3 DEF SomeReady
<1> QED BY <1>3, <1>4 DEF Settled

(* A new descriptor is its caller's. *)
LEMMA OwnersCreated ==
  ASSUME TypeInv, OwnersSound, NEW t \in Task, NEW R \in Object, R.owner = t, Room(t),
         used' = New, fds' = [fds EXCEPT ![t] = @ \cup {New}],
         obj' = [obj EXCEPT ![New] = R], upc' = upc
  PROVE  OwnersSound'
<1>t. used \in Nat /\ \A u \in Task : fds[u] \subseteq Obj
  BY DEF TypeInv, TypeOK
<1>1. /\ New \in Obj
      /\ \A u \in Task : fds'[u] = IF u = t THEN fds[t] \cup {New} ELSE fds[u]
      /\ \A o \in Obj : obj'[o] = IF o = New THEN R ELSE obj[o]
  BY CreatedType
<1>2. /\ \A o \in Obj : obj'[o].live => o <= used'
      /\ \A o \in Obj : upc[o].client # Null \/ upc[o].response =>
            o <= used' /\ (obj'[o].live => obj'[o].state \in {"ESTABLISHED", "CLOSED"})
  BY <1>t, <1>1 DEF OwnersSound, New, Obj
<1>3. ASSUME NEW u \in Task, NEW o \in fds'[u]
      PROVE  o <= used' /\ (obj'[o].live => obj'[o].owner = u)
  <2>1. CASE o = New
    <3>1. \A v \in Task : New \notin fds[v]
      BY <1>t DEF OwnersSound, New
    <3> QED BY <1>t, <1>1, <1>3, <2>1, <3>1 DEF New
  <2>2. CASE o # New
    <3>1. o \in fds[u] /\ o \in Obj /\ o \in Nat
      BY <1>t, <1>1, <1>3, <2>2 DEF Obj
    <3> QED BY <1>t, <1>1, <2>2, <3>1 DEF OwnersSound, New
  <2> QED BY <2>1, <2>2
<1> QED BY <1>2, <1>3 DEF OwnersSound

(* Closing a descriptor leaves the others their owners'. *)
LEMMA OwnersDropped ==
  ASSUME TypeInv, OwnersSound, NEW t \in Task, NEW r \in Obj, NEW ob \in [Obj -> Object],
         Dropped(t, r, ob), used' = used,
         \A o \in Obj : /\ ob[o].live = obj[o].live /\ ob[o].owner = obj[o].owner
                        /\ ob[o].state \in {obj[o].state, "CLOSED"},
         \A o \in Obj : /\ upc'[o].client \in {o, Null}
                        /\ upc'[o].client # Null \/ upc'[o].response =>
                             upc[o].client # Null \/ upc[o].response
  PROVE  OwnersSound'
<1>1. /\ \A u \in Task : fds'[u] = IF u = t THEN fds[t] \ {r} ELSE fds[u]
      /\ \A o \in Obj \ {r} : obj'[o] = ob[o]
      /\ ~obj'[r].live
  BY DroppedType DEF Dropped
<1>2. \A u \in Task : fds[u] \subseteq Obj
  BY DEF TypeInv, TypeOK
<1> QED BY <1>1, <1>2 DEF OwnersSound

(***************************************************************************)
(* No call of one task strands another in wait_on: it either leaves the    *)
(* descriptors the other waits for as they are or wakes it.                *)
(***************************************************************************)
LEMMA WaitStep == TypeInv /\ WaitInv /\ [Next]_vars => WaitInv'
<1> SUFFICES ASSUME TypeInv, WaitInv, [Next]_vars PROVE WaitInv'
  OBVIOUS
<1>u. CASE UNCHANGED vars
  BY <1>u DEF vars, WaitInv, OwnersSound, Settled, Awaited, SomeReady, Available
<1> SUFFICES ASSUME Next PROVE WaitInv'
  BY <1>u
<1>n. trial' = trial /\ fault = "none"
  BY DEF Next
<1>w. OwnersSound /\ \A t \in Task : Settled(t)
  BY <1>n DEF WaitInv
<1>t. /\ obj \in [Obj -> Object] /\ Null \notin Obj /\ used \in Nat /\ New # used
      /\ trial.clients \subseteq Task /\ Server \subseteq Task
      /\ \A t \in Task : fds[t] \subseteq Obj
  BY UportAssumption DEF TypeInv, TypeOK, Object, Task, New
<1>p. TypeInv'
  BY TypeStep
<1>a. \A o \in Obj : obj[o].live => o # New
  BY <1>w, <1>t DEF OwnersSound, New, Obj
<1>b. \A t, u \in Task, o \in Obj : t # u /\ o \in fds[t] /\ o \in fds[u] => ~obj[o].live
  BY <1>w DEF OwnersSound
<1> SUFFICES ASSUME fault' = "none" PROVE OwnersSound' /\ \A t \in Task : Settled(t)'
  BY DEF WaitInv
<1>s. ASSUME NEW X, sleep' = Woken(X), NEW u \in Task
      PROVE  /\ sleep'[u] # "no" => sleep[u] # "no"
             /\ sleep'[u] = "asleep" => sleep[u] = "asleep" /\ \A o \in X : obj[o].owner # u
  BY <1>s, WokenType
<1>1. ASSUME NEW t \in Task, NEW w \in {{}, {1}}, OpenPort(t, w)
      PROVE  OwnersSound' /\ \A u \in Task : Settled(u)'
  <2>0. /\ sleep[t] = "no" /\ sleep' = sleep /\ want' = want
        /\ incoming' = incoming /\ upc' = upc
    BY <1>1 DEF OpenPort, waitVars
  <2>1. CASE /\ Room(t) /\ used' = New /\ uport' = New
             /\ fds' = [fds EXCEPT ![t] = @ \cup {New}]
             /\ obj' = [obj EXCEPT ![New] = [Request0("PORT", t, "SERVER", Null)
                                             EXCEPT !.waited = w]]
    <3> DEFINE R == [Request0("PORT", t, "SERVER", Null) EXCEPT !.waited = w]
    <3>1. R \in Object /\ R.owner = t
      BY DEF Request0, Object, Kind
    <3> HIDE DEF R
    <3>2. obj' = [obj EXCEPT ![New] = R]
      BY <2>1 DEF R
    <3>3. /\ \A u \in Task : fds'[u] = IF u = t THEN fds[t] \cup {New} ELSE fds[u]
          /\ \A o \in Obj : obj'[o] = IF o = New THEN R ELSE obj[o]
      BY <2>1, <3>1, <3>2, CreatedType
    <3>4. ASSUME NEW u \in Task PROVE Settled(u)'
      BY <1>t, <1>w, <1>a, <2>0, <3>3, SettledKept, ZenonT(60) DEF Available
    <3> QED BY <1>w, <2>0, <2>1, <3>1, <3>2, <3>4, OwnersCreated
  <2>2. CASE UNCHANGED <<used, obj, fds, uport>>
    BY <1>w, <2>0, <2>2 DEF OwnersSound, Settled, Awaited, SomeReady, Available
  <2> QED BY <1>1, <2>1, <2>2 DEF OpenPort
<1>2. ASSUME NEW t \in Task, PortConnect(t)
      PROVE  OwnersSound' /\ \A u \in Task : Settled(u)'
  <2> DEFINE R == Request0("REQUEST", t, "PENDING", Null)
  <2>1. R \in Object /\ R.owner = t
    BY RequestType DEF Kind
  <2>2. /\ Room(t) /\ used' = New /\ uport \in Obj /\ want' = want /\ upc' = upc
        /\ fds' = [fds EXCEPT ![t] = @ \cup {New}] /\ obj' = [obj EXCEPT ![New] = R]
        /\ incoming' = [incoming EXCEPT ![uport] = Append(@, New)]
        /\ sleep' = Woken(Waited(uport, {1}))
    BY <1>2, <1>n DEF PortConnect, TypeInv, TypeOK
  <2> HIDE DEF R
  <2>3. /\ New \in Obj
        /\ \A u \in Task : fds'[u] = IF u = t THEN fds[t] \cup {New} ELSE fds[u]
        /\ \A o \in Obj : obj'[o] = IF o = New THEN R ELSE obj[o]
    BY <2>1, <2>2, CreatedType
  <2>4. \A o \in Obj \ {uport} : incoming'[o] = incoming[o]
    BY <2>2 DEF TypeInv, TypeOK
  <2>5. ASSUME NEW u \in Task PROVE Settled(u)'
    <3>1. ASSUME NEW o \in fds[u], sleep[u] # "no", obj[o].live
          PROVE  /\ o \in fds'[u] /\ obj'[o].live /\ obj[o].waited \subseteq obj'[o].waited
                 /\ sleep'[u] = "asleep" => \A rw \in {1, 2} :
                      rw \in obj[o].waited /\ ~Available(o, rw) => ~(Available(o, rw)')
      <4>1. o \in Obj /\ o # New /\ obj[o].owner = u
        BY <1>a, <1>t, <1>w, <3>1 DEF OwnersSound
      <4>2. o = uport /\ 1 \in obj[o].waited => sleep'[u] # "asleep"
        BY <1>s, <2>2, <4>1 DEF Waited
      <4> QED BY <2>2, <2>3, <2>4, <3>1, <4>1, <4>2 DEF Available
    <3> QED BY <1>s, <1>w, <2>2, <3>1, SettledKept
  <2> QED BY <1>w, <2>1, <2>2, <2>5, OwnersCreated
<1>3. ASSUME NEW t \in Task, NEW r \in Obj, Request(t, r)
      PROVE  OwnersSound' /\ \A u \in Task : Settled(u)'
  <2> DEFINE R == Request0("COOKIE", t, "PENDING", Null)
             q == obj[r].data
  <2>1. R \in Object /\ R.owner = t
    BY RequestType DEF Kind
  <2>2. /\ Room(t) /\ used' = New /\ want' = want /\ upc' = upc
        /\ fds' = [fds EXCEPT ![t] = @ \cup {New}] /\ obj' = [obj EXCEPT ![New] = R]
        /\ incoming' = [incoming EXCEPT ![q] = Append(@, New)]
        /\ sleep' = Woken(Waited(q, {1}))
    BY <1>3 DEF Request
  <2> HIDE DEF R, q
  <2>3. /\ New \in Obj
        /\ \A u \in Task : fds'[u] = IF u = t THEN fds[t] \cup {New} ELSE fds[u]
        /\ \A o \in Obj : obj'[o] = IF o = New THEN R ELSE obj[o]
    BY <2>1, <2>2, CreatedType
  <2>4. \A o \in Obj \ {q} : incoming'[o] = incoming[o]
    BY <2>2 DEF TypeInv, TypeOK
  <2>5. ASSUME NEW u \in Task PROVE Settled(u)'
    <3>1. ASSUME NEW o \in fds[u], sleep[u] # "no", obj[o].live
          PROVE  /\ o \in fds'[u] /\ obj'[o].live /\ obj[o].waited \subseteq obj'[o].waited
                 /\ sleep'[u] = "asleep" => \A rw \in {1, 2} :
                      rw \in obj[o].waited /\ ~Available(o, rw) => ~(Available(o, rw)')
      <4>1. o \in Obj /\ o # New /\ obj[o].owner = u
        BY <1>a, <1>t, <1>w, <3>1 DEF OwnersSound
      <4>2. o = q /\ 1 \in obj[o].waited => sleep'[u] # "asleep"
        BY <1>s, <2>2, <4>1 DEF Waited
      <4> QED BY <2>2, <2>3, <2>4, <3>1, <4>1, <4>2 DEF Available
    <3> QED BY <1>s, <1>w, <2>2, <3>1, SettledKept
  <2> QED BY <1>w, <2>1, <2>2, <2>5, OwnersCreated
<1>4. ASSUME NEW t \in Task, NEW r \in fds[t], RequestFails(t, r)
      PROVE  OwnersSound' /\ \A u \in Task : Settled(u)'
  <2> DEFINE f == Freed(r)
  <2>1. /\ f \in Object /\ ~f.live /\ obj' = [obj EXCEPT ![r] = f]
        /\ sleep[t] = "no" /\ obj[r].live /\ r \in Obj
        /\ UNCHANGED <<used, fds, incoming, upc, sleep, want>>
    BY <1>4, <1>t, FreedType DEF RequestFails, Calls, waitVars
  <2> HIDE DEF f
  <2>2. \A o \in Obj : obj'[o] = IF o = r THEN f ELSE obj[o]
    BY <1>t, <2>1
  <2>3. OwnersSound'
    BY <1>t, <1>w, <2>1, <2>2 DEF OwnersSound
  <2>4. ASSUME NEW u \in Task PROVE Settled(u)'
    <3>1. ASSUME NEW o \in fds[u], sleep[u] # "no", obj[o].live
          PROVE  o \in Obj /\ o # r
      BY <1>b, <1>t, <2>1, <3>1
    <3> QED BY <1>w, <2>1, <2>2, <3>1, SettledKept, ZenonT(60) DEF Available
  <2> QED BY <2>3, <2>4
<1>5. ASSUME NEW t \in Task, NEW r \in fds[t], PopRequest(t, r)
      PROVE  OwnersSound' /\ \A u \in Task : Settled(u)'
  <2> DEFINE c == Popped(r)
             conn == Connects(r)
  <2>0. /\ used' = New /\ want' = want /\ sleep' = Woken(Waited(c, {2}))
        /\ obj[c].live /\ sleep[t] = "no" /\ r \in Obj
        /\ incoming[r] # <<>> /\ r \in fds[t] /\ obj[r].live
    BY <1>5, <1>t DEF PopRequest, Calls, Popped
  <2>p. PopEffect(t, r)
    BY <1>5, <1>n, <2>0, PopRequestType
  <2>1. /\ New \in Obj /\ c \in Obj
        /\ \A u \in Task : fds'[u] = IF u = t THEN fds[t] \cup {New} ELSE fds[u]
        /\ \A o \in Obj \ {c, New} : obj'[o] = obj[o]
        /\ c # New =>
             /\ obj'[New] = IF conn THEN Request0("PORT_REQ", t, "SERVER", Null)
                            ELSE Request0("PORT_COOKIE", t, "SERVER", c)
             /\ obj'[c].state = "ESTABLISHED"
             /\ obj'[c].kind = obj[c].kind /\ obj'[c].live = obj[c].live
             /\ obj'[c].owner = obj[c].owner /\ obj'[c].waited = obj[c].waited
        /\ \A o \in Obj : incoming'[o] = IF o = r THEN Tail(incoming[r]) ELSE incoming[o]
        /\ conn => upc' = upc
        /\ ~conn => \A o \in Obj : upc'[o] =
             IF o = c THEN [live |-> TRUE, client |-> o, response |-> FALSE] ELSE upc[o]
    BY <2>p DEF PopEffect
  <2> HIDE DEF c, conn
  <2>2. c # New
    BY <1>a, <2>0, <2>1
  <2>3. obj'[New].owner = t
    BY <2>1, <2>2, RequestType DEF Kind
  <2>4. OwnersSound'
    <3>2. \A o \in Obj \ {New} : /\ obj'[o].live = obj[o].live
                                 /\ obj'[o].owner = obj[o].owner
                                 /\ obj'[o].state \in {obj[o].state, "ESTABLISHED"}
      BY <2>1, <2>2
    <3>3. used' \in Nat /\ used' = used + 1 /\ New = used + 1
      BY <1>t, <2>0 DEF New
    <3>1. ASSUME NEW o \in Obj
          PROVE  /\ upc'[o].client \in {o, Null}
                 /\ upc'[o].client # Null \/ upc'[o].response =>
                      o <= used' /\ (obj'[o].live => obj'[o].state \in {"ESTABLISHED", "CLOSED"})
      <4>1. o \in Nat
        BY DEF Obj
      <4>2. CASE upc'[o] = upc[o]
        <5>1. upc[o].client # Null \/ upc[o].response => o # New
          BY <1>t, <1>w, <3>3, <4>1 DEF OwnersSound
        <5> QED BY <1>t, <1>w, <3>2, <3>3, <4>1, <4>2, <5>1 DEF OwnersSound
      <4>3. CASE o = c
        <5>1. upc'[o] = upc[o] \/ upc'[o] = [live |-> TRUE, client |-> c, response |-> FALSE]
          BY <2>1
        <5>2. o <= used
          BY <1>w, <2>0, <4>3 DEF OwnersSound
        <5> QED BY <1>t, <1>w, <2>1, <2>2, <3>3, <4>1, <4>3, <5>1, <5>2 DEF OwnersSound
      <4> QED BY <2>1, <4>2, <4>3
    <3>4. \A o \in Obj : obj'[o].live => o <= used'
      BY <1>t, <1>w, <3>2, <3>3 DEF OwnersSound, Obj
    <3>5. ASSUME NEW u \in Task, NEW o \in fds'[u]
          PROVE  o <= used' /\ (obj'[o].live => obj'[o].owner = u)
      <4>1. CASE o = New
        <5>1. \A v \in Task : New \notin fds[v]
          BY <1>t, <1>w DEF OwnersSound, New
        <5> QED BY <2>1, <2>3, <3>3, <3>5, <4>1, <5>1
      <4>2. CASE o # New
        <5>1. o \in fds[u] /\ o \in Obj /\ o \in Nat
          BY <1>t, <2>1, <3>5, <4>2 DEF Obj
        <5> QED BY <1>t, <1>w, <3>2, <3>3, <4>2, <5>1 DEF OwnersSound
      <4> QED BY <4>1, <4>2
    <3> QED BY <3>1, <3>4, <3>5 DEF OwnersSound
  <2>5. ASSUME NEW u \in Task PROVE Settled(u)'
    <3>1. ASSUME NEW o \in fds[u], sleep[u] # "no", obj[o].live
          PROVE  /\ o \in fds'[u] /\ obj'[o].live /\ obj[o].waited \subseteq obj'[o].waited
                 /\ sleep'[u] = "asleep" => \A rw \in {1, 2} :
                      rw \in obj[o].waited /\ ~Available(o, rw) => ~(Available(o, rw)')
      <4>1. o \in Obj /\ o # New /\ o # r /\ obj[o].owner = u
        BY <1>a, <1>b, <1>t, <1>w, <2>0, <3>1 DEF OwnersSound
      <4>2. CASE o # c
        <5>1. obj'[o] = obj[o] /\ incoming'[o] = incoming[o] /\ upc'[o] = upc[o]
          BY <2>1, <4>1, <4>2
        <5> QED BY <2>1, <3>1, <4>1, <5>1 DEF Available
      <4>3. CASE o = c
        <5>1. 2 \in obj[o].waited => sleep'[u] # "asleep"
          BY <1>s, <2>0, <4>1, <4>3 DEF Waited
        <5>2. /\ obj'[o].kind = obj[o].kind /\ obj'[o].live = obj[o].live
              /\ obj'[o].waited = obj[o].waited /\ obj'[o].state = "ESTABLISHED"
              /\ incoming'[o] = incoming[o]
          BY <2>1, <2>2, <4>1, <4>3
        <5>3. upc'[o].response =>
                upc[o].response /\ obj[o].state \in {"ESTABLISHED", "CLOSED"}
          <6>1. upc'[o].response => upc' = upc
            <7>1. CASE ~conn
              <8>1. upc'[o] = [live |-> TRUE, client |-> o, response |-> FALSE]
                BY <2>1, <4>1, <4>3, <7>1
              <8> QED BY <8>1
            <7> QED BY <2>1, <7>1
          <6> QED BY <1>w, <3>1, <4>1, <6>1 DEF OwnersSound
        <5> QED BY <2>1, <3>1, <4>1, <5>1, <5>2, <5>3 DEF Available
      <4> QED BY <4>2, <4>3
    <3> QED BY <1>s, <1>w, <2>0, <3>1, SettledKept
  <2> QED BY <2>4, <2>5
<1>6. ASSUME NEW t \in Task, NEW r \in Obj, PopRequestFails(t, r)
      PROVE  OwnersSound' /\ \A u \in Task : Settled(u)'
  <2>1. /\ Room(t) /\ used' = New /\ fds' = [fds EXCEPT ![t] = @ \cup {New}]
        /\ UNCHANGED <<obj, incoming, upc, sleep, want>>
    BY <1>6 DEF PopRequestFails, waitVars
  <2>2. New \in Obj /\ \A u \in Task : fds'[u] = IF u = t THEN fds[t] \cup {New} ELSE fds[u]
    BY <2>1, FdAdded DEF TypeInv, TypeOK
  <2>3. OwnersSound'
    BY <1>t, <1>w, <1>a, <2>1, <2>2 DEF OwnersSound, New, Obj
  <2> QED BY <1>w, <2>1, <2>2, <2>3 DEF Settled, Awaited, SomeReady, Available
<1>7. ASSUME NEW t \in Task, NEW r \in fds[t], Respond(t, r)
      PROVE  OwnersSound' /\ \A u \in Task : Settled(u)'
  <2> DEFINE c == obj[r].data
  <2>0. /\ used' = used /\ want' = want /\ incoming' = incoming
        /\ sleep[t] = "no" /\ obj[r].live /\ r \in Obj
        /\ upc[c].client # Null
        /\ upc' = [upc EXCEPT ![c].response = TRUE]
        /\ sleep' = Woken(Waited(upc[c].client, {1}))
    BY <1>7, <1>t DEF Respond, Calls
  <2>1. Dropped(t, r, obj)
    BY <1>7 DEF Respond, Dropped
  <2>2. /\ \A u \in Task : fds'[u] = IF u = t THEN fds[t] \ {r} ELSE fds[u]
        /\ \A o \in Obj \ {r} : obj'[o] = obj[o]
    BY <1>t, <2>0, <2>1, DroppedType, ZenonT(60) DEF Dropped
  <2> HIDE DEF c
  <2>3. \A o \in Obj \ {c} : upc'[o] = upc[o]
    BY <2>0 DEF TypeInv, TypeOK
  <2>4. c \in Obj => upc'[c].client = upc[c].client
    BY <2>0, CookieType
  <2>5. OwnersSound'
    <3>1. \A o \in Obj : /\ upc'[o].client \in {o, Null}
                         /\ upc'[o].client # Null \/ upc'[o].response =>
                              upc[o].client # Null \/ upc[o].response
      BY <1>w, <2>0, <2>3, <2>4 DEF OwnersSound
    <3> QED BY <1>t, <1>w, <2>0, <2>1, <3>1, OwnersDropped
  <2>6. ASSUME NEW u \in Task PROVE Settled(u)'
    <3>1. ASSUME NEW o \in fds[u], sleep[u] # "no", obj[o].live
          PROVE  /\ o \in fds'[u] /\ obj'[o].live /\ obj[o].waited \subseteq obj'[o].waited
                 /\ sleep'[u] = "asleep" => \A rw \in {1, 2} :
                      rw \in obj[o].waited /\ ~Available(o, rw) => ~(Available(o, rw)')
      <4>1. o \in Obj /\ o # r /\ obj[o].owner = u
        BY <1>b, <1>t, <1>w, <2>0, <3>1 DEF OwnersSound
      <4>2. o = c /\ 1 \in obj[o].waited => sleep'[u] # "asleep"
        <5>1. o = c => upc[c].client = o
          BY <1>w, <2>0, <4>1 DEF OwnersSound
        <5> QED BY <1>s, <2>0, <4>1, <5>1 DEF Waited
      <4> QED BY <2>0, <2>2, <2>3, <3>1, <4>1, <4>2 DEF Available
    <3> QED BY <1>s, <1>w, <2>0, <3>1, SettledKept
  <2> QED BY <2>5, <2>6
<1>8. ASSUME NEW t \in Task, NEW r \in fds[t], GetResponse(t, r)
      PROVE  OwnersSound' /\ \A u \in Task : Settled(u)'
  <2>0. /\ used' = used /\ want' = want /\ incoming' = incoming /\ sleep' = sleep
        /\ sleep[t] = "no" /\ obj[r].live /\ r \in Obj
        /\ upc' = upc \/ upc' = [upc EXCEPT ![r] = NoCookie]
        /\ Dropped(t, r, obj)
    BY <1>8, <1>t DEF GetResponse, Calls, waitVars, Dropped
  <2>1. \A o \in Obj : upc'[o] = upc[o] \/ (upc'[o] = NoCookie /\ o = r)
    BY <2>0, CookieType
  <2>2. /\ \A u \in Task : fds'[u] = IF u = t THEN fds[t] \ {r} ELSE fds[u]
        /\ \A o \in Obj \ {r} : obj'[o] = obj[o]
    BY <1>t, <2>0, DroppedType, ZenonT(60) DEF Dropped
  <2>3. ~NoCookie.live /\ NoCookie.client = Null /\ ~NoCookie.response
    BY CookieType
  <2>4. OwnersSound'
    <3>1. \A o \in Obj : /\ upc'[o].client \in {o, Null}
                         /\ upc'[o].client # Null \/ upc'[o].response =>
                              upc[o].client # Null \/ upc[o].response
      BY <1>w, <2>1, <2>3 DEF OwnersSound
    <3> QED BY <1>t, <1>w, <2>0, <3>1, OwnersDropped
  <2>5. ASSUME NEW u \in Task PROVE Settled(u)'
    <3>1. ASSUME NEW o \in fds[u], sleep[u] # "no", obj[o].live
          PROVE  /\ o \in fds'[u] /\ obj'[o] = obj[o] /\ upc'[o] = upc[o]
      BY <1>b, <1>t, <2>0, <2>1, <2>2, <3>1
    <3> QED BY <1>w, <2>0, <3>1, SettledKept, ZenonT(60) DEF Available
  <2> QED BY <2>4, <2>5
<1>9. ASSUME NEW t \in Task, NEW v \in Task, NEW r \in Obj, Dup(t, v, r)
      PROVE  OwnersSound' /\ \A u \in Task : Settled(u)'
  <2> DEFINE R == Request0("REQUEST", v, "ESTABLISHED", obj[r].data)
  <2>1. R \in Object /\ R.owner = v
    <3>1. obj[r].data \in Obj \cup {Null}
      BY <1>t DEF Object
    <3> QED BY <3>1, RequestType DEF Kind
  <2>2. /\ Room(v) /\ used' = New /\ want' = want /\ upc' = upc
        /\ fds' = [fds EXCEPT ![v] = @ \cup {New}] /\ obj' = [obj EXCEPT ![New] = R]
        /\ incoming' = incoming /\ sleep' = sleep
    BY <1>9 DEF Dup, waitVars
  <2> HIDE DEF R
  <2>3. /\ New \in Obj
        /\ \A u \in Task : fds'[u] = IF u = v THEN fds[v] \cup {New} ELSE fds[u]
        /\ \A o \in Obj : obj'[o] = IF o = New THEN R ELSE obj[o]
    BY <2>1, <2>2, CreatedType
  <2>4. ASSUME NEW u \in Task PROVE Settled(u)'
    <3>1. ASSUME NEW o \in fds[u], sleep[u] # "no", obj[o].live
          PROVE  /\ o \in fds'[u] /\ obj'[o] = obj[o]
      BY <1>a, <1>t, <2>3, <3>1
    <3> QED BY <1>w, <2>2, <3>1, SettledKept, ZenonT(60) DEF Available
  <2> QED BY <1>w, <2>1, <2>2, <2>4, OwnersCreated
<1>10. ASSUME NEW t \in Task, NEW r \in fds[t], CloseConnection(t, r)
       PROVE  OwnersSound' /\ \A u \in Task : Settled(u)'
  <2>0. /\ used' = used /\ want' = want /\ incoming' = incoming /\ sleep' = sleep
        /\ sleep[t] = "no" /\ obj[r].live /\ r \in Obj /\ upc' = upc
        /\ Dropped(t, r, obj)
    BY <1>10, <1>t DEF CloseConnection, Calls, waitVars
  <2>2. /\ \A u \in Task : fds'[u] = IF u = t THEN fds[t] \ {r} ELSE fds[u]
        /\ \A o \in Obj \ {r} : obj'[o] = obj[o]
    BY <1>t, <2>0, DroppedType, ZenonT(60) DEF Dropped
  <2>4. OwnersSound'
    BY <1>t, <1>w, <2>0, OwnersDropped DEF OwnersSound
  <2>5. ASSUME NEW u \in Task PROVE Settled(u)'
    <3>1. ASSUME NEW o \in fds[u], sleep[u] # "no", obj[o].live
          PROVE  /\ o \in fds'[u] /\ obj'[o] = obj[o]
      BY <1>b, <1>t, <2>0, <2>2, <3>1
    <3> QED BY <1>w, <2>0, <3>1, SettledKept, ZenonT(60) DEF Available
  <2> QED BY <2>4, <2>5
<1>11. ASSUME NEW t \in Task, NEW r \in fds[t], CloseCookie(t, r)
       PROVE  OwnersSound' /\ \A u \in Task : Settled(u)'
  <2>0. /\ used' = used /\ want' = want /\ sleep' = sleep
        /\ sleep[t] = "no" /\ obj[r].live /\ r \in Obj
        /\ Dropped(t, r, obj)
        /\ \/ upc' = upc
           \/ upc' = [upc EXCEPT ![r] = NoCookie]
           \/ upc' = [upc EXCEPT ![r].client = Null] /\ ~upc[r].response
    BY <1>11, <1>t DEF CloseCookie, Calls, waitVars
  <2>i. \A o \in Obj : incoming[o] = <<>> => incoming'[o] = <<>>
    <3>1. \A o \in Obj : incoming[o] = <<>> => RemoveFirst(incoming[o], r) = <<>>
      BY DEF RemoveFirst
    <3> QED BY <1>11, <3>1 DEF CloseCookie
  <2>1. \A o \in Obj \ {r} : upc'[o] = upc[o]
    BY <2>0, CookieType
  <2>2. /\ \A u \in Task : fds'[u] = IF u = t THEN fds[t] \ {r} ELSE fds[u]
        /\ \A o \in Obj \ {r} : obj'[o] = obj[o]
    BY <1>t, <2>0, DroppedType, ZenonT(60) DEF Dropped
  <2>3. upc'[r] = upc[r] \/ (upc'[r].client = Null /\ ~upc'[r].response)
    BY <2>0, CookieType
  <2>4. OwnersSound'
    <3>1. \A o \in Obj : /\ upc'[o].client \in {o, Null}
                         /\ upc'[o].client # Null \/ upc'[o].response =>
                              upc[o].client # Null \/ upc[o].response
      BY <1>w, <2>0, <2>1, <2>3 DEF OwnersSound
    <3> QED BY <1>t, <1>w, <2>0, <3>1, OwnersDropped
  <2>5. ASSUME NEW u \in Task PROVE Settled(u)'
    <3>1. ASSUME NEW o \in fds[u], sleep[u] # "no", obj[o].live
          PROVE  /\ o \in Obj /\ o \in fds'[u] /\ obj'[o] = obj[o] /\ upc'[o] = upc[o]
      BY <1>b, <1>t, <2>0, <2>1, <2>2, <3>1
    <3> QED BY <1>w, <2>0, <2>i, <3>1, SettledKept, ZenonT(60) DEF Available
  <2> QED BY <2>4, <2>5
<1>c. ASSUME NEW t \in Task, NEW r \in fds[t], NEW X, obj[r].live, sleep[t] = "no",
             Dropped(t, r, Closed(X)), sleep' = Woken(Waiting(X)), want' = want,
             used' = used,
             \A o \in Obj : incoming'[o] # <<>> => incoming[o] # <<>>,
             \A o \in Obj : upc'[o] = upc[o] \/ upc'[o] = NoCookie
      PROVE  OwnersSound' /\ \A u \in Task : Settled(u)'
  <2>0. r \in Obj
    BY <1>t
  <2>1. /\ Closed(X) \in [Obj -> Object]
        /\ \A o \in Obj : /\ Closed(X)[o].kind = obj[o].kind
                          /\ Closed(X)[o].live = obj[o].live
                          /\ Closed(X)[o].owner = obj[o].owner
                          /\ Closed(X)[o].waited = obj[o].waited
                          /\ Closed(X)[o].state = IF o \in X THEN "CLOSED" ELSE obj[o].state
    BY ClosedType
  <2> DEFINE ob == Closed(X)
  <2> HIDE DEF ob
  <2>d. ob \in [Obj -> Object] /\ Dropped(t, r, ob)
    BY <1>c, <2>1 DEF ob
  <2>2. /\ \A u \in Task : fds'[u] = IF u = t THEN fds[t] \ {r} ELSE fds[u]
        /\ \A o \in Obj \ {r} : obj'[o] = ob[o]
    BY <2>0, <2>d, DroppedType DEF Dropped
  <2>3. NoCookie.client = Null /\ ~NoCookie.response
    BY CookieType
  <2>4. OwnersSound'
    <3>1. \A o \in Obj : /\ upc'[o].client \in {o, Null}
                         /\ upc'[o].client # Null \/ upc'[o].response =>
                              upc[o].client # Null \/ upc[o].response
      BY <1>c, <1>w, <2>3 DEF OwnersSound
    <3>2. \A o \in Obj : /\ ob[o].live = obj[o].live /\ ob[o].owner = obj[o].owner
                         /\ ob[o].state \in {obj[o].state, "CLOSED"}
      BY <2>1 DEF ob
    <3> QED BY <1>c, <1>w, <2>0, <2>d, <3>1, <3>2, OwnersDropped
  <2>5. ASSUME NEW u \in Task PROVE Settled(u)'
    <3>1. ASSUME NEW o \in fds[u], sleep[u] # "no", obj[o].live
          PROVE  /\ o \in fds'[u] /\ obj'[o].live /\ obj[o].waited \subseteq obj'[o].waited
                 /\ sleep'[u] = "asleep" => \A rw \in {1, 2} :
                      rw \in obj[o].waited /\ ~Available(o, rw) => ~(Available(o, rw)')
      <4>1. o \in Obj /\ o # r /\ obj[o].owner = u
        BY <1>b, <1>c, <1>t, <1>w, <3>1 DEF OwnersSound
      <4>2. /\ o \in fds'[u] /\ obj'[o].kind = obj[o].kind /\ obj'[o].live
            /\ obj'[o].waited = obj[o].waited
            /\ obj'[o].state = IF o \in X THEN "CLOSED" ELSE obj[o].state
        BY <2>1, <2>2, <3>1, <4>1 DEF ob
      <4>3. o \in X /\ obj[o].waited # {} => sleep'[u] # "asleep"
        BY <1>c, <1>s, <4>1 DEF Waiting
      <4>4. upc'[o].response => upc[o].response
        BY <1>c, <2>3, <4>1
      <4>5. incoming'[o] # <<>> => incoming[o] # <<>>
        BY <1>c, <4>1
      <4> QED BY <4>2, <4>3, <4>4, <4>5 DEF Available
    <3> QED BY <1>c, <1>s, <1>w, <3>1, SettledKept
  <2> QED BY <2>4, <2>5
<1>12. ASSUME NEW t \in Task, NEW r \in fds[t], ClosePort(t, r)
       PROVE  OwnersSound' /\ \A u \in Task : Settled(u)'
  <2>1. /\ obj[r].live /\ sleep[t] = "no" /\ want' = want /\ used' = used /\ upc' = upc
        /\ Dropped(t, r, Closed(Range(incoming[r])))
        /\ sleep' = Woken(Waiting(Range(incoming[r])))
    BY <1>12 DEF ClosePort, Calls
  <2>2. \A o \in Obj : incoming'[o] # <<>> => incoming[o] # <<>>
    BY <1>12 DEF ClosePort, TypeInv, TypeOK
  <2> QED BY <1>c, <2>1, <2>2
<1>13. ASSUME NEW t \in Task, NEW r \in fds[t], ClosePortReq(t, r)
       PROVE  OwnersSound' /\ \A u \in Task : Settled(u)'
  <2>1. /\ obj[r].live /\ sleep[t] = "no" /\ want' = want /\ used' = used /\ upc' = upc
        /\ Dropped(t, r, Closed(clients[r]))
        /\ sleep' = Woken(Waiting(clients[r]))
    BY <1>13 DEF ClosePortReq, Calls
  <2>2. \A o \in Obj : incoming'[o] # <<>> => incoming[o] # <<>>
    BY <1>13 DEF ClosePortReq, TypeInv, TypeOK
  <2> QED BY <1>c, <2>1, <2>2
<1>14. ASSUME NEW t \in Task, NEW r \in fds[t], ClosePortCookie(t, r)
       PROVE  OwnersSound' /\ \A u \in Task : Settled(u)'
  <2> DEFINE c == obj[r].data
             X == {upc[c].client} \ {Null}
  <2>1. /\ obj[r].live /\ sleep[t] = "no" /\ want' = want /\ used' = used
        /\ incoming' = incoming
        /\ Dropped(t, r, Closed(X)) /\ sleep' = Woken(Waiting(X))
        /\ upc' = [upc EXCEPT ![c] = NoCookie]
    BY <1>14 DEF ClosePortCookie, Calls
  <2> HIDE DEF c, X
  <2>2. \A o \in Obj : upc'[o] = upc[o] \/ upc'[o] = NoCookie
    BY <2>1 DEF TypeInv, TypeOK
  <2> QED BY <1>c, <2>1, <2>2
<1>15. ASSUME NEW t \in Task, NEW r \in Obj, UseFreed(t, r) PROVE FALSE
  BY <1>15 DEF UseFreed
<1>16. ASSUME NEW t \in Task, NEW w \in WaitSets(t), WaitOn(t, w)
       PROVE  OwnersSound' /\ \A u \in Task : Settled(u)'
  <2>1. /\ w.rd \in SUBSET Obj /\ w.wr \in SUBSET Obj
        /\ \A o \in Obj :
             /\ obj'[o].kind = obj[o].kind /\ obj'[o].live = obj[o].live
             /\ obj'[o].owner = obj[o].owner /\ obj'[o].data = obj[o].data
             /\ obj'[o].state = obj[o].state
        /\ ~SomeReady(w) => \A o \in Obj :
             /\ obj[o].waited \subseteq obj'[o].waited
             /\ o \in w.rd => 1 \in obj'[o].waited
             /\ o \in w.wr => 2 \in obj'[o].waited
        /\ SomeReady(w) => \A o \in Obj : o \notin fds[t] => obj'[o].waited = obj[o].waited
    BY <1>16, <1>n, WaitOnType
  <2>2. /\ UNCHANGED <<used, fds, incoming, clients, upc, port, uport, fault>>
        /\ \A o \in w.rd \cup w.wr : o \in fds[t] /\ obj[o].live
        /\ SomeReady(w) => sleep' = [sleep EXCEPT ![t] = "no"]
        /\ ~SomeReady(w) => /\ sleep' = [sleep EXCEPT ![t] = "asleep"]
                            /\ want' = [want EXCEPT ![t] = w]
        /\ \A u \in Task \ {t} : sleep'[u] = sleep[u] /\ want'[u] = want[u]
    BY <1>16 DEF WaitOn, TypeInv, TypeOK
  <2>3. OwnersSound'
    BY <1>t, <1>w, <2>1, <2>2 DEF OwnersSound
  <2>4. \A o \in Obj, rw \in {1, 2} : Available(o, rw)' <=> Available(o, rw)
    BY <2>1, <2>2 DEF Available
  <2>5. Settled(t)'
    <3>1. CASE SomeReady(w)
      <4>1. sleep'[t] = "no"
        BY <2>2, <3>1 DEF TypeInv, TypeOK
      <4> QED BY <4>1 DEF Settled
    <3>2. CASE ~SomeReady(w)
      <4>1. want'[t] = w
        BY <2>2, <3>2 DEF TypeInv, TypeOK
      <4>2. ~(SomeReady(w)')
        BY <2>1, <2>4, <3>2 DEF SomeReady
      <4>3. /\ \A o \in w.rd : Awaited(t, o, 1)'
            /\ \A o \in w.wr : Awaited(t, o, 2)'
        BY <2>1, <2>2, <3>2 DEF Awaited
      <4> QED BY <4>1, <4>2, <4>3 DEF Settled
    <3> QED BY <3>1, <3>2
  <2>6. ASSUME NEW u \in Task, u # t PROVE Settled(u)'
    <3>1. ASSUME NEW o \in fds[u], sleep[u] # "no", obj[o].live
          PROVE  /\ o \in Obj /\ o \in fds'[u] /\ obj'[o].live
                 /\ obj[o].waited \subseteq obj'[o].waited
      BY <1>b, <1>t, <2>1, <2>2, <2>6, <3>1
    <3> QED BY <1>w, <2>2, <2>4, <2>6, <3>1, SettledKept
  <2> QED BY <2>3, <2>5, <2>6
<1> QED BY <1>t, <1>1, <1>2, <1>3, <1>4, <1>5, <1>6, <1>7, <1>8, <1>9, <1>10, <1>11,
           <1>12, <1>13, <1>14, <1>15, <1>16 DEF Next, ClientStep, ServerStep, AnyStep

(***************************************************************************)
(* A task asleep in wait_on waits for nothing that has happened, for any   *)
(* number of servers, clients and objects and whatever mistakes the        *)
(* programs make, up to the first fault of the kernel (uport.c:207, 247,   *)
(* 271, 303, 451, 464, 480).                                               *)
(***************************************************************************)
THEOREM NobodyStranded == Spec => []SleepersWaitForNothing
<1>1. Init => WaitInv
  BY DEF Init, WaitInv, OwnersSound, Settled, NoObj, NoCookie
<1>2. WaitInv => SleepersWaitForNothing
  BY DEF WaitInv, Settled, SleepersWaitForNothing
<1> QED BY <1>1, <1>2, TypeInit, TypeStep, WaitStep, PTL DEF Spec
-----------------------------------------------------------------------------
\* The two ends of connections, messages and cookies.

(* A new descriptor, with everything else about it still untouched. *)
LEMMA DescriptorsCreated ==
  ASSUME TypeInv, FreshSound, DescriptorsSound, NEW t \in Task, NEW R \in Object,
         R.live, R.owner = t,
         R.kind \in ClientKind => R.state # "SERVER",
         R.kind \in ServerKind => R.state = "SERVER",
         New \in Obj,
         \A u \in Task : fds'[u] = IF u = t THEN fds[t] \cup {New} ELSE fds[u],
         \A o \in Obj : /\ o # New => /\ obj'[o].live = obj[o].live
                                      /\ obj'[o].owner = obj[o].owner
                                      /\ obj'[o].kind = obj[o].kind
                                      /\ obj'[o].state # obj[o].state =>
                                           obj'[o].state # "SERVER" /\ obj[o].kind \in ClientKind
                        /\ o = New => obj'[o] = R
  PROVE  DescriptorsSound'
<1>1. ~obj[New].live /\ \A u \in Task : New \notin fds[u] /\ fds[u] \subseteq Obj
  <2>1. New > used
    BY DEF New, TypeInv, TypeOK
  <2> QED BY <2>1 DEF FreshSound, DescriptorsSound, TypeInv, TypeOK
<1>2. ASSUME NEW u \in Task, NEW r \in fds'[u] PROVE obj'[r].live /\ obj'[r].owner = u
  BY <1>1, <1>2 DEF DescriptorsSound
<1>3. ASSUME NEW o \in Obj, obj'[o].live
      PROVE  /\ obj'[o].owner \in Task /\ o \in fds'[obj'[o].owner]
             /\ obj'[o].kind \in ClientKind => obj'[o].state # "SERVER"
             /\ obj'[o].kind \in ServerKind => obj'[o].state = "SERVER"
  BY <1>1, <1>3 DEF DescriptorsSound, ClientKind, ServerKind
<1> QED BY <1>2, <1>3 DEF DescriptorsSound

(* A descriptor closed, client ends perhaps told. *)
LEMMA DescriptorsDropped ==
  ASSUME TypeInv, DescriptorsSound, NEW t \in Task, NEW r \in fds[t],
         \A u \in Task : fds'[u] = IF u = t THEN fds[t] \ {r} ELSE fds[u],
         ~obj'[r].live,
         \A o \in Obj \ {r} :
            /\ obj'[o].live = obj[o].live
            /\ obj'[o].owner = obj[o].owner
            /\ obj'[o].kind = obj[o].kind
            /\ obj'[o].state # obj[o].state =>
                 obj'[o].state # "SERVER" /\ obj[o].kind \in ClientKind
  PROVE  DescriptorsSound'
<1>1. \A u \in Task : fds[u] \subseteq Obj /\ (r \in fds[u] => u = t)
  BY DEF DescriptorsSound, TypeInv, TypeOK
<1>2. ASSUME NEW u \in Task, NEW o \in fds'[u] PROVE obj'[o].live /\ obj'[o].owner = u
  BY <1>1, <1>2 DEF DescriptorsSound
<1>3. ASSUME NEW o \in Obj, obj'[o].live
      PROVE  /\ obj'[o].owner \in Task /\ o \in fds'[obj'[o].owner]
             /\ obj'[o].kind \in ClientKind => obj'[o].state # "SERVER"
             /\ obj'[o].kind \in ServerKind => obj'[o].state = "SERVER"
  BY <1>1, <1>3 DEF DescriptorsSound, ClientKind, ServerKind
<1> QED BY <1>2, <1>3 DEF DescriptorsSound

(* A new message at the end of the queue of s. *)
LEMMA QueuesAppended ==
  ASSUME TypeInv, FreshSound, QueuesSound, NEW s \in Obj, NEW R \in Object, New \in Obj,
         R.live, R.state = "PENDING", obj[s].live,
         \/ obj[s].kind = "PORT" /\ R.kind = "REQUEST"
         \/ obj[s].kind = "PORT_REQ" /\ R.kind = "COOKIE",
         \A o \in Obj : obj'[o] = IF o = New THEN R ELSE obj[o],
         \A o \in Obj : incoming'[o] = IF o = s THEN Append(incoming[s], New) ELSE incoming[o]
  PROVE  QueuesSound'
<1> DEFINE q == incoming[s]
           a == Append(q, New)
<1>1. ~obj[New].live
  BY DEF FreshSound, New, TypeInv, TypeOK
<1>2. \A o \in Obj : New \notin Range(incoming[o]) /\ Range(incoming[o]) \subseteq Obj
  BY <1>1 DEF QueuesSound, Range, TypeInv, TypeOK
<1>3. q \in Seq(Obj) /\ IsInjective(q) /\ New \notin Range(q)
  BY <1>2 DEF QueuesSound, TypeInv, TypeOK
<1>4. IsInjective(a) /\ Range(a) = Range(q) \cup {New}
  BY <1>3, AppendDistinct
<1> HIDE DEF a
<1>5. \A o \in Obj : IsInjective(incoming'[o])
  BY <1>4 DEF QueuesSound, a
<1>6. \A o \in Obj : \A c : c \in Range(incoming'[o]) <=>
                              c \in Range(incoming[o]) \/ (o = s /\ c = New)
  <2>1. \A o \in Obj : incoming'[o] = IF o = s THEN a ELSE incoming[o]
    BY DEF a
  <2> QED BY <1>4, <2>1
<1>7. ASSUME NEW o \in Obj, NEW c \in Range(incoming'[o])
      PROVE  /\ obj'[c].live /\ obj'[c].state = "PENDING"
             /\ \/ o \in Live("PORT")' /\ obj'[c].kind = "REQUEST"
                \/ o \in Live("PORT_REQ")' /\ obj'[c].kind = "COOKIE"
  <2>1. CASE c \in Range(incoming[o])
    BY <1>1, <1>2, <2>1 DEF QueuesSound, Live
  <2>2. CASE o = s /\ c = New
    BY <1>1, <2>2 DEF Live
  <2> QED BY <1>6, <1>7, <2>1, <2>2
<1>8. \A o, p \in Obj : \A c \in Range(incoming'[o]) : c \in Range(incoming'[p]) => o = p
  BY <1>2, <1>6 DEF QueuesSound
<1>9. ASSUME NEW c \in Live("REQUEST")' \cup Live("COOKIE")', obj'[c].state = "PENDING"
      PROVE  \E o \in Obj : c \in Range(incoming'[o])
  <2>1. CASE c = New
    BY <1>6, <2>1
  <2>2. CASE c # New
    <3>1. c \in Live("REQUEST") \cup Live("COOKIE") /\ obj[c].state = "PENDING"
      BY <1>9, <2>2 DEF Live
    <3> QED BY <1>6, <3>1 DEF QueuesSound
  <2> QED BY <2>1, <2>2
<1> QED BY <1>5, <1>7, <1>8, <1>9 DEF QueuesSound

(* A step that concerns no cookie. *)
LEMMA CookiesKept ==
  ASSUME CookiesSound, upc' = upc,
         \A s \in Obj : /\ s \in Live("PORT_COOKIE")' <=> s \in Live("PORT_COOKIE")
                        /\ s \in Live("PORT_COOKIE") => obj'[s].data = obj[s].data,
         \A d \in Obj : obj[d].kind = "COOKIE" \/ obj'[d].kind = "COOKIE" =>
                          /\ obj'[d].kind = obj[d].kind /\ obj'[d].live = obj[d].live
                          /\ obj'[d].state = obj[d].state
  PROVE  CookiesSound'
<1>1. \A d \in Obj : Accepted(d)' <=> Accepted(d)
  BY DEF Accepted, Live
<1>2. \A d \in Obj : Answerers(d)' = Answerers(d)
  BY DEF Answerers, Live
<1>3. \A s \in Live("PORT_COOKIE")' :
        obj'[s].data \in Obj /\ upc'[obj'[s].data].live /\ ~upc'[obj'[s].data].response
  BY DEF CookiesSound, Live
<1>4. \A s, u \in Live("PORT_COOKIE")' : obj'[s].data = obj'[u].data => s = u
  BY DEF CookiesSound, Live
<1>5. \A d \in Obj : Accepted(d)' => /\ upc'[d].live /\ upc'[d].client = d
                                     /\ ~upc'[d].response => Answerers(d)' # {}
  BY <1>1, <1>2 DEF CookiesSound
<1>6. \A d \in Obj : upc'[d].live =>
        /\ obj'[d].kind = "COOKIE"
        /\ obj'[d].live => obj'[d].state = "ESTABLISHED"
        /\ ~obj'[d].live => upc'[d].client = Null /\ Answerers(d)' # {}
  BY <1>2 DEF CookiesSound
<1>7. \A d \in Obj : ~upc'[d].live => upc'[d] = NoCookie
  BY DEF CookiesSound
<1> QED BY <1>3, <1>4, <1>5, <1>6, <1>7 DEF CookiesSound

(* A step that moves no message: the object r it frees is in no queue. *)
LEMMA QueuesKept ==
  ASSUME TypeInv, QueuesSound, NEW r \in Obj, incoming' = incoming,
         obj[r].kind \notin {"PORT", "PORT_REQ"} \/ incoming[r] = <<>>,
         obj[r].kind \in ClientKind => obj[r].state # "PENDING",
         \A o \in Obj \ {r} :
            /\ obj'[o].live = obj[o].live /\ obj'[o].kind = obj[o].kind
            /\ obj[o].state = "PENDING" <=> obj'[o].state = "PENDING",
         ~obj'[r].live
  PROVE  QueuesSound'
<1>1. \A o \in Obj : Range(incoming[o]) \subseteq Obj
  BY DEF Range, TypeInv, TypeOK
<1>2. ASSUME NEW o \in Obj, NEW c \in Range(incoming[o])
      PROVE  /\ obj'[c].live /\ obj'[c].state = "PENDING"
             /\ \/ o \in Live("PORT")' /\ obj'[c].kind = "REQUEST"
                \/ o \in Live("PORT_REQ")' /\ obj'[c].kind = "COOKIE"
  <2>1. /\ obj[c].live /\ obj[c].state = "PENDING"
        /\ \/ o \in Live("PORT") /\ obj[c].kind = "REQUEST"
           \/ o \in Live("PORT_REQ") /\ obj[c].kind = "COOKIE"
    BY <1>2 DEF QueuesSound
  <2>2. c # r /\ c \in Obj
    BY <1>1, <2>1 DEF ClientKind
  <2>3. o # r
    <3>1. incoming[o] # <<>>
      BY <1>2 DEF Range
    <3> QED BY <2>1, <3>1 DEF Live
  <2> QED BY <2>1, <2>2, <2>3 DEF Live
<1>3. ASSUME NEW c \in Live("REQUEST")' \cup Live("COOKIE")', obj'[c].state = "PENDING"
      PROVE  \E o \in Obj : c \in Range(incoming'[o])
  BY <1>3 DEF QueuesSound, Live
<1> QED BY <1>2, <1>3 DEF QueuesSound

(* A step that frees the object r, neither a connection nor the server's end *)
(* of one.                                                                   *)
LEMMA ConnectionsKept ==
  ASSUME TypeInv, ConnectionsLinked, NEW r \in Obj, clients' = clients,
         obj[r].kind \notin {"REQUEST", "PORT_REQ"}, ~obj'[r].live,
         \A o \in Obj \ {r} :
            /\ obj'[o].live = obj[o].live /\ obj'[o].kind = obj[o].kind
            /\ obj'[o].data = obj[o].data
            /\ obj[o].kind = "REQUEST" =>
                 (obj'[o].state = "ESTABLISHED" <=> obj[o].state = "ESTABLISHED")
  PROVE  ConnectionsLinked'
<1>1. ASSUME NEW x \in Live("REQUEST")', obj'[x].state = "ESTABLISHED"
      PROVE  obj'[x].data \in Live("PORT_REQ")' /\ x \in clients'[obj'[x].data]
  <2>1. x \in Obj /\ x # r /\ x \in Live("REQUEST") /\ obj[x].state = "ESTABLISHED"
    BY <1>1 DEF Live
  <2>2. obj[x].data \in Live("PORT_REQ") /\ x \in clients[obj[x].data]
    BY <2>1 DEF ConnectionsLinked
  <2>3. obj[x].data \in Obj /\ obj[x].data # r
    BY <2>2 DEF Live
  <2> QED BY <2>1, <2>2, <2>3 DEF Live
<1>2. ASSUME NEW s \in Obj, NEW x \in clients'[s]
      PROVE  /\ s \in Live("PORT_REQ")' /\ x \in Live("REQUEST")'
             /\ obj'[x].state = "ESTABLISHED" /\ obj'[x].data = s
  <2>1. /\ s \in Live("PORT_REQ") /\ x \in Live("REQUEST")
        /\ obj[x].state = "ESTABLISHED" /\ obj[x].data = s
    BY <1>2 DEF ConnectionsLinked
  <2>2. s \in Obj \ {r} /\ x \in Obj \ {r}
    BY <2>1 DEF Live
  <2> QED BY <2>1, <2>2 DEF Live
<1> QED BY <1>1, <1>2 DEF ConnectionsLinked

(* The client's end r of a cookie goes, and its cookie with it. *)
LEMMA CookieGone ==
  ASSUME CookiesSound, NEW r \in Obj, obj[r].kind = "COOKIE",
         obj'[r].kind = "COOKIE", ~obj'[r].live,
         \A o \in Obj \ {r} : obj'[o] = obj[o],
         \A o \in Obj \ {r} : upc'[o] = upc[o],
         upc'[r] = NoCookie, ~upc'[r].live,
         Answerers(r) = {}
  PROVE  CookiesSound'
<1>1. \A s \in Obj : /\ s \in Live("PORT_COOKIE")' <=> s \in Live("PORT_COOKIE")
                     /\ s \in Live("PORT_COOKIE") => obj'[s] = obj[s] /\ obj[s].data # r
  BY DEF Live, Answerers
<1>2. \A d \in Obj : Accepted(d)' <=> Accepted(d) /\ d # r
  BY DEF Accepted, Live
<1>3. \A d \in Obj : Answerers(d)' = Answerers(d)
  BY <1>1 DEF Answerers, Live
<1>4. \A s \in Live("PORT_COOKIE")' :
        obj'[s].data \in Obj /\ upc'[obj'[s].data].live /\ ~upc'[obj'[s].data].response
  BY <1>1 DEF CookiesSound, Live
<1>5. \A s, u \in Live("PORT_COOKIE")' : obj'[s].data = obj'[u].data => s = u
  BY <1>1 DEF CookiesSound, Live
<1>6. \A d \in Obj : Accepted(d)' => /\ upc'[d].live /\ upc'[d].client = d
                                     /\ ~upc'[d].response => Answerers(d)' # {}
  BY <1>2, <1>3 DEF CookiesSound
<1>7. \A d \in Obj : upc'[d].live =>
        /\ obj'[d].kind = "COOKIE"
        /\ obj'[d].live => obj'[d].state = "ESTABLISHED"
        /\ ~obj'[d].live => upc'[d].client = Null /\ Answerers(d)' # {}
  BY <1>3 DEF CookiesSound
<1>8. \A d \in Obj : ~upc'[d].live => upc'[d] = NoCookie
  BY DEF CookiesSound
<1> QED BY <1>4, <1>5, <1>6, <1>7, <1>8 DEF CookiesSound

(* The client's end r of a cookie goes before it has been answered. *)
LEMMA CookieAbandoned ==
  ASSUME CookiesSound, NEW r \in Obj, obj[r].kind = "COOKIE",
         obj'[r].kind = "COOKIE", ~obj'[r].live,
         \A o \in Obj \ {r} : obj'[o] = obj[o],
         \A o \in Obj \ {r} : upc'[o] = upc[o],
         upc'[r].live, ~upc'[r].response, upc'[r].client = Null,
         Answerers(r) # {}
  PROVE  CookiesSound'
<1>1. \A s \in Obj : /\ s \in Live("PORT_COOKIE")' <=> s \in Live("PORT_COOKIE")
                     /\ s \in Live("PORT_COOKIE") => obj'[s] = obj[s]
  BY DEF Live
<1>2. \A d \in Obj : Accepted(d)' <=> Accepted(d) /\ d # r
  BY DEF Accepted, Live
<1>3. \A d \in Obj : Answerers(d)' = Answerers(d)
  BY <1>1 DEF Answerers, Live
<1>4. \A s \in Live("PORT_COOKIE")' :
        obj'[s].data \in Obj /\ upc'[obj'[s].data].live /\ ~upc'[obj'[s].data].response
  BY <1>1 DEF CookiesSound, Live
<1>5. \A s, u \in Live("PORT_COOKIE")' : obj'[s].data = obj'[u].data => s = u
  BY <1>1 DEF CookiesSound, Live
<1>6. \A d \in Obj : Accepted(d)' => /\ upc'[d].live /\ upc'[d].client = d
                                     /\ ~upc'[d].response => Answerers(d)' # {}
  BY <1>2, <1>3 DEF CookiesSound
<1>7. \A d \in Obj : upc'[d].live =>
        /\ obj'[d].kind = "COOKIE"
        /\ obj'[d].live => obj'[d].state = "ESTABLISHED"
        /\ ~obj'[d].live => upc'[d].client = Null /\ Answerers(d)' # {}
  BY <1>3 DEF CookiesSound
<1>8. \A d \in Obj : ~upc'[d].live => upc'[d] = NoCookie
  BY DEF CookiesSound
<1> QED BY <1>4, <1>5, <1>6, <1>7, <1>8 DEF CookiesSound

(* The message of the client's end r is taken out of its queue. *)
LEMMA QueuesWithdrawn ==
  ASSUME TypeInv, QueuesSound, NEW r \in Obj, obj[r].kind \in ClientKind,
         \A o \in Obj : incoming'[o] = RemoveFirst(incoming[o], r),
         \A o \in Obj \ {r} : obj'[o] = obj[o],
         ~obj'[r].live
  PROVE  QueuesSound'
<1>1. \A o \in Obj : IsInjective(incoming'[o]) /\ Range(incoming'[o]) = Range(incoming[o]) \ {r}
  BY RemoveDistinct DEF QueuesSound, TypeInv, TypeOK
<1>2. \A o \in Obj : Range(incoming[o]) \subseteq Obj
  BY DEF Range, TypeInv, TypeOK
<1>3. ASSUME NEW o \in Obj, NEW c \in Range(incoming'[o])
      PROVE  /\ obj'[c].live /\ obj'[c].state = "PENDING"
             /\ \/ o \in Live("PORT")' /\ obj'[c].kind = "REQUEST"
                \/ o \in Live("PORT_REQ")' /\ obj'[c].kind = "COOKIE"
  <2>1. c \in Range(incoming[o]) /\ c # r /\ c \in Obj
    BY <1>1, <1>2, <1>3
  <2>2. /\ obj[c].live /\ obj[c].state = "PENDING"
        /\ \/ o \in Live("PORT") /\ obj[c].kind = "REQUEST"
           \/ o \in Live("PORT_REQ") /\ obj[c].kind = "COOKIE"
    BY <2>1 DEF QueuesSound
  <2>3. o # r
    BY <2>2 DEF Live, ClientKind
  <2> QED BY <2>1, <2>2, <2>3 DEF Live
<1>4. \A o, p \in Obj : \A c \in Range(incoming'[o]) : c \in Range(incoming'[p]) => o = p
  BY <1>1 DEF QueuesSound
<1>5. ASSUME NEW c \in Live("REQUEST")' \cup Live("COOKIE")', obj'[c].state = "PENDING"
      PROVE  \E o \in Obj : c \in Range(incoming'[o])
  <2>1. c \in Obj /\ c # r /\ c \in Live("REQUEST") \cup Live("COOKIE")
        /\ obj[c].state = "PENDING"
    BY <1>5 DEF Live
  <2> QED BY <1>1, <2>1 DEF QueuesSound
<1> QED BY <1>1, <1>3, <1>4, <1>5 DEF QueuesSound

\* What LinkInv says of a kernel that has had no fault.
LinkParts ==
  /\ FreshSound /\ DescriptorsSound /\ PortSound /\ ConnectionsLinked
  /\ QueuesSound /\ CookiesSound

(***************************************************************************)
(* While no program makes a mistake, every system call leaves connections, *)
(* queues and cookies as they should be and follows live pointers only.    *)
(* The calls a mistake is needed for (RequestFails, PopRequestFails,       *)
(* closing a pending or closed end) do not happen.                         *)
(***************************************************************************)
LEMMA LinkStep == TypeInv /\ LinkInv /\ [Next]_vars => LinkInv'
<1> SUFFICES ASSUME TypeInv, LinkInv, [Next]_vars PROVE LinkInv'
  OBVIOUS
<1>u. CASE UNCHANGED vars
  BY <1>u DEF vars, LinkInv, Polite, FreshSound, DescriptorsSound, PortSound,
     ConnectionsLinked, QueuesSound, CookiesSound, Live, Answerers, Accepted
<1> SUFFICES ASSUME Next, Polite PROVE fault' = "none" /\ LinkParts'
  BY <1>u DEF LinkInv, LinkParts, Next, Polite
<1>n. trial' = trial /\ fault = "none"
  BY DEF Next
<1>l. LinkParts
  BY DEF LinkInv, LinkParts
<1>m. \A x : x \notin Careless
  BY DEF Polite, Careless
<1>t. /\ obj \in [Obj -> Object] /\ Null \notin Obj /\ used \in Nat
      /\ trial.clients \subseteq Task /\ Server \subseteq Task
      /\ \A t \in Task : fds[t] \subseteq Obj
      /\ incoming \in [Obj -> Seq(Obj)] /\ clients \in [Obj -> SUBSET Obj]
      /\ upc \in [Obj -> Cookie]
  BY UportAssumption DEF TypeInv, TypeOK, Object, Cookie, Task
<1>p. TypeInv'
  BY TypeStep
<1>f. New \in Obj => /\ ~obj[New].live /\ obj[New].kind = "GARBAGE"
                     /\ incoming[New] = <<>> /\ clients[New] = {} /\ upc[New] = NoCookie
  BY <1>l, <1>t DEF LinkParts, FreshSound, New
<1>g. \A o \in Obj : o > New => o > used /\ o # New
  BY <1>t DEF New, Obj
<1>h. \A o \in Obj : obj[o].live => o # New /\ ~(o > used)
  BY <1>l, <1>t DEF LinkParts, FreshSound, New, Obj
<1>1. ASSUME NEW t \in Task, NEW w \in {{}, {1}}, OpenPort(t, w)
      PROVE  fault' = "none" /\ LinkParts'
  <2> DEFINE R == [Request0("PORT", t, "SERVER", Null) EXCEPT !.waited = w]
  <2>1. /\ R \in Object /\ R.owner = t /\ R.kind = "PORT" /\ R.live /\ R.state = "SERVER"
    BY DEF Request0, Object, Kind
  <2>2. /\ Room(t) /\ used' = New /\ uport' = New /\ port' = TRUE /\ ~port
        /\ fds' = [fds EXCEPT ![t] = @ \cup {New}] /\ obj' = [obj EXCEPT ![New] = R]
        /\ incoming' = incoming /\ clients' = clients /\ upc' = upc /\ fault' = fault
    BY <1>1, <1>m DEF OpenPort
  <2> HIDE DEF R
  <2>3. /\ New \in Obj
        /\ \A u \in Task : fds'[u] = IF u = t THEN fds[t] \cup {New} ELSE fds[u]
        /\ \A o \in Obj : obj'[o] = IF o = New THEN R ELSE obj[o]
    BY <2>1, <2>2, CreatedType
  <2>4. FreshSound'
    BY <1>l, <1>g, <2>2, <2>3 DEF LinkParts, FreshSound
  <2>5. DescriptorsSound'
    BY <1>l, <2>1, <2>3, DescriptorsCreated DEF LinkParts, ClientKind, ServerKind
  <2>6. PortSound'
    BY <1>l, <1>t, <2>1, <2>2, <2>3 DEF LinkParts, PortSound, Live
  <2>7. ConnectionsLinked'
    BY <1>l, <1>f, <1>h, <1>t, <2>1, <2>2, <2>3 DEF LinkParts, ConnectionsLinked, Live, Object
  <2>8. QueuesSound'
    BY <1>l, <1>f, <1>h, <1>t, <2>1, <2>2, <2>3 DEF LinkParts, QueuesSound, Live
  <2>9. CookiesSound'
    BY <1>l, <1>f, <1>h, <1>t, <2>1, <2>2, <2>3 DEF LinkParts, CookiesSound, Live, Answerers, Accepted
  <2> QED BY <1>n, <2>2, <2>4, <2>5, <2>6, <2>7, <2>8, <2>9 DEF LinkParts
<1>2. ASSUME NEW t \in Task, PortConnect(t)
      PROVE  fault' = "none" /\ LinkParts'
  <2> DEFINE R == Request0("REQUEST", t, "PENDING", Null)
             q == incoming[uport]
  <2>1. /\ R \in Object /\ R.owner = t /\ R.kind = "REQUEST" /\ R.live /\ R.state = "PENDING"
    BY RequestType DEF Kind
  <2>2. /\ Room(t) /\ used' = New /\ port /\ uport' = uport /\ port' = port
        /\ fds' = [fds EXCEPT ![t] = @ \cup {New}] /\ obj' = [obj EXCEPT ![New] = R]
        /\ clients' = clients /\ upc' = upc
    BY <1>2 DEF PortConnect
  <2>u. /\ uport \in Obj /\ obj[uport].live /\ obj[uport].kind = "PORT"
    BY <1>l, <2>2 DEF LinkParts, PortSound, Live, TypeInv, TypeOK
  <2>v. /\ incoming' = [incoming EXCEPT ![uport] = Append(@, New)] /\ fault' = fault
    BY <1>2, <1>t, <2>u DEF PortConnect
  <2> HIDE DEF R
  <2>3. /\ New \in Obj
        /\ \A u \in Task : fds'[u] = IF u = t THEN fds[t] \cup {New} ELSE fds[u]
        /\ \A o \in Obj : obj'[o] = IF o = New THEN R ELSE obj[o]
    BY <2>1, <2>2, CreatedType
  <2>4. \A o \in Obj : incoming'[o] = IF o = uport THEN Append(q, New) ELSE incoming[o]
    BY <1>t, <2>v
  <2>5. uport # New /\ ~(uport > used)
    BY <1>h, <2>u
  <2>6. FreshSound'
    BY <1>l, <1>g, <2>2, <2>3, <2>4, <2>5 DEF LinkParts, FreshSound
  <2>7. DescriptorsSound'
    BY <1>l, <2>1, <2>3, DescriptorsCreated DEF LinkParts, ClientKind, ServerKind
  <2>8. PortSound'
    BY <1>l, <1>t, <1>f, <2>1, <2>2, <2>3 DEF LinkParts, PortSound, Live
  <2>9. ConnectionsLinked'
    BY <1>l, <1>f, <1>h, <1>t, <2>1, <2>2, <2>3 DEF LinkParts, ConnectionsLinked, Live, Object
  <2>10. CookiesSound'
    BY <1>l, <1>f, <1>h, <1>t, <2>1, <2>2, <2>3 DEF LinkParts, CookiesSound, Live, Answerers, Accepted
  <2>11. QueuesSound'
    BY <1>l, <2>1, <2>3, <2>4, <2>u, QueuesAppended DEF LinkParts
  <2> QED BY <1>n, <2>v, <2>6, <2>7, <2>8, <2>9, <2>10, <2>11 DEF LinkParts
<1>3. ASSUME NEW t \in Task, NEW r \in fds[t], Request(t, r)
      PROVE  fault' = "none" /\ LinkParts'
  <2> DEFINE R == Request0("COOKIE", t, "PENDING", Null)
             s == obj[r].data
             q == incoming[s]
  <2>1. /\ R \in Object /\ R.owner = t /\ R.kind = "COOKIE" /\ R.live /\ R.state = "PENDING"
    BY RequestType DEF Kind
  <2>2. /\ Room(t) /\ used' = New /\ uport' = uport /\ port' = port
        /\ fds' = [fds EXCEPT ![t] = @ \cup {New}] /\ obj' = [obj EXCEPT ![New] = R]
        /\ clients' = clients /\ upc' = upc
        /\ incoming' = [incoming EXCEPT ![s] = Append(@, New)]
        /\ fault' = IF obj[s].live THEN "none" ELSE "dangling"
        /\ obj[r].live /\ obj[r].kind = "REQUEST" /\ obj[r].state = "ESTABLISHED"
    BY <1>3 DEF Request, Calls
  <2>u. /\ s \in Obj /\ obj[s].live /\ obj[s].kind = "PORT_REQ"
    BY <1>l, <1>t, <2>2 DEF LinkParts, ConnectionsLinked, Live
  <2> HIDE DEF R, s
  <2>3. /\ New \in Obj
        /\ \A u \in Task : fds'[u] = IF u = t THEN fds[t] \cup {New} ELSE fds[u]
        /\ \A o \in Obj : obj'[o] = IF o = New THEN R ELSE obj[o]
    BY <2>1, <2>2, CreatedType
  <2>4. \A o \in Obj : incoming'[o] = IF o = s THEN Append(q, New) ELSE incoming[o]
    BY <1>t, <2>2
  <2>5. s # New /\ ~(s > used)
    BY <1>h, <2>u
  <2>6. FreshSound'
    BY <1>l, <1>g, <2>2, <2>3, <2>4, <2>5 DEF LinkParts, FreshSound
  <2>7. DescriptorsSound'
    BY <1>l, <2>1, <2>3, DescriptorsCreated DEF LinkParts, ClientKind, ServerKind
  <2>8. PortSound'
    BY <1>l, <1>t, <1>f, <2>1, <2>2, <2>3 DEF LinkParts, PortSound, Live
  <2>9. ConnectionsLinked'
    BY <1>l, <1>f, <1>h, <1>t, <2>1, <2>2, <2>3 DEF LinkParts, ConnectionsLinked, Live, Object
  <2>10. CookiesSound'
    BY <1>l, <1>f, <1>h, <1>t, <2>1, <2>2, <2>3 DEF LinkParts, CookiesSound, Live, Answerers, Accepted
  <2>11. QueuesSound'
    BY <1>l, <2>1, <2>3, <2>4, <2>u, QueuesAppended DEF LinkParts
  <2> QED BY <2>2, <2>u, <2>6, <2>7, <2>8, <2>9, <2>10, <2>11 DEF LinkParts
<1>5. ASSUME NEW t \in Task, NEW r \in fds[t], PopRequest(t, r)
      PROVE  fault' = "none" /\ LinkParts'
  <2>a. PICK c : c = Popped(r)
    OBVIOUS
  <2>b. PICK conn \in BOOLEAN : conn = Connects(r)
    BY DEF Connects
  <2>0. /\ used' = New /\ uport' = uport /\ port' = port
        /\ fault' = IF obj[c].live THEN "none" ELSE "dangling"
        /\ r \in Obj /\ obj[r].live /\ obj[r].kind \in {"PORT", "PORT_REQ"}
        /\ incoming[r] # <<>>
    BY <1>5, <1>t, <2>a DEF PopRequest, Calls, Popped
  <2>p. PopEffect(t, r)
    BY <1>5, <1>n, <2>0, PopRequestType
  <2>k. conn <=> obj[r].kind = "PORT"
    BY <2>b DEF Connects
  <2>q. /\ incoming[r] \in Seq(Obj) /\ IsInjective(incoming[r])
        /\ c \in Range(incoming[r])
        /\ IsInjective(Tail(incoming[r]))
        /\ Range(Tail(incoming[r])) = Range(incoming[r]) \ {c}
    <3>1. incoming[r] \in Seq(Obj) /\ IsInjective(incoming[r])
      BY <1>l, <1>t, <2>0 DEF LinkParts, QueuesSound
    <3> QED BY <2>0, <2>a, <3>1, TailDistinct DEF Popped
  <2>c. /\ c \in Obj /\ obj[c].live /\ obj[c].state = "PENDING" /\ c # New /\ ~(c > used)
        /\ obj[c].kind = IF conn THEN "REQUEST" ELSE "COOKIE"
    <3>1. /\ obj[c].live /\ obj[c].state = "PENDING"
          /\ \/ obj[r].kind = "PORT" /\ obj[c].kind = "REQUEST"
             \/ obj[r].kind = "PORT_REQ" /\ obj[c].kind = "COOKIE"
      BY <1>l, <2>0, <2>q DEF LinkParts, QueuesSound, Live
    <3>2. c \in Obj
      BY <2>a, <2>p DEF PopEffect
    <3> QED BY <1>h, <2>k, <3>1, <3>2
  <2>s. PICK R : R = IF conn THEN Request0("PORT_REQ", t, "SERVER", Null)
                     ELSE Request0("PORT_COOKIE", t, "SERVER", c)
    OBVIOUS
  <2>r. /\ R \in Object /\ R.owner = t /\ R.live /\ R.state = "SERVER"
        /\ R.kind = IF conn THEN "PORT_REQ" ELSE "PORT_COOKIE"
        /\ ~conn => R.data = c
    BY <2>c, <2>s, RequestType DEF Kind
  <2>1. /\ New \in Obj
        /\ \A u \in Task : fds'[u] = IF u = t THEN fds[t] \cup {New} ELSE fds[u]
        /\ \A o \in Obj \ {c, New} : obj'[o] = obj[o]
        /\ obj'[New] = R
        /\ obj'[c].state = "ESTABLISHED" /\ obj'[c].data = IF conn THEN New ELSE c
        /\ obj'[c].kind = obj[c].kind /\ obj'[c].live = obj[c].live
        /\ obj'[c].owner = obj[c].owner
        /\ \A o \in Obj : incoming'[o] = IF o = r THEN Tail(incoming[r]) ELSE incoming[o]
        /\ \A o \in Obj : clients'[o] = IF o # New THEN clients[o] ELSE IF conn THEN {c} ELSE {}
        /\ conn => upc' = upc
        /\ ~conn => \A o \in Obj : upc'[o] =
             IF o = c THEN [live |-> TRUE, client |-> o, response |-> FALSE] ELSE upc[o]
    BY <2>a, <2>b, <2>c, <2>p, <2>s DEF PopEffect
  <2>2. r # New /\ ~(r > used)
    BY <1>h, <2>0
  <2>3. FreshSound'
    <3>1. \A o \in Obj : o > New => /\ obj'[o] = obj[o] /\ incoming'[o] = incoming[o]
                                    /\ clients'[o] = clients[o] /\ upc'[o] = upc[o]
      BY <1>g, <2>1, <2>2, <2>c
    <3> QED BY <1>l, <1>g, <2>0, <3>1 DEF LinkParts, FreshSound
  <2>4. DescriptorsSound'
    <3>1. \A o \in Obj : /\ o # New => /\ obj'[o].live = obj[o].live
                                       /\ obj'[o].owner = obj[o].owner
                                       /\ obj'[o].kind = obj[o].kind
                                       /\ obj'[o].state # obj[o].state =>
                                            obj'[o].state # "SERVER" /\ obj[o].kind \in ClientKind
                         /\ o = New => obj'[o] = R
      BY <2>1, <2>c DEF ClientKind
    <3> QED BY <1>l, <2>1, <2>r, <3>1, DescriptorsCreated DEF LinkParts, ClientKind, ServerKind
  <2>5. PortSound'
    <3>1. \A o \in Obj : o \in Live("PORT")' <=> o \in Live("PORT")
      BY <1>f, <2>1, <2>c, <2>r DEF Live
    <3> QED BY <1>l, <2>0, <3>1 DEF LinkParts, PortSound
  <2>6. ConnectionsLinked'
    <3>1. ASSUME NEW s \in Obj, obj'[s].live, obj'[s].kind = "REQUEST",
                 obj'[s].state = "ESTABLISHED"
          PROVE  obj'[s].data \in Live("PORT_REQ")' /\ s \in clients'[obj'[s].data]
      <4>1. s # New
        BY <2>1, <2>r, <3>1
      <4>2. CASE s = c
        BY <2>1, <2>c, <2>r, <3>1, <4>2 DEF Live
      <4>3. CASE s # c
        <5>1. /\ obj'[s] = obj[s] /\ obj[s].data \in Live("PORT_REQ")
              /\ s \in clients[obj[s].data]
          BY <1>l, <2>1, <3>1, <4>1, <4>3 DEF LinkParts, ConnectionsLinked, Live
        <5>2. obj[s].data \in Obj \ {c, New}
          BY <1>h, <2>c, <5>1 DEF Live
        <5> QED BY <2>1, <5>1, <5>2 DEF Live
      <4> QED BY <4>2, <4>3
    <3>2. ASSUME NEW s \in Obj, NEW d \in clients'[s]
          PROVE  /\ s \in Live("PORT_REQ")' /\ d \in Live("REQUEST")'
                 /\ obj'[d].state = "ESTABLISHED" /\ obj'[d].data = s
      <4>1. CASE s = New
        <5>1. conn /\ d = c
          BY <2>1, <3>2, <4>1
        <5> QED BY <2>1, <2>c, <2>r, <4>1, <5>1 DEF Live
      <4>2. CASE s # New
        <5>1. /\ s \in Live("PORT_REQ") /\ d \in Live("REQUEST")
              /\ obj[d].state = "ESTABLISHED" /\ obj[d].data = s
          BY <1>l, <2>1, <3>2, <4>2 DEF LinkParts, ConnectionsLinked
        <5>2. d \in Obj \ {c, New} /\ s \in Obj \ {c, New}
          BY <1>h, <2>c, <4>2, <5>1 DEF Live
        <5> QED BY <2>1, <5>1, <5>2 DEF Live
      <4> QED BY <4>1, <4>2
    <3> QED BY <3>1, <3>2 DEF ConnectionsLinked, Live
  <2>7. QueuesSound'
    <3>1. \A o \in Obj : IsInjective(incoming'[o])
      BY <1>l, <2>1, <2>q DEF LinkParts, QueuesSound
    <3>2. \A o \in Obj : \A d : d \in Range(incoming'[o]) <=>
                                  d \in Range(incoming[o]) /\ ~(o = r /\ d = c)
      BY <2>1, <2>q
    <3>3. \A o \in Obj : c \in Range(incoming[o]) => o = r
      BY <1>l, <2>0, <2>q DEF LinkParts, QueuesSound
    <3>4. ASSUME NEW o \in Obj, NEW d \in Range(incoming'[o])
          PROVE  /\ obj'[d].live /\ obj'[d].state = "PENDING"
                 /\ \/ o \in Live("PORT")' /\ obj'[d].kind = "REQUEST"
                    \/ o \in Live("PORT_REQ")' /\ obj'[d].kind = "COOKIE"
      <4>1. d \in Range(incoming[o]) /\ d # c /\ d \in Obj
        <5>1. Range(incoming[o]) \subseteq Obj
          BY <1>t DEF Range
        <5> QED BY <3>2, <3>3, <3>4, <5>1
      <4>2. /\ obj[d].live /\ obj[d].state = "PENDING"
            /\ \/ o \in Live("PORT") /\ obj[d].kind = "REQUEST"
               \/ o \in Live("PORT_REQ") /\ obj[d].kind = "COOKIE"
        BY <1>l, <4>1 DEF LinkParts, QueuesSound
      <4>3. obj'[d] = obj[d]
        BY <1>h, <2>1, <4>1, <4>2
      <4>4. o \in Obj \ {c, New}
        BY <1>h, <2>c, <4>2 DEF Live
      <4> QED BY <2>1, <4>2, <4>3, <4>4 DEF Live
    <3>5. \A o, p \in Obj : \A d \in Range(incoming'[o]) : d \in Range(incoming'[p]) => o = p
      BY <1>l, <3>2 DEF LinkParts, QueuesSound
    <3>6. ASSUME NEW d \in Live("REQUEST")' \cup Live("COOKIE")', obj'[d].state = "PENDING"
          PROVE  \E o \in Obj : d \in Range(incoming'[o])
      <4>1. d \in Obj /\ d # New /\ d # c
        BY <2>1, <2>r, <3>6 DEF Live
      <4>2. d \in Live("REQUEST") \cup Live("COOKIE") /\ obj[d].state = "PENDING"
        BY <2>1, <3>6, <4>1 DEF Live
      <4> QED BY <1>l, <3>2, <4>1, <4>2 DEF LinkParts, QueuesSound
    <3> QED BY <3>1, <3>4, <3>5, <3>6 DEF QueuesSound
  <2>8. CookiesSound'
    <3>1. CASE conn
      <4>1. \A s \in Obj : /\ s \in Live("PORT_COOKIE")' <=> s \in Live("PORT_COOKIE")
                           /\ s \in Live("PORT_COOKIE") => obj'[s] = obj[s]
        BY <1>h, <2>1, <2>c, <2>r, <3>1 DEF Live
      <4>2. \A d \in Obj : obj[d].kind = "COOKIE" \/ obj'[d].kind = "COOKIE" =>
                             obj'[d] = obj[d]
        BY <1>f, <2>1, <2>c, <2>r, <3>1
      <4> QED BY <1>l, <2>1, <3>1, <4>1, <4>2, CookiesKept DEF LinkParts
    <3>2. CASE ~conn
      <4>0. /\ ~upc[c].live
            /\ upc'[c].live /\ upc'[c].client = c /\ ~upc'[c].response
        <5>1. upc'[c] = [live |-> TRUE, client |-> c, response |-> FALSE]
          BY <2>1, <2>c, <3>2
        <5>2. ~upc[c].live
          BY <1>l, <2>c DEF LinkParts, CookiesSound
        <5> QED BY <5>1, <5>2
      <4>1. \A s \in Obj : /\ s \in Live("PORT_COOKIE")' <=> s \in Live("PORT_COOKIE") \cup {New}
                           /\ s \in Live("PORT_COOKIE") => obj'[s] = obj[s] /\ obj[s].data # c
        <5>1. \A s \in Live("PORT_COOKIE") : obj[s].data # c
          BY <1>l, <4>0 DEF LinkParts, CookiesSound
        <5> QED BY <1>h, <2>1, <2>c, <2>r, <3>2, <5>1 DEF Live
      <4>2. obj'[New].data = c
        BY <2>1, <2>r, <3>2
      <4>3. \A d \in Obj \ {c} : /\ upc'[d] = upc[d]
                                 /\ Accepted(d)' <=> Accepted(d)
                                 /\ Answerers(d)' = Answerers(d)
                                 /\ d # New => obj'[d] = obj[d]
        <5>1. \A d \in Obj \ {c} : upc'[d] = upc[d] /\ (d # New => obj'[d] = obj[d])
          BY <2>1, <3>2
        <5>2. \A d \in Obj \ {c} : Accepted(d)' <=> Accepted(d)
          BY <1>f, <2>1, <2>r, <3>2, <5>1 DEF Accepted, Live
        <5>3. \A d \in Obj \ {c} : Answerers(d)' = Answerers(d)
          BY <4>1, <4>2 DEF Answerers, Live
        <5> QED BY <5>1, <5>2, <5>3
      <4>4. New \in Answerers(c)'
        BY <2>1, <4>1, <4>2 DEF Answerers
      <4>5. \A s \in Live("PORT_COOKIE")' :
              obj'[s].data \in Obj /\ upc'[obj'[s].data].live /\ ~upc'[obj'[s].data].response
        BY <1>l, <2>c, <4>0, <4>1, <4>2, <4>3 DEF LinkParts, CookiesSound, Live
      <4>6. \A s, u \in Live("PORT_COOKIE")' : obj'[s].data = obj'[u].data => s = u
        BY <1>l, <4>1, <4>2 DEF LinkParts, CookiesSound, Live
      <4>7. \A d \in Obj : Accepted(d)' =>
              /\ upc'[d].live /\ upc'[d].client = d
              /\ ~upc'[d].response => Answerers(d)' # {}
        BY <1>l, <4>0, <4>3, <4>4 DEF LinkParts, CookiesSound
      <4>8. ASSUME NEW d \in Obj, upc'[d].live
            PROVE  /\ obj'[d].kind = "COOKIE"
                   /\ obj'[d].live => obj'[d].state = "ESTABLISHED"
                   /\ ~obj'[d].live => upc'[d].client = Null /\ Answerers(d)' # {}
        <5>1. CASE d = c
          BY <2>1, <2>c, <3>2, <5>1
        <5>2. CASE d # c
          <6>1. upc[d].live /\ d # New
            <7>1. ~NoCookie.live
              BY CookieType
            <7> QED BY <1>f, <4>3, <4>8, <5>2, <7>1
          <6> QED BY <1>l, <4>3, <5>2, <6>1 DEF LinkParts, CookiesSound
        <5> QED BY <5>1, <5>2
      <4>9. \A d \in Obj : ~upc'[d].live => upc'[d] = NoCookie
        BY <1>l, <4>0, <4>3 DEF LinkParts, CookiesSound
      <4> QED BY <4>5, <4>6, <4>7, <4>8, <4>9 DEF CookiesSound
    <3> QED BY <3>1, <3>2
  <2> QED BY <2>0, <2>c, <2>3, <2>4, <2>5, <2>6, <2>7, <2>8 DEF LinkParts
<1>7. ASSUME NEW t \in Task, NEW r \in fds[t], Respond(t, r)
      PROVE  fault' = "none" /\ LinkParts'
  <2>a. PICK c : c = obj[r].data
    OBVIOUS
  <2>0. /\ UNCHANGED <<used, uport, port, incoming, clients>>
        /\ r \in Obj /\ obj[r].live /\ obj[r].kind = "PORT_COOKIE"
        /\ upc[c].client # Null
        /\ upc' = [upc EXCEPT ![c].response = TRUE]
        /\ fault' = IF obj[upc[c].client].live THEN "none" ELSE "dangling"
        /\ Dropped(t, r, obj)
    BY <1>7, <1>t, <2>a DEF Respond, Calls, Dropped
  <2>1. /\ \A u \in Task : fds'[u] = IF u = t THEN fds[t] \ {r} ELSE fds[u]
        /\ \A o \in Obj \ {r} : obj'[o] = obj[o]
        /\ obj'[r].kind = "PORT_COOKIE" /\ ~obj'[r].live
    BY <1>t, <2>0, DroppedType, ZenonT(60) DEF Dropped
  <2>c. /\ c \in Obj /\ c # r /\ obj[c].live /\ Accepted(c) /\ upc[c].client = c
        /\ upc[c].live /\ ~upc[c].response
    <3>1. c \in Obj /\ upc[c].live /\ ~upc[c].response
      BY <1>l, <2>0, <2>a DEF LinkParts, CookiesSound, Live
    <3>2. obj[c].kind = "COOKIE" /\ obj[c].live /\ obj[c].state = "ESTABLISHED"
      BY <1>l, <2>0, <3>1 DEF LinkParts, CookiesSound
    <3> QED BY <1>l, <2>0, <3>1, <3>2 DEF LinkParts, CookiesSound, Accepted, Live
  <2>2. /\ \A o \in Obj \ {c} : upc'[o] = upc[o]
        /\ upc'[c].response /\ upc'[c].live /\ upc'[c].client = c
    <3>1. \A o \in Obj : o # c => upc'[o] = upc[o]
      BY <2>0, <2>c, CookieType
    <3>2. upc'[c].response /\ upc'[c].live = upc[c].live /\ upc'[c].client = upc[c].client
      BY <2>0, <2>c, CookieType
    <3> QED BY <2>c, <3>1, <3>2
  <2>3. FreshSound'
    BY <1>l, <1>h, <2>0, <2>1, <2>2, <2>c DEF LinkParts, FreshSound
  <2>4. DescriptorsSound'
    BY <1>l, <2>1, DescriptorsDropped DEF LinkParts
  <2>5. PortSound'
    BY <1>l, <2>0, <2>1 DEF LinkParts, PortSound, Live
  <2>6. ConnectionsLinked'
    BY <1>l, <2>0, <2>1, ConnectionsKept DEF LinkParts
  <2>7. QueuesSound'
    BY <1>l, <2>0, <2>1, QueuesKept DEF LinkParts, ClientKind
  <2>8. CookiesSound'
    <3>1. \A s \in Obj : /\ s \in Live("PORT_COOKIE")' <=> s \in Live("PORT_COOKIE") \ {r}
                         /\ s \in Live("PORT_COOKIE") \ {r} =>
                              obj'[s] = obj[s] /\ obj[s].data # c
      BY <1>l, <2>0, <2>1, <2>a DEF LinkParts, CookiesSound, Live
    <3>2. \A d \in Obj : Accepted(d)' <=> Accepted(d)
      BY <2>0, <2>1 DEF Accepted, Live
    <3>3. \A d \in Obj \ {c} : Answerers(d)' = Answerers(d)
      BY <2>0, <2>1, <2>a DEF Answerers, Live
    <3>4. \A s \in Live("PORT_COOKIE")' :
            obj'[s].data \in Obj /\ upc'[obj'[s].data].live /\ ~upc'[obj'[s].data].response
      BY <1>l, <2>2, <3>1 DEF LinkParts, CookiesSound, Live
    <3>5. \A s, u \in Live("PORT_COOKIE")' : obj'[s].data = obj'[u].data => s = u
      BY <1>l, <3>1 DEF LinkParts, CookiesSound, Live
    <3>6. \A d \in Obj : Accepted(d)' => /\ upc'[d].live /\ upc'[d].client = d
                                         /\ ~upc'[d].response => Answerers(d)' # {}
      BY <1>l, <2>2, <2>c, <3>2, <3>3 DEF LinkParts, CookiesSound
    <3>7. ASSUME NEW d \in Obj, upc'[d].live
          PROVE  /\ obj'[d].kind = "COOKIE"
                 /\ obj'[d].live => obj'[d].state = "ESTABLISHED"
                 /\ ~obj'[d].live => upc'[d].client = Null /\ Answerers(d)' # {}
      <4>1. upc[d].live
        BY <2>2, <2>c, <3>7
      <4>2. d # r
        BY <1>l, <2>0, <4>1 DEF LinkParts, CookiesSound
      <4> QED BY <1>l, <2>1, <2>2, <2>c, <3>3, <4>1, <4>2 DEF LinkParts, CookiesSound
    <3>8. \A d \in Obj : ~upc'[d].live => upc'[d] = NoCookie
      BY <1>l, <2>2 DEF LinkParts, CookiesSound
    <3> QED BY <3>4, <3>5, <3>6, <3>7, <3>8 DEF CookiesSound
  <2> QED BY <2>0, <2>c, <2>3, <2>4, <2>5, <2>6, <2>7, <2>8 DEF LinkParts
<1>8. ASSUME NEW t \in Task, NEW r \in fds[t], GetResponse(t, r)
      PROVE  fault' = "none" /\ LinkParts'
  <2>0. /\ UNCHANGED <<used, uport, port, incoming, clients, fault>>
        /\ r \in Obj /\ obj[r].live /\ obj[r].kind = "COOKIE"
        /\ \/ obj[r].state = "CLOSED" /\ upc' = upc
           \/ /\ obj[r].state = "ESTABLISHED" /\ upc[r].response
              /\ upc' = [upc EXCEPT ![r] = NoCookie]
        /\ Dropped(t, r, obj)
    BY <1>8, <1>t DEF GetResponse, Calls, Dropped
  <2>1. /\ \A u \in Task : fds'[u] = IF u = t THEN fds[t] \ {r} ELSE fds[u]
        /\ \A o \in Obj \ {r} : obj'[o] = obj[o]
        /\ obj'[r].kind = "COOKIE" /\ ~obj'[r].live
    BY <1>t, <2>0, DroppedType, ZenonT(60) DEF Dropped
  <2>2. /\ \A o \in Obj \ {r} : upc'[o] = upc[o]
        /\ upc'[r] = NoCookie /\ ~upc'[r].live
    <3>1. obj[r].state = "CLOSED" => ~upc[r].live /\ upc[r] = NoCookie
      BY <1>l, <2>0 DEF LinkParts, CookiesSound
    <3>2. ~NoCookie.live
      BY CookieType
    <3> QED BY <2>0, <3>1, <3>2, CookieType
  <2>c. Answerers(r) = {}
    <3>1. \A s \in Live("PORT_COOKIE") : obj[s].data = r => FALSE
      BY <1>l, <2>0 DEF LinkParts, CookiesSound
    <3> QED BY <3>1 DEF Answerers
  <2>3. FreshSound'
    BY <1>l, <1>h, <2>0, <2>1, <2>2 DEF LinkParts, FreshSound
  <2>4. DescriptorsSound'
    BY <1>l, <2>1, DescriptorsDropped DEF LinkParts
  <2>5. PortSound'
    BY <1>l, <2>0, <2>1 DEF LinkParts, PortSound, Live
  <2>6. ConnectionsLinked'
    BY <1>l, <2>0, <2>1, ConnectionsKept DEF LinkParts
  <2>7. QueuesSound'
    BY <1>l, <2>0, <2>1, QueuesKept DEF LinkParts, ClientKind
  <2>8. CookiesSound'
    BY <1>l, <2>0, <2>1, <2>2, <2>c, CookieGone DEF LinkParts
  <2> QED BY <1>n, <2>0, <2>3, <2>4, <2>5, <2>6, <2>7, <2>8 DEF LinkParts
<1>9. ASSUME NEW t \in Task, NEW v \in Task, NEW r \in fds[t], Dup(t, v, r)
      PROVE  fault' = "none" /\ LinkParts'
  <2>a. PICK s : s = obj[r].data
    OBVIOUS
  <2>b. PICK R : R = Request0("REQUEST", v, "ESTABLISHED", s)
    OBVIOUS
  <2>0. /\ Room(v) /\ used' = New /\ r \in Obj
        /\ UNCHANGED <<uport, port, incoming, upc, fault>>
        /\ obj[r].live /\ obj[r].kind = "REQUEST" /\ obj[r].state = "ESTABLISHED"
        /\ fds' = [fds EXCEPT ![v] = @ \cup {New}] /\ obj' = [obj EXCEPT ![New] = R]
        /\ clients' = [clients EXCEPT ![s] = @ \cup {New}]
    BY <1>9, <1>t, <2>a, <2>b DEF Dup, Calls
  <2>s. s \in Obj /\ obj[s].live /\ obj[s].kind = "PORT_REQ" /\ s # New /\ ~(s > used)
    BY <1>l, <1>h, <2>0, <2>a DEF LinkParts, ConnectionsLinked, Live
  <2>1. /\ R \in Object /\ R.owner = v /\ R.kind = "REQUEST" /\ R.live
        /\ R.state = "ESTABLISHED" /\ R.data = s
    BY <2>b, <2>s, RequestType DEF Kind
  <2>3. /\ New \in Obj
        /\ \A u \in Task : fds'[u] = IF u = v THEN fds[v] \cup {New} ELSE fds[u]
        /\ \A o \in Obj : obj'[o] = IF o = New THEN R ELSE obj[o]
    BY <2>0, <2>1, CreatedType
  <2>4. \A o \in Obj : clients'[o] = IF o = s THEN clients[o] \cup {New} ELSE clients[o]
    BY <1>t, <2>0
  <2>5. FreshSound'
    BY <1>l, <1>g, <2>0, <2>3, <2>4, <2>s DEF LinkParts, FreshSound
  <2>6. DescriptorsSound'
    BY <1>l, <2>1, <2>3, DescriptorsCreated DEF LinkParts, ClientKind, ServerKind
  <2>7. PortSound'
    BY <1>l, <1>t, <1>f, <2>0, <2>1, <2>3 DEF LinkParts, PortSound, Live
  <2>8. ConnectionsLinked'
    <3>1. ASSUME NEW x \in Obj, obj'[x].live, obj'[x].kind = "REQUEST",
                 obj'[x].state = "ESTABLISHED"
          PROVE  obj'[x].data \in Live("PORT_REQ")' /\ x \in clients'[obj'[x].data]
      <4>1. CASE x = New
        <5>1. obj'[x].data = s /\ obj'[s] = obj[s] /\ New \in clients'[s]
          BY <2>1, <2>3, <2>4, <2>s, <4>1
        <5> QED BY <2>s, <4>1, <5>1 DEF Live
      <4>2. CASE x # New
        <5>1. /\ obj'[x] = obj[x] /\ obj[x].data \in Live("PORT_REQ")
              /\ x \in clients[obj[x].data]
          BY <1>l, <2>3, <3>1, <4>2 DEF LinkParts, ConnectionsLinked, Live
        <5> QED BY <1>h, <2>3, <2>4, <5>1, ZenonT(60) DEF Live
      <4> QED BY <4>1, <4>2
    <3>2. ASSUME NEW x \in Obj, NEW d \in clients'[x]
          PROVE  /\ x \in Live("PORT_REQ")' /\ d \in Live("REQUEST")'
                 /\ obj'[d].state = "ESTABLISHED" /\ obj'[d].data = x
      <4>1. CASE x = s /\ d = New
        BY <2>1, <2>3, <2>s, <4>1 DEF Live
      <4>2. CASE d \in clients[x]
        <5>1. /\ x \in Live("PORT_REQ") /\ d \in Live("REQUEST")
              /\ obj[d].state = "ESTABLISHED" /\ obj[d].data = x
          BY <1>l, <4>2 DEF LinkParts, ConnectionsLinked
        <5> QED BY <1>h, <2>3, <5>1 DEF Live
      <4> QED BY <2>4, <3>2, <4>1, <4>2
    <3> QED BY <3>1, <3>2 DEF ConnectionsLinked, Live
  <2>9. QueuesSound'
    BY <1>l, <1>f, <1>h, <1>t, <2>0, <2>1, <2>3 DEF LinkParts, QueuesSound, Live
  <2>10. CookiesSound'
    <3>1. \A x \in Obj : /\ x \in Live("PORT_COOKIE")' <=> x \in Live("PORT_COOKIE")
                         /\ x \in Live("PORT_COOKIE") => obj'[x].data = obj[x].data
      BY <1>f, <2>1, <2>3 DEF Live
    <3>2. \A d \in Obj : obj[d].kind = "COOKIE" \/ obj'[d].kind = "COOKIE" =>
                           obj'[d] = obj[d]
      BY <1>f, <2>1, <2>3
    <3> QED BY <1>l, <2>0, <3>1, <3>2, CookiesKept DEF LinkParts
  <2> QED BY <1>n, <2>0, <2>5, <2>6, <2>7, <2>8, <2>9, <2>10 DEF LinkParts
<1>10. ASSUME NEW t \in Task, NEW r \in fds[t], CloseConnection(t, r)
       PROVE  fault' = "none" /\ LinkParts'
  <2>a. PICK s : s = obj[r].data
    OBVIOUS
  <2>0. r \in Obj /\ obj[r].live /\ obj[r].kind = "REQUEST" /\ obj[r].state = "ESTABLISHED"
    <3>1. /\ r \in Obj /\ obj[r].live /\ obj[r].kind = "REQUEST"
          /\ obj[r].state # "PENDING" /\ obj[r].state # "CLOSED"
      BY <1>10, <1>m, <1>t DEF CloseConnection, Calls
    <3>2. obj[r].state # "SERVER" /\ obj[r] \in Object
      BY <1>l, <1>t, <3>1 DEF LinkParts, DescriptorsSound, ClientKind
    <3> QED BY <3>1, <3>2 DEF Object
  <2>1. /\ UNCHANGED <<used, uport, port, incoming, upc>> /\ fault' = "none"
        /\ clients' = [clients EXCEPT ![s] = @ \ {r}]
        /\ Dropped(t, r, obj)
    BY <1>10, <2>0, <2>a DEF CloseConnection
  <2>2. /\ \A u \in Task : fds'[u] = IF u = t THEN fds[t] \ {r} ELSE fds[u]
        /\ \A o \in Obj \ {r} : obj'[o] = obj[o]
        /\ obj'[r].kind = "REQUEST" /\ ~obj'[r].live
    BY <1>t, <2>0, <2>1, DroppedType, ZenonT(60) DEF Dropped
  <2>s. s \in Obj /\ s \in Live("PORT_REQ") /\ r \in clients[s]
    BY <1>l, <2>0, <2>a DEF LinkParts, ConnectionsLinked, Live
  <2>c. \A o \in Obj : clients'[o] = IF o = s THEN clients[o] \ {r} ELSE clients[o]
    BY <1>t, <2>1
  <2>3. FreshSound'
    BY <1>l, <1>h, <2>0, <2>1, <2>2, <2>c DEF LinkParts, FreshSound
  <2>4. DescriptorsSound'
    BY <1>l, <2>2, DescriptorsDropped DEF LinkParts
  <2>5. PortSound'
    BY <1>l, <2>0, <2>1, <2>2 DEF LinkParts, PortSound, Live
  <2>6. ConnectionsLinked'
    <3>1. ASSUME NEW x \in Live("REQUEST")', obj'[x].state = "ESTABLISHED"
          PROVE  obj'[x].data \in Live("PORT_REQ")' /\ x \in clients'[obj'[x].data]
      <4>1. x \in Obj /\ x # r /\ obj'[x] = obj[x] /\ x \in Live("REQUEST")
        BY <2>2, <3>1 DEF Live
      <4>2. obj[x].data \in Live("PORT_REQ") /\ x \in clients[obj[x].data]
        BY <1>l, <3>1, <4>1 DEF LinkParts, ConnectionsLinked
      <4>3. obj[x].data \in Obj \ {r}
        BY <2>0, <4>2 DEF Live
      <4> QED BY <2>2, <2>c, <4>1, <4>2, <4>3 DEF Live
    <3>2. ASSUME NEW x \in Obj, NEW d \in clients'[x]
          PROVE  /\ x \in Live("PORT_REQ")' /\ d \in Live("REQUEST")'
                 /\ obj'[d].state = "ESTABLISHED" /\ obj'[d].data = x
      <4>1. d \in clients[x]
        BY <2>c, <3>2
      <4>2. /\ x \in Live("PORT_REQ") /\ d \in Live("REQUEST")
            /\ obj[d].state = "ESTABLISHED" /\ obj[d].data = x
        BY <1>l, <4>1 DEF LinkParts, ConnectionsLinked
      <4>3. d # r
        BY <2>a, <2>c, <3>2, <4>2
      <4>4. d \in Obj \ {r} /\ x \in Obj \ {r}
        BY <2>0, <4>2, <4>3 DEF Live
      <4> QED BY <2>2, <4>2, <4>4 DEF Live
    <3> QED BY <3>1, <3>2 DEF ConnectionsLinked
  <2>7. QueuesSound'
    BY <1>l, <2>0, <2>1, <2>2, QueuesKept DEF LinkParts, ClientKind
  <2>8. CookiesSound'
    <3>1. \A x \in Obj : /\ x \in Live("PORT_COOKIE")' <=> x \in Live("PORT_COOKIE")
                         /\ x \in Live("PORT_COOKIE") => obj'[x].data = obj[x].data
      BY <2>0, <2>2 DEF Live
    <3>2. \A d \in Obj : obj[d].kind = "COOKIE" \/ obj'[d].kind = "COOKIE" =>
                           obj'[d] = obj[d]
      BY <2>0, <2>2
    <3> QED BY <1>l, <2>1, <3>1, <3>2, CookiesKept DEF LinkParts
  <2> QED BY <2>1, <2>3, <2>4, <2>5, <2>6, <2>7, <2>8 DEF LinkParts
<1>11. ASSUME NEW t \in Task, NEW r \in fds[t], CloseCookie(t, r)
       PROVE  fault' = "none" /\ LinkParts'
  <2>0. /\ r \in Obj /\ obj[r].live /\ obj[r].kind = "COOKIE"
        /\ obj[r].state \in {"PENDING", "ESTABLISHED"}
    <3>1. r \in Obj /\ obj[r].live /\ obj[r].kind = "COOKIE" /\ obj[r].state # "CLOSED"
      BY <1>11, <1>m, <1>t DEF CloseCookie, Calls
    <3>2. obj[r].state # "SERVER" /\ obj[r] \in Object
      BY <1>l, <1>t, <3>1 DEF LinkParts, DescriptorsSound, ClientKind
    <3> QED BY <3>1, <3>2 DEF Object
  <2>1. UNCHANGED <<used, uport, port, clients>> /\ Dropped(t, r, obj)
    BY <1>11 DEF CloseCookie
  <2>2. /\ \A u \in Task : fds'[u] = IF u = t THEN fds[t] \ {r} ELSE fds[u]
        /\ \A o \in Obj \ {r} : obj'[o] = obj[o]
        /\ obj'[r].kind = "COOKIE" /\ ~obj'[r].live
    BY <1>t, <2>0, <2>1, DroppedType, ZenonT(60) DEF Dropped
  <2>3. DescriptorsSound'
    BY <1>l, <2>2, DescriptorsDropped DEF LinkParts
  <2>4. PortSound'
    BY <1>l, <2>0, <2>1, <2>2 DEF LinkParts, PortSound, Live
  <2>5. ConnectionsLinked'
    BY <1>l, <2>0, <2>1, <2>2, ConnectionsKept DEF LinkParts
  <2>6. CASE obj[r].state = "PENDING"
    <3>1. /\ incoming' = [o \in Obj |-> RemoveFirst(incoming[o], r)] /\ upc' = upc
          /\ fault' = IF Queues(r) = {} THEN "dangling" ELSE "none"
      BY <1>11, <2>6 DEF CloseCookie
    <3>2. ~upc[r].live /\ upc[r] = NoCookie
      BY <1>l, <2>0, <2>6 DEF LinkParts, CookiesSound
    <3>3. Answerers(r) = {}
      <4>1. \A s \in Live("PORT_COOKIE") : obj[s].data # r
        BY <1>l, <3>2 DEF LinkParts, CookiesSound
      <4> QED BY <4>1 DEF Answerers
    <3>4. Queues(r) # {}
      BY <1>l, <2>0, <2>6 DEF LinkParts, QueuesSound, Queues, Live
    <3>5. \A o \in Obj : incoming[o] = <<>> => incoming'[o] = <<>>
      <4>1. RemoveFirst(<<>>, r) = <<>>
        BY DEF RemoveFirst
      <4> QED BY <3>1, <4>1
    <3>6. FreshSound'
      BY <1>l, <1>h, <2>0, <2>1, <2>2, <3>1, <3>5 DEF LinkParts, FreshSound
    <3>7. QueuesSound'
      <4>1. \A o \in Obj : incoming'[o] = RemoveFirst(incoming[o], r)
        BY <3>1
      <4> QED BY <1>l, <2>0, <2>2, <4>1, QueuesWithdrawn DEF LinkParts, ClientKind
    <3>8. CookiesSound'
      BY <1>l, <2>0, <2>2, <3>1, <3>2, <3>3, CookieGone DEF LinkParts
    <3> QED BY <2>3, <2>4, <2>5, <3>1, <3>4, <3>6, <3>7, <3>8 DEF LinkParts
  <2>7. CASE obj[r].state = "ESTABLISHED"
    <3>1. /\ incoming' = incoming
          /\ upc' = IF upc[r].response THEN [upc EXCEPT ![r] = NoCookie]
                    ELSE [upc EXCEPT ![r].client = Null]
          /\ fault' = IF ~upc[r].live THEN "dangling" ELSE "none"
      BY <1>11, <2>7 DEF CloseCookie
    <3>2. /\ upc[r].live /\ upc[r].client = r
          /\ ~upc[r].response => Answerers(r) # {}
      BY <1>l, <2>0, <2>7 DEF LinkParts, CookiesSound, Accepted, Live
    <3>3. QueuesSound'
      BY <1>l, <2>0, <2>2, <2>7, <3>1, QueuesKept DEF LinkParts, ClientKind
    <3>4. CASE upc[r].response
      <4>1. \A o \in Obj : upc'[o] = IF o = r THEN NoCookie ELSE upc[o]
        BY <2>0, <3>1, <3>4, CookieType
      <4>2. ~NoCookie.live
        BY CookieType
      <4>3. Answerers(r) = {}
        <5>1. \A s \in Live("PORT_COOKIE") : obj[s].data # r
          BY <1>l, <3>4 DEF LinkParts, CookiesSound
        <5> QED BY <5>1 DEF Answerers
      <4>4. CookiesSound'
        BY <1>l, <2>0, <2>2, <4>1, <4>2, <4>3, CookieGone DEF LinkParts
      <4>5. FreshSound'
        BY <1>l, <1>h, <2>0, <2>1, <2>2, <3>1, <4>1 DEF LinkParts, FreshSound
      <4> QED BY <2>3, <2>4, <2>5, <3>1, <3>2, <3>3, <4>4, <4>5 DEF LinkParts
    <3>5. CASE ~upc[r].response
      <4>1. \A o \in Obj : o # r => upc'[o] = upc[o]
        BY <2>0, <3>1, <3>5, CookieType
      <4>2. upc'[r].client = Null /\ upc'[r].live = upc[r].live
            /\ upc'[r].response = upc[r].response
        BY <2>0, <3>1, <3>5, CookieType
      <4>3. CookiesSound'
        BY <1>l, <2>0, <2>2, <3>2, <3>5, <4>1, <4>2, CookieAbandoned DEF LinkParts
      <4>4. FreshSound'
        BY <1>l, <1>h, <2>0, <2>1, <2>2, <3>1, <4>1 DEF LinkParts, FreshSound
      <4> QED BY <2>3, <2>4, <2>5, <3>1, <3>2, <3>3, <4>3, <4>4 DEF LinkParts
    <3> QED BY <3>4, <3>5
  <2> QED BY <2>0, <2>6, <2>7
<1>12. ASSUME NEW t \in Task, NEW r \in fds[t], ClosePort(t, r)
       PROVE  fault' = "none" /\ LinkParts'
  <2>a. PICK X : X = Range(incoming[r])
    OBVIOUS
  <2>0. /\ r \in Obj /\ obj[r].live /\ obj[r].kind = "PORT"
        /\ UNCHANGED <<used, clients, upc>> /\ uport' = Null /\ port' = FALSE
        /\ incoming' = [incoming EXCEPT ![r] = <<>>]
        /\ fault' = IF \A o \in X : obj[o].live THEN "none" ELSE "dangling"
        /\ Dropped(t, r, Closed(X))
    BY <1>12, <1>t, <2>a DEF ClosePort, Calls
  <2>x. \A o \in X : /\ o \in Obj /\ obj[o].live /\ obj[o].state = "PENDING"
                     /\ obj[o].kind = "REQUEST" /\ o # r
    <3>1. X \subseteq Obj
      BY <1>t, <2>0, <2>a DEF Range
    <3> QED BY <1>l, <2>0, <2>a, <3>1 DEF LinkParts, QueuesSound, Live
  <2>1. /\ \A u \in Task : fds'[u] = IF u = t THEN fds[t] \ {r} ELSE fds[u]
        /\ \A o \in Obj \ {r} : obj'[o] = Closed(X)[o]
        /\ obj'[r].kind = "PORT" /\ ~obj'[r].live
    <3>1. PICK ob \in [Obj -> Object] : ob = Closed(X)
      BY ClosedType
    <3>2. Dropped(t, r, ob)
      BY <2>0, <3>1
    <3> QED BY <2>0, <3>1, <3>2, DroppedType DEF Dropped
  <2>2. \A o \in Obj \ {r} :
          /\ obj'[o].kind = obj[o].kind /\ obj'[o].live = obj[o].live
          /\ obj'[o].owner = obj[o].owner /\ obj'[o].data = obj[o].data
          /\ obj'[o].state = IF o \in X THEN "CLOSED" ELSE obj[o].state
    BY <2>1, ClosedType
  <2>q. \A o \in Obj : incoming'[o] = IF o = r THEN <<>> ELSE incoming[o]
    BY <1>t, <2>0
  <2>3. FreshSound'
    BY <1>l, <1>h, <2>0, <2>2, <2>q DEF LinkParts, FreshSound
  <2>4. DescriptorsSound'
    <3>1. \A o \in Obj \ {r} : obj'[o].state # obj[o].state =>
                                 obj'[o].state # "SERVER" /\ obj[o].kind \in ClientKind
      BY <2>2, <2>x DEF ClientKind
    <3> QED BY <1>l, <2>1, <2>2, <3>1, DescriptorsDropped DEF LinkParts
  <2>5. PortSound'
    <3>1. uport = r
      BY <1>l, <2>0 DEF LinkParts, PortSound, Live
    <3> QED BY <1>l, <1>t, <2>0, <2>1, <2>2, <3>1 DEF LinkParts, PortSound, Live
  <2>6. ConnectionsLinked'
    <3>1. \A o \in Obj \ {r} :
            obj'[o].state = "ESTABLISHED" <=> obj[o].state = "ESTABLISHED"
      BY <2>2, <2>x
    <3> QED BY <1>l, <2>0, <2>1, <2>2, <3>1, ConnectionsKept DEF LinkParts
  <2>7. QueuesSound'
    <3>1. \A o \in Obj : IsInjective(incoming'[o])
      BY <1>l, <2>q DEF LinkParts, QueuesSound, IsInjective
    <3>2. \A o \in Obj : \A d : d \in Range(incoming'[o]) <=>
                                  d \in Range(incoming[o]) /\ o # r
      <4>1. Range(<<>>) = {}
        BY DEF Range
      <4> QED BY <2>q, <4>1
    <3>3. ASSUME NEW o \in Obj, NEW d \in Range(incoming'[o])
          PROVE  /\ obj'[d].live /\ obj'[d].state = "PENDING"
                 /\ \/ o \in Live("PORT")' /\ obj'[d].kind = "REQUEST"
                    \/ o \in Live("PORT_REQ")' /\ obj'[d].kind = "COOKIE"
      <4>1. d \in Range(incoming[o]) /\ o # r
        BY <3>2, <3>3
      <4>2. /\ obj[d].live /\ obj[d].state = "PENDING"
            /\ \/ o \in Live("PORT") /\ obj[d].kind = "REQUEST"
               \/ o \in Live("PORT_REQ") /\ obj[d].kind = "COOKIE"
        BY <1>l, <4>1 DEF LinkParts, QueuesSound
      <4>3. d \in Obj /\ d \notin X /\ d # r
        <5>1. d \in Obj
          BY <1>t, <4>1 DEF Range
        <5>2. d \notin X
          BY <1>l, <2>0, <2>a, <4>1 DEF LinkParts, QueuesSound
        <5> QED BY <2>0, <4>2, <5>1, <5>2
      <4> QED BY <2>2, <4>1, <4>2, <4>3 DEF Live
    <3>4. \A o, p \in Obj : \A d \in Range(incoming'[o]) : d \in Range(incoming'[p]) => o = p
      BY <1>l, <3>2 DEF LinkParts, QueuesSound
    <3>5. ASSUME NEW d \in Live("REQUEST")' \cup Live("COOKIE")', obj'[d].state = "PENDING"
          PROVE  \E o \in Obj : d \in Range(incoming'[o])
      <4>1. d \in Obj /\ d # r /\ d \notin X
        BY <2>1, <2>2, <3>5 DEF Live
      <4>2. d \in Live("REQUEST") \cup Live("COOKIE") /\ obj[d].state = "PENDING"
        BY <2>2, <3>5, <4>1 DEF Live
      <4>3. PICK o \in Obj : d \in Range(incoming[o])
        BY <1>l, <4>2 DEF LinkParts, QueuesSound
      <4> QED BY <2>a, <3>2, <4>1, <4>3
    <3> QED BY <3>1, <3>3, <3>4, <3>5 DEF QueuesSound
  <2>8. CookiesSound'
    <3>1. \A x \in Obj : /\ x \in Live("PORT_COOKIE")' <=> x \in Live("PORT_COOKIE")
                         /\ x \in Live("PORT_COOKIE") => obj'[x].data = obj[x].data
      BY <2>0, <2>1, <2>2 DEF Live
    <3>2. \A d \in Obj : obj[d].kind = "COOKIE" \/ obj'[d].kind = "COOKIE" =>
                           /\ obj'[d].kind = obj[d].kind /\ obj'[d].live = obj[d].live
                           /\ obj'[d].state = obj[d].state
      BY <2>0, <2>1, <2>2, <2>x
    <3> QED BY <1>l, <2>0, <3>1, <3>2, CookiesKept DEF LinkParts
  <2> QED BY <2>0, <2>x, <2>3, <2>4, <2>5, <2>6, <2>7, <2>8 DEF LinkParts
<1>13. ASSUME NEW t \in Task, NEW r \in fds[t], ClosePortReq(t, r)
       PROVE  fault' = "none" /\ LinkParts'
  <2>a. PICK X : X = clients[r]
    OBVIOUS
  <2>0. /\ r \in Obj /\ obj[r].live /\ obj[r].kind = "PORT_REQ" /\ incoming[r] = <<>>
        /\ UNCHANGED <<used, port, uport, upc>>
        /\ clients' = [clients EXCEPT ![r] = {}]
        /\ incoming' = [incoming EXCEPT ![r] = <<>>]
        /\ fault' = IF \A o \in X \cup Range(incoming[r]) : obj[o].live
                    THEN "none" ELSE "dangling"
        /\ Dropped(t, r, Closed(X))
    BY <1>13, <1>m, <1>t, <2>a DEF ClosePortReq, Calls
  <2>x. \A o \in X : /\ o \in Obj /\ obj[o].live /\ obj[o].state = "ESTABLISHED"
                     /\ obj[o].kind = "REQUEST" /\ o # r /\ obj[o].data = r
    BY <1>l, <1>t, <2>0, <2>a DEF LinkParts, ConnectionsLinked, Live
  <2>q. incoming' = incoming /\ Range(incoming[r]) = {}
    BY <1>t, <2>0 DEF Range
  <2>1. /\ \A u \in Task : fds'[u] = IF u = t THEN fds[t] \ {r} ELSE fds[u]
        /\ \A o \in Obj \ {r} : obj'[o] = Closed(X)[o]
        /\ obj'[r].kind = "PORT_REQ" /\ ~obj'[r].live
    <3>1. PICK ob \in [Obj -> Object] : ob = Closed(X)
      BY ClosedType
    <3>2. Dropped(t, r, ob)
      BY <2>0, <3>1
    <3> QED BY <2>0, <3>1, <3>2, DroppedType DEF Dropped
  <2>2. \A o \in Obj \ {r} :
          /\ obj'[o].kind = obj[o].kind /\ obj'[o].live = obj[o].live
          /\ obj'[o].owner = obj[o].owner /\ obj'[o].data = obj[o].data
          /\ obj'[o].state = IF o \in X THEN "CLOSED" ELSE obj[o].state
    BY <2>1, ClosedType
  <2>c. \A o \in Obj : clients'[o] = IF o = r THEN {} ELSE clients[o]
    BY <1>t, <2>0
  <2>3. FreshSound'
    BY <1>l, <1>h, <2>0, <2>2, <2>c, <2>q DEF LinkParts, FreshSound
  <2>4. DescriptorsSound'
    <3>1. \A o \in Obj \ {r} : obj'[o].state # obj[o].state =>
                                 obj'[o].state # "SERVER" /\ obj[o].kind \in ClientKind
      BY <2>2, <2>x DEF ClientKind
    <3> QED BY <1>l, <2>1, <2>2, <3>1, DescriptorsDropped DEF LinkParts
  <2>5. PortSound'
    BY <1>l, <1>t, <2>0, <2>1, <2>2 DEF LinkParts, PortSound, Live
  <2>6. ConnectionsLinked'
    <3>1. ASSUME NEW x \in Live("REQUEST")', obj'[x].state = "ESTABLISHED"
          PROVE  obj'[x].data \in Live("PORT_REQ")' /\ x \in clients'[obj'[x].data]
      <4>1. x \in Obj /\ x # r /\ x \notin X
        BY <2>1, <2>2, <3>1 DEF Live
      <4>2. x \in Live("REQUEST") /\ obj[x].state = "ESTABLISHED"
        BY <2>2, <3>1, <4>1 DEF Live
      <4>3. obj[x].data \in Live("PORT_REQ") /\ x \in clients[obj[x].data]
        BY <1>l, <4>2 DEF LinkParts, ConnectionsLinked
      <4>4. obj[x].data \in Obj \ {r}
        BY <2>a, <4>1, <4>3 DEF Live
      <4> QED BY <2>2, <2>c, <4>1, <4>3, <4>4 DEF Live
    <3>2. ASSUME NEW x \in Obj, NEW d \in clients'[x]
          PROVE  /\ x \in Live("PORT_REQ")' /\ d \in Live("REQUEST")'
                 /\ obj'[d].state = "ESTABLISHED" /\ obj'[d].data = x
      <4>1. d \in clients[x] /\ x # r
        BY <2>c, <3>2
      <4>2. /\ x \in Live("PORT_REQ") /\ d \in Live("REQUEST")
            /\ obj[d].state = "ESTABLISHED" /\ obj[d].data = x
        BY <1>l, <4>1 DEF LinkParts, ConnectionsLinked
      <4>3. d \notin X /\ d \in Obj \ {r} /\ x \in Obj \ {r}
        BY <2>0, <2>x, <4>1, <4>2 DEF Live
      <4> QED BY <2>2, <4>2, <4>3 DEF Live
    <3> QED BY <3>1, <3>2 DEF ConnectionsLinked
  <2>7. QueuesSound'
    <3>1. \A o \in Obj \ {r} : obj[o].state = "PENDING" <=> obj'[o].state = "PENDING"
      BY <2>2, <2>x
    <3> QED BY <1>l, <2>0, <2>1, <2>2, <2>q, <3>1, QueuesKept DEF LinkParts, ClientKind
  <2>8. CookiesSound'
    <3>1. \A x \in Obj : /\ x \in Live("PORT_COOKIE")' <=> x \in Live("PORT_COOKIE")
                         /\ x \in Live("PORT_COOKIE") => obj'[x].data = obj[x].data
      BY <2>0, <2>1, <2>2 DEF Live
    <3>2. \A d \in Obj : obj[d].kind = "COOKIE" \/ obj'[d].kind = "COOKIE" =>
                           /\ obj'[d].kind = obj[d].kind /\ obj'[d].live = obj[d].live
                           /\ obj'[d].state = obj[d].state
      BY <2>0, <2>1, <2>2, <2>x
    <3> QED BY <1>l, <2>0, <3>1, <3>2, CookiesKept DEF LinkParts
  <2> QED BY <2>0, <2>q, <2>x, <2>3, <2>4, <2>5, <2>6, <2>7, <2>8 DEF LinkParts
<1>14. ASSUME NEW t \in Task, NEW r \in fds[t], ClosePortCookie(t, r)
       PROVE  fault' = "none" /\ LinkParts'
  <2>a. PICK c : c = obj[r].data
    OBVIOUS
  <2>b. PICK X : X = {upc[c].client} \ {Null}
    OBVIOUS
  <2>0. /\ r \in Obj /\ obj[r].live /\ obj[r].kind = "PORT_COOKIE"
        /\ UNCHANGED <<used, port, uport, incoming, clients>>
        /\ upc' = [upc EXCEPT ![c] = NoCookie]
        /\ fault' = IF upc[c].response THEN "panic"
                    ELSE IF \A o \in X : obj[o].live THEN "none" ELSE "dangling"
        /\ Dropped(t, r, Closed(X))
    BY <1>14, <1>t, <2>a, <2>b DEF ClosePortCookie, Calls
  <2>c. /\ c \in Obj /\ upc[c].live /\ ~upc[c].response /\ obj[c].kind = "COOKIE" /\ c # r
        /\ obj[c].live => obj[c].state = "ESTABLISHED"
    <3>1. c \in Obj /\ upc[c].live /\ ~upc[c].response
      BY <1>l, <2>0, <2>a DEF LinkParts, CookiesSound, Live
    <3> QED BY <1>l, <2>0, <3>1 DEF LinkParts, CookiesSound
  <2>x. X = IF obj[c].live THEN {c} ELSE {}
    <3>1. CASE obj[c].live
      <4>1. upc[c].client = c
        BY <1>l, <2>c, <3>1 DEF LinkParts, CookiesSound, Accepted, Live
      <4> QED BY <1>t, <2>b, <2>c, <3>1, <4>1
    <3>2. CASE ~obj[c].live
      BY <1>l, <2>b, <2>c, <3>2 DEF LinkParts, CookiesSound
    <3> QED BY <3>1, <3>2
  <2>1. /\ \A u \in Task : fds'[u] = IF u = t THEN fds[t] \ {r} ELSE fds[u]
        /\ \A o \in Obj \ {r} : obj'[o] = Closed(X)[o]
        /\ obj'[r].kind = "PORT_COOKIE" /\ ~obj'[r].live
    <3>1. PICK ob \in [Obj -> Object] : ob = Closed(X)
      BY ClosedType
    <3>2. Dropped(t, r, ob)
      BY <2>0, <3>1
    <3> QED BY <2>0, <3>1, <3>2, DroppedType DEF Dropped
  <2>2. \A o \in Obj \ {r} :
          /\ obj'[o].kind = obj[o].kind /\ obj'[o].live = obj[o].live
          /\ obj'[o].owner = obj[o].owner /\ obj'[o].data = obj[o].data
          /\ obj'[o].state = IF o \in X THEN "CLOSED" ELSE obj[o].state
    BY <2>1, ClosedType
  <2>u. \A o \in Obj : upc'[o] = IF o = c THEN NoCookie ELSE upc[o]
    BY <2>0, <2>c, CookieType
  <2>3. FreshSound'
    BY <1>l, <1>h, <2>0, <2>2, <2>u, <2>x DEF LinkParts, FreshSound
  <2>4. DescriptorsSound'
    <3>1. \A o \in Obj \ {r} : obj'[o].state # obj[o].state =>
                                 obj'[o].state # "SERVER" /\ obj[o].kind \in ClientKind
      BY <2>2, <2>c, <2>x DEF ClientKind
    <3> QED BY <1>l, <2>1, <2>2, <3>1, DescriptorsDropped DEF LinkParts
  <2>5. PortSound'
    BY <1>l, <1>t, <2>0, <2>1, <2>2 DEF LinkParts, PortSound, Live
  <2>6. ConnectionsLinked'
    <3>1. \A o \in Obj \ {r} : obj[o].kind = "REQUEST" => obj'[o].state = obj[o].state
      BY <2>2, <2>c, <2>x
    <3> QED BY <1>l, <2>0, <2>1, <2>2, <3>1, ConnectionsKept DEF LinkParts
  <2>7. QueuesSound'
    <3>1. \A o \in Obj \ {r} : obj[o].live =>
            (obj[o].state = "PENDING" <=> obj'[o].state = "PENDING")
      BY <2>2, <2>c, <2>x
    <3>2. \A o \in Obj \ {r} : ~obj[o].live => obj'[o].state = obj[o].state
      BY <2>2, <2>x
    <3> QED BY <1>l, <2>0, <2>1, <2>2, <3>1, <3>2, QueuesKept DEF LinkParts, ClientKind
  <2>8. CookiesSound'
    <3>n. ~NoCookie.live
      BY CookieType
    <3>1. \A s \in Obj : /\ s \in Live("PORT_COOKIE")' <=> s \in Live("PORT_COOKIE") \ {r}
                         /\ s \in Live("PORT_COOKIE") \ {r} =>
                              obj'[s].data = obj[s].data /\ obj[s].data # c
      BY <1>l, <2>0, <2>1, <2>2, <2>a DEF LinkParts, CookiesSound, Live
    <3>2. \A d \in Obj \ {c} : Accepted(d)' <=> Accepted(d)
      BY <2>0, <2>1, <2>2, <2>x DEF Accepted, Live
    <3>c. ~Accepted(c)'
      BY <2>2, <2>c, <2>x DEF Accepted, Live
    <3>3. \A d \in Obj \ {c} : Answerers(d)' = Answerers(d)
      BY <2>0, <2>1, <2>2, <2>a DEF Answerers, Live
    <3>4. \A s \in Live("PORT_COOKIE")' :
            obj'[s].data \in Obj /\ upc'[obj'[s].data].live /\ ~upc'[obj'[s].data].response
      BY <1>l, <2>u, <3>1 DEF LinkParts, CookiesSound, Live
    <3>5. \A s, u \in Live("PORT_COOKIE")' : obj'[s].data = obj'[u].data => s = u
      BY <1>l, <3>1 DEF LinkParts, CookiesSound, Live
    <3>6. \A d \in Obj : Accepted(d)' => /\ upc'[d].live /\ upc'[d].client = d
                                         /\ ~upc'[d].response => Answerers(d)' # {}
      BY <1>l, <2>u, <3>2, <3>3, <3>c DEF LinkParts, CookiesSound
    <3>7. ASSUME NEW d \in Obj, upc'[d].live
          PROVE  /\ obj'[d].kind = "COOKIE"
                 /\ obj'[d].live => obj'[d].state = "ESTABLISHED"
                 /\ ~obj'[d].live => upc'[d].client = Null /\ Answerers(d)' # {}
      <4>1. upc[d].live /\ d # c /\ upc'[d] = upc[d]
        BY <2>u, <3>7, <3>n
      <4>2. d # r /\ d \notin X
        BY <1>l, <2>0, <2>x, <4>1 DEF LinkParts, CookiesSound
      <4> QED BY <1>l, <2>2, <3>3, <4>1, <4>2 DEF LinkParts, CookiesSound
    <3>8. \A d \in Obj : ~upc'[d].live => upc'[d] = NoCookie
      BY <1>l, <2>u DEF LinkParts, CookiesSound
    <3> QED BY <3>4, <3>5, <3>6, <3>7, <3>8 DEF CookiesSound
  <2> QED BY <2>0, <2>c, <2>x, <2>3, <2>4, <2>5, <2>6, <2>7, <2>8 DEF LinkParts
<1>15. ASSUME NEW t \in Task, NEW w \in WaitSets(t), WaitOn(t, w)
       PROVE  fault' = "none" /\ LinkParts'
  <2>0. UNCHANGED <<used, fds, incoming, clients, upc, port, uport, fault>>
    BY <1>15 DEF WaitOn
  <2>1. \A o \in Obj :
          /\ obj'[o].kind = obj[o].kind /\ obj'[o].live = obj[o].live
          /\ obj'[o].owner = obj[o].owner /\ obj'[o].data = obj[o].data
          /\ obj'[o].state = obj[o].state
    BY <1>15, <1>n, WaitOnType
  <2>2. \A k : Live(k)' = Live(k)
    BY <2>1 DEF Live
  <2>3. FreshSound'
    BY <1>l, <2>0, <2>1 DEF LinkParts, FreshSound
  <2>4. DescriptorsSound'
    BY <1>l, <1>t, <2>0, <2>1 DEF LinkParts, DescriptorsSound
  <2>5. PortSound'
    BY <1>l, <2>0, <2>2 DEF LinkParts, PortSound
  <2>6. ConnectionsLinked'
    BY <1>l, <2>0, <2>1, <2>2 DEF LinkParts, ConnectionsLinked, Live
  <2>7. QueuesSound'
    <3>1. \A o \in Obj : Range(incoming[o]) \subseteq Obj
      BY <1>t DEF Range
    <3> QED BY <1>l, <2>0, <2>1, <2>2, <3>1 DEF LinkParts, QueuesSound, Live
  <2>8. CookiesSound'
    BY <1>l, <2>0, <2>1, <2>2, CookiesKept DEF LinkParts, Live
  <2> QED BY <1>n, <2>0, <2>3, <2>4, <2>5, <2>6, <2>7, <2>8 DEF LinkParts
<1>16. ASSUME NEW t \in Task, NEW r \in fds[t] PROVE ~UseFreed(t, r)
  BY <1>l DEF LinkParts, DescriptorsSound, UseFreed
<1>17. ASSUME NEW t \in Task, NEW r \in fds[t]
       PROVE  ~RequestFails(t, r) /\ ~PopRequestFails(t, r)
  BY <1>m DEF RequestFails, PopRequestFails
<1>18. ASSUME NEW t \in trial.clients, ClientStep(t) PROVE fault' = "none" /\ LinkParts'
  BY <1>2, <1>3, <1>8, <1>9, <1>10, <1>11, <1>17, <1>18, <1>t, Zenon DEF ClientStep
<1>19. ASSUME NEW t \in Server, ServerStep(t) PROVE fault' = "none" /\ LinkParts'
  BY <1>1, <1>5, <1>7, <1>12, <1>13, <1>14, <1>17, <1>19, <1>t, ZenonT(30) DEF ServerStep
<1>20. ASSUME NEW t \in Task, AnyStep(t) PROVE fault' = "none" /\ LinkParts'
  BY <1>15, <1>16, <1>20, Zenon DEF AnyStep
<1> QED BY <1>18, <1>19, <1>20, Zenon DEF Next

(* At the start there is nothing to link. *)
LEMMA LinkInit == Init => LinkInv
<1> SUFFICES ASSUME Init PROVE LinkInv
  OBVIOUS
<1>1. \A k : Live(k) = {}
  BY DEF Init, Live, NoObj
<1>2. \A c \in Obj : ~Accepted(c) /\ upc[c] = NoCookie /\ ~NoCookie.live
  BY <1>1 DEF Init, Accepted, NoCookie
<1>3. FreshSound /\ DescriptorsSound
  BY DEF Init, FreshSound, DescriptorsSound, NoObj
<1>4. PortSound
  BY <1>1, UportAssumption DEF Init, PortSound
<1>5. ConnectionsLinked
  BY <1>1 DEF Init, ConnectionsLinked
<1>6. QueuesSound
  BY <1>1 DEF Init, QueuesSound, IsInjective, Range
<1>7. CookiesSound
  BY <1>1, <1>2 DEF CookiesSound
<1> QED BY <1>3, <1>4, <1>5, <1>6, <1>7 DEF Init, LinkInv

(* While programs make no mistake the kernel follows no null or dangling     *)
(* pointer in ipc/uport.c and reaches no panic, whatever the numbers of      *)
(* tasks, objects and descriptors.                                           *)
THEOREM KernelIsSafe == Spec => []KernelSafe
<1>1. LinkInv => KernelSafe
  BY DEF LinkInv, KernelSafe
<1> QED BY <1>1, LinkInit, LinkStep, TypeInit, TypeStep, PTL DEF Spec

(* The two ends of every connection agree, and every descriptor is valid     *)
(* until it is closed.                                                       *)
THEOREM EndsAgree == Spec => []ObjectsLinked
<1>1. TypeInv /\ LinkInv => ObjectsLinked
  BY DEF TypeInv, LinkInv, ObjectsLinked, DescriptorsLive, DescriptorsSound
<1> QED BY <1>1, LinkInit, LinkStep, TypeInit, TypeStep, PTL DEF Spec

(* No message is lost or queued twice, and every cookie is held by exactly   *)
(* those who still need it.                                                  *)
THEOREM HoldersExact == Spec => []MessagesOwned
<1>1. ASSUME TypeInv, LinkInv PROVE MessagesOwned
  <2> SUFFICES ASSUME Polite PROVE PendingQueued /\ CookiesOwned
    BY DEF MessagesOwned
  <2>1. QueuesSound /\ CookiesSound
    BY <1>1 DEF LinkInv
  <2>2. ASSUME NEW c \in Live("REQUEST") \cup Live("COOKIE"), obj[c].state = "PENDING"
        PROVE  Cardinality(Queues(c)) = 1
    <3>1. PICK o \in Obj : c \in Range(incoming[o])
      BY <2>1, <2>2 DEF QueuesSound
    <3>2. Queues(c) = {o}
      BY <2>1, <3>1 DEF QueuesSound, Queues
    <3> QED BY <3>2, FS_Singleton
  <2>3. ASSUME NEW o \in Obj
        PROVE  /\ incoming[o] # <<>> => o \in Live("PORT") \cup Live("PORT_REQ")
               /\ Cardinality(Range(incoming[o])) = Len(incoming[o])
               /\ \A c \in Range(incoming[o]) : obj[c].live /\ obj[c].state = "PENDING"
    <3>1. incoming[o] \in Seq(Obj) /\ IsInjective(incoming[o])
      BY <1>1, <2>1 DEF QueuesSound, TypeInv, TypeOK
    <3>2. Cardinality(Range(incoming[o])) = Len(incoming[o])
      BY <3>1, DistinctLength
    <3>3. incoming[o] # <<>> => \E c : c \in Range(incoming[o])
      <4>1. PICK q \in Seq(Obj) : q = incoming[o]
        BY <3>1
      <4>2. q # <<>> => 1 \in DOMAIN q
        BY <4>1
      <4>3. q # <<>> => q[1] \in Range(q)
        BY <4>2 DEF Range
      <4> QED BY <4>1, <4>3
    <3> QED BY <2>1, <3>2, <3>3 DEF QueuesSound
  <2>4. ASSUME NEW c \in Obj
        PROVE  /\ upc[c].live <=> Accepted(c) \/ Answerers(c) # {}
               /\ Accepted(c) => /\ upc[c].client = c
                                 /\ Cardinality(Answerers(c)) = IF upc[c].response THEN 0 ELSE 1
               /\ upc[c].live /\ upc[c].client # Null => Accepted(c)
    <3>1. Accepted(c) <=> obj[c].live /\ obj[c].kind = "COOKIE" /\ obj[c].state = "ESTABLISHED"
      BY DEF Accepted, Live
    <3>2. Answerers(c) # {} => upc[c].live /\ ~upc[c].response
      BY <2>1 DEF Answerers, CookiesSound
    <3>3. upc[c].live <=> Accepted(c) \/ Answerers(c) # {}
      BY <2>1, <3>1, <3>2 DEF CookiesSound
    <3>4. upc[c].live /\ upc[c].client # Null => Accepted(c)
      BY <2>1, <3>1 DEF CookiesSound
    <3>5. ASSUME Accepted(c), upc[c].response PROVE Cardinality(Answerers(c)) = 0
      BY <3>2, <3>5, FS_EmptySet
    <3>6. ASSUME Accepted(c), ~upc[c].response PROVE Cardinality(Answerers(c)) = 1
      <4>1. PICK s : s \in Answerers(c)
        BY <2>1, <3>6 DEF CookiesSound
      <4>2. Answerers(c) = {s}
        BY <2>1, <4>1 DEF Answerers, CookiesSound
      <4> QED BY <4>2, FS_Singleton
    <3> QED BY <2>1, <3>3, <3>4, <3>5, <3>6 DEF CookiesSound
  <2> QED BY <2>2, <2>3, <2>4 DEF PendingQueued, CookiesOwned
<1> QED BY <1>1, LinkInit, LinkStep, TypeInit, TypeStep, PTL DEF Spec
-----------------------------------------------------------------------------
\* The refinement: what becomes of each request is what Rpc allows.

\* The phases of all requests, as the abstract specification sees them.
Phases == [c \in Obj |-> IF Polite THEN Phase(c) ELSE "none"]

(* A step after which every request is where it was. *)
LEMMA PhasesKept ==
  ASSUME Polite, trial' = trial, \A c \in Obj : Phase(c)' = Phase(c)
  PROVE  Phases' = Phases
BY DEF Phases, Polite

(* A step that moves one request. *)
LEMMA PhaseMoved ==
  ASSUME Polite, trial' = trial, NEW c \in Obj, NEW from, NEW to,
         Phase(c) = from, Phase(c)' = to,
         \A d \in Obj \ {c} : Phase(d)' = Phase(d)
  PROVE  Abstract!Move(c, from, to)
<1>1. Phases[c] = from
  BY DEF Phases
<1>2. Phases' = [Phases EXCEPT ![c] = to]
  BY DEF Phases, Polite
<1> QED BY <1>1, <1>2 DEF Abstract!Move, Phases

(* What the phase of a request depends on. *)
LEMMA PhaseSame ==
  ASSUME NEW c \in Obj,
         obj'[c].kind = obj[c].kind,
         obj[c].kind = "COOKIE" =>
           /\ obj'[c].live = obj[c].live /\ obj'[c].state = obj[c].state
           /\ upc'[c].response = upc[c].response
  PROVE  Phase(c)' = Phase(c)
BY DEF Phase

(* An object that is no request. *)
LEMMA PhaseNone ==
  ASSUME NEW c \in Obj, obj'[c].kind # "COOKIE", obj[c].kind # "COOKIE"
  PROVE  Phase(c)' = Phase(c)
BY DEF Phase

(* Every step of the kernel moves at most one request, the way Rpc allows. *)
LEMMA PhaseStep == TypeInv /\ LinkInv /\ [Next]_vars => [Abstract!RNext]_Phases
<1> SUFFICES ASSUME TypeInv, LinkInv, [Next]_vars PROVE [Abstract!RNext]_Phases
  OBVIOUS
<1>u. CASE UNCHANGED vars
  BY <1>u DEF vars, Phases, Phase, Polite
<1>i. CASE Next /\ ~Polite
  BY <1>i DEF Next, Phases, Polite
<1> SUFFICES ASSUME Next, Polite PROVE [Abstract!RNext]_Phases
  BY <1>u, <1>i
<1>n. trial' = trial
  BY DEF Next
<1>l. LinkParts
  BY DEF LinkInv, LinkParts
<1>m. \A x : x \notin Careless
  BY DEF Polite, Careless
<1>t. /\ obj \in [Obj -> Object] /\ Null \notin Obj /\ used \in Nat
      /\ trial.clients \subseteq Task /\ Server \subseteq Task
      /\ \A t \in Task : fds[t] \subseteq Obj
      /\ upc \in [Obj -> Cookie]
  BY UportAssumption DEF TypeInv, TypeOK, Object, Cookie, Task
<1>f. New \in Obj => ~obj[New].live /\ obj[New].kind = "GARBAGE"
  BY <1>l, <1>t DEF LinkParts, FreshSound, New
<1>k. ASSUME \A c \in Obj : Phase(c)' = Phase(c) PROVE [Abstract!RNext]_Phases
  BY <1>k, <1>n, PhasesKept
<1>c. ASSUME NEW t \in Task, NEW R \in Object, Room(t), used' = New, R.kind # "COOKIE",
             fds' = [fds EXCEPT ![t] = @ \cup {New}], obj' = [obj EXCEPT ![New] = R],
             upc' = upc
      PROVE  [Abstract!RNext]_Phases
  <2>1. New \in Obj /\ \A o \in Obj : obj'[o] = IF o = New THEN R ELSE obj[o]
    BY <1>c, CreatedType
  <2>2. \A o \in Obj : Phase(o)' = Phase(o)
    BY <1>c, <1>f, <2>1, PhaseSame, PhaseNone
  <2> QED BY <1>k, <2>2
<1>1. ASSUME NEW t \in Task, NEW w \in {{}, {1}}, OpenPort(t, w)
      PROVE  [Abstract!RNext]_Phases
  <2>1. PICK R : R = [Request0("PORT", t, "SERVER", Null) EXCEPT !.waited = w]
    OBVIOUS
  <2>2. R \in Object /\ R.kind = "PORT"
    BY <2>1 DEF Request0, Object, Kind
  <2>3. /\ Room(t) /\ used' = New /\ upc' = upc
        /\ fds' = [fds EXCEPT ![t] = @ \cup {New}] /\ obj' = [obj EXCEPT ![New] = R]
    BY <1>1, <1>m, <2>1 DEF OpenPort
  <2> QED BY <1>c, <2>2, <2>3
<1>2. ASSUME NEW t \in Task, PortConnect(t) PROVE [Abstract!RNext]_Phases
  <2>1. PICK R : R = Request0("REQUEST", t, "PENDING", Null)
    OBVIOUS
  <2>2. R \in Object /\ R.kind = "REQUEST"
    BY <2>1, RequestType DEF Kind
  <2>3. /\ Room(t) /\ used' = New /\ upc' = upc
        /\ fds' = [fds EXCEPT ![t] = @ \cup {New}] /\ obj' = [obj EXCEPT ![New] = R]
    BY <1>2, <2>1 DEF PortConnect
  <2> QED BY <1>c, <2>2, <2>3
<1>3. ASSUME NEW t \in Task, NEW r \in fds[t], Request(t, r)
      PROVE  [Abstract!RNext]_Phases
  <2>1. PICK R : R = Request0("COOKIE", t, "PENDING", Null)
    OBVIOUS
  <2>2. R \in Object /\ R.kind = "COOKIE" /\ R.live /\ R.state = "PENDING"
    BY <2>1, RequestType DEF Kind
  <2>3. /\ Room(t) /\ used' = New /\ upc' = upc
        /\ fds' = [fds EXCEPT ![t] = @ \cup {New}] /\ obj' = [obj EXCEPT ![New] = R]
    BY <1>3, <2>1 DEF Request
  <2>n. PICK n : n = New
    OBVIOUS
  <2>4. n \in Obj /\ \A o \in Obj : obj'[o] = IF o = n THEN R ELSE obj[o]
    BY <2>2, <2>3, <2>n, CreatedType
  <2>5. \A o \in Obj \ {n} : Phase(o)' = Phase(o)
    BY <2>3, <2>4, PhaseSame
  <2>6. Phase(n) = "none" /\ Phase(n)' = "sent"
    BY <1>f, <2>2, <2>4, <2>n DEF Phase
  <2>7. Abstract!Send(n)
    BY <1>n, <2>4, <2>5, <2>6, PhaseMoved DEF Abstract!Send
  <2> QED BY <2>4, <2>7 DEF Abstract!RNext
<1>5. ASSUME NEW t \in Task, NEW r \in fds[t], PopRequest(t, r)
      PROVE  [Abstract!RNext]_Phases
  <2>a. PICK c, n : c = Popped(r) /\ n = New
    OBVIOUS
  <2>b. PICK conn \in BOOLEAN : conn = Connects(r)
    BY DEF Connects
  <2>k. conn <=> obj[r].kind = "PORT"
    BY <2>b DEF Connects
  <2>0. /\ r \in Obj /\ obj[r].live
        /\ obj[r].kind \in {"PORT", "PORT_REQ"} /\ incoming[r] # <<>>
    BY <1>5, <1>t DEF PopRequest, Calls
  <2>1. PopEffect(t, r)
    BY <1>5, <1>n, <2>0, PopRequestType
  <2>c. /\ c \in Obj /\ n \in Obj /\ c # n /\ obj[c].live /\ obj[c].state = "PENDING"
        /\ obj[c].kind = IF conn THEN "REQUEST" ELSE "COOKIE"
    <3>1. c \in Range(incoming[r])
      <4>1. incoming[r] \in Seq(Obj) /\ IsInjective(incoming[r])
        BY <1>l, <2>0 DEF LinkParts, QueuesSound, TypeInv, TypeOK
      <4> QED BY <2>0, <2>a, <4>1, TailDistinct DEF Popped
    <3>2. /\ obj[c].live /\ obj[c].state = "PENDING"
          /\ \/ obj[r].kind = "PORT" /\ obj[c].kind = "REQUEST"
             \/ obj[r].kind = "PORT_REQ" /\ obj[c].kind = "COOKIE"
      BY <1>l, <2>0, <3>1 DEF LinkParts, QueuesSound, Live
    <3>3. c \in Obj /\ n \in Obj
      BY <2>1, <2>a DEF PopEffect
    <3> QED BY <1>f, <2>a, <2>k, <3>2, <3>3
  <2>2. /\ \A o \in Obj \ {c, n} : obj'[o] = obj[o]
        /\ obj'[n] = IF conn THEN Request0("PORT_REQ", t, "SERVER", Null)
                     ELSE Request0("PORT_COOKIE", t, "SERVER", c)
        /\ obj'[c].state = "ESTABLISHED" /\ obj'[c].kind = obj[c].kind
        /\ obj'[c].live = obj[c].live
    BY <2>1, <2>a, <2>b, <2>c DEF PopEffect
  <2>3. obj'[n].kind # "COOKIE" /\ obj[n].kind # "COOKIE"
    BY <1>f, <2>2, <2>a, <2>c DEF Request0
  <2>4. CASE conn
    <3>1. upc' = upc
      BY <2>1, <2>a, <2>b, <2>4 DEF PopEffect
    <3>2. \A o \in Obj : Phase(o)' = Phase(o)
      BY <2>2, <2>3, <2>4, <2>c, <3>1, PhaseSame, PhaseNone
    <3> QED BY <1>k, <3>2
  <2>5. CASE ~conn
    <3>1. \A o \in Obj : upc'[o] =
            IF o = c THEN [live |-> TRUE, client |-> o, response |-> FALSE] ELSE upc[o]
      BY <2>1, <2>a, <2>b, <2>5 DEF PopEffect
    <3>2. \A o \in Obj \ {c} : upc'[o] = upc[o]
      BY <3>1
    <3>3. \A o \in Obj \ {c} : Phase(o)' = Phase(o)
      BY <2>2, <2>3, <3>2, PhaseSame, PhaseNone
    <3>4. ~upc'[c].response
      <4>1. upc'[c] = [live |-> TRUE, client |-> c, response |-> FALSE]
        BY <2>c, <3>1
      <4> QED BY <4>1
    <3>5. Phase(c) = "sent" /\ Phase(c)' = "taken"
      BY <2>2, <2>5, <2>c, <3>4 DEF Phase
    <3>6. Abstract!Take(c)
      BY <1>n, <2>c, <3>3, <3>5, PhaseMoved DEF Abstract!Take
    <3> QED BY <2>c, <3>6 DEF Abstract!RNext
  <2> QED BY <2>4, <2>5
<1>6. ASSUME NEW t \in Task, NEW r \in fds[t], Respond(t, r)
      PROVE  [Abstract!RNext]_Phases
  <2>a. PICK c : c = obj[r].data
    OBVIOUS
  <2>0. /\ r \in Obj /\ obj[r].live /\ obj[r].kind = "PORT_COOKIE"
        /\ upc[c].client # Null
        /\ upc' = [upc EXCEPT ![c].response = TRUE]
        /\ Dropped(t, r, obj)
    BY <1>6, <1>t, <2>a DEF Respond, Calls, Dropped
  <2>1. /\ \A o \in Obj \ {r} : obj'[o] = obj[o]
        /\ obj'[r].kind = "PORT_COOKIE"
    BY <1>t, <2>0, DroppedType, ZenonT(60) DEF Dropped
  <2>c. /\ c \in Obj /\ c # r /\ ~upc[c].response
        /\ obj[c].kind = "COOKIE" /\ obj[c].live /\ obj[c].state = "ESTABLISHED"
    <3>1. c \in Obj /\ upc[c].live /\ ~upc[c].response
      BY <1>l, <2>0, <2>a DEF LinkParts, CookiesSound, Live
    <3> QED BY <1>l, <2>0, <3>1 DEF LinkParts, CookiesSound
  <2>2. \A o \in Obj : o # c => upc'[o] = upc[o]
    BY <2>0, <2>c, CookieType
  <2>3. upc'[c].response
    BY <2>0, <2>c, CookieType
  <2>4. \A o \in Obj \ {c} : Phase(o)' = Phase(o)
    BY <2>0, <2>1, <2>2, PhaseSame, PhaseNone
  <2>5. Phase(c) = "taken" /\ Phase(c)' = "answered"
    BY <2>1, <2>3, <2>c DEF Phase
  <2>6. Abstract!Answer(c)
    BY <1>n, <2>4, <2>5, <2>c, PhaseMoved DEF Abstract!Answer
  <2> QED BY <2>6, <2>c DEF Abstract!RNext
<1>7. ASSUME NEW t \in Task, NEW r \in fds[t], GetResponse(t, r)
      PROVE  [Abstract!RNext]_Phases
  <2>0. /\ r \in Obj /\ obj[r].live /\ obj[r].kind = "COOKIE"
        /\ \/ obj[r].state = "CLOSED" /\ upc' = upc
           \/ /\ obj[r].state = "ESTABLISHED" /\ upc[r].response
              /\ upc' = [upc EXCEPT ![r] = NoCookie]
        /\ Dropped(t, r, obj)
    BY <1>7, <1>t DEF GetResponse, Calls, Dropped
  <2>1. /\ \A o \in Obj \ {r} : obj'[o] = obj[o]
        /\ obj'[r].kind = "COOKIE" /\ ~obj'[r].live
    BY <1>t, <2>0, DroppedType, ZenonT(60) DEF Dropped
  <2>2. \A o \in Obj \ {r} : upc'[o] = upc[o]
    BY <1>t, <2>0
  <2>3. \A o \in Obj \ {r} : Phase(o)' = Phase(o)
    BY <2>1, <2>2, PhaseSame
  <2>4. Phase(r) \in {"refused", "answered"} /\ Phase(r)' = "done"
    BY <2>0, <2>1 DEF Phase
  <2>5. Abstract!Receive(r)
    BY <1>n, <2>0, <2>3, <2>4, PhaseMoved DEF Abstract!Receive
  <2> QED BY <2>0, <2>5 DEF Abstract!RNext
<1>8. ASSUME NEW t \in Task, NEW v \in Task, NEW r \in fds[t], Dup(t, v, r)
      PROVE  [Abstract!RNext]_Phases
  <2>0. r \in Obj /\ obj[r] \in Object
    BY <1>t
  <2>1. PICK R : R = Request0("REQUEST", v, "ESTABLISHED", obj[r].data)
    OBVIOUS
  <2>2. R \in Object /\ R.kind = "REQUEST"
    BY <2>0, <2>1, RequestType DEF Kind, Object
  <2>3. /\ Room(v) /\ used' = New /\ upc' = upc
        /\ fds' = [fds EXCEPT ![v] = @ \cup {New}] /\ obj' = [obj EXCEPT ![New] = R]
    BY <1>8, <2>1 DEF Dup
  <2> QED BY <1>c, <2>2, <2>3
<1>9. ASSUME NEW t \in Task, NEW r \in fds[t], CloseConnection(t, r)
      PROVE  [Abstract!RNext]_Phases
  <2>0. r \in Obj /\ obj[r].kind = "REQUEST" /\ upc' = upc /\ Dropped(t, r, obj)
    BY <1>9, <1>t DEF CloseConnection
  <2>1. (\A o \in Obj \ {r} : obj'[o] = obj[o]) /\ obj'[r].kind = "REQUEST"
    BY <1>t, <2>0, DroppedType, ZenonT(60) DEF Dropped
  <2>2. \A o \in Obj : Phase(o)' = Phase(o)
    BY <2>0, <2>1, PhaseSame, PhaseNone
  <2> QED BY <1>k, <2>2
<1>10. ASSUME NEW t \in Task, NEW r \in fds[t], CloseCookie(t, r)
       PROVE  [Abstract!RNext]_Phases
  <2>0. /\ r \in Obj /\ obj[r].live /\ obj[r].kind = "COOKIE" /\ obj[r].state # "CLOSED"
        /\ Dropped(t, r, obj)
        /\ upc' = IF obj[r].state # "ESTABLISHED" THEN upc
                  ELSE IF upc[r].response THEN [upc EXCEPT ![r] = NoCookie]
                  ELSE [upc EXCEPT ![r].client = Null]
    BY <1>10, <1>m, <1>t DEF CloseCookie, Calls
  <2>1. /\ \A o \in Obj \ {r} : obj'[o] = obj[o]
        /\ obj'[r].kind = "COOKIE" /\ ~obj'[r].live
    BY <1>t, <2>0, DroppedType, ZenonT(60) DEF Dropped
  <2>2. \A o \in Obj \ {r} : upc'[o] = upc[o]
    BY <1>t, <2>0
  <2>3. \A o \in Obj \ {r} : Phase(o)' = Phase(o)
    BY <2>1, <2>2, PhaseSame
  <2>4. Phase(r) \in {"sent", "taken", "answered"} /\ Phase(r)' = "done"
    BY <2>0, <2>1 DEF Phase
  <2>5. Abstract!GiveUp(r)
    BY <1>n, <2>0, <2>3, <2>4, PhaseMoved DEF Abstract!GiveUp
  <2> QED BY <2>0, <2>5 DEF Abstract!RNext
<1>11. ASSUME NEW t \in Task, NEW r \in fds[t], NEW X, Dropped(t, r, Closed(X))
       PROVE  /\ \A o \in Obj \ {r} :
                   /\ obj'[o].kind = obj[o].kind /\ obj'[o].live = obj[o].live
                   /\ obj'[o].state = IF o \in X THEN "CLOSED" ELSE obj[o].state
              /\ obj'[r].kind = obj[r].kind /\ r \in Obj
  <2>1. PICK ob \in [Obj -> Object] : ob = Closed(X)
    BY ClosedType
  <2>2. Dropped(t, r, ob) /\ r \in Obj
    BY <1>11, <1>t, <2>1
  <2>3. (\A o \in Obj \ {r} : obj'[o] = Closed(X)[o]) /\ obj'[r].kind = obj[r].kind
    BY <2>1, <2>2, DroppedType DEF Dropped
  <2> QED BY <2>2, <2>3, ClosedType
<1>12. ASSUME NEW t \in Task, NEW r \in fds[t], ClosePort(t, r)
       PROVE  [Abstract!RNext]_Phases
  <2>a. PICK X : X = Range(incoming[r])
    OBVIOUS
  <2>0. obj[r].kind = "PORT" /\ upc' = upc /\ Dropped(t, r, Closed(X))
    BY <1>12, <2>a DEF ClosePort
  <2>1. \A o \in X : obj[o].kind = "REQUEST"
    BY <1>l, <1>t, <2>0, <2>a DEF LinkParts, QueuesSound, Live
  <2>2. \A o \in Obj : Phase(o)' = Phase(o)
    BY <1>11, <2>0, <2>1, PhaseSame
  <2> QED BY <1>k, <2>2
<1>13. ASSUME NEW t \in Task, NEW r \in fds[t], ClosePortReq(t, r)
       PROVE  [Abstract!RNext]_Phases
  <2>0. obj[r].kind = "PORT_REQ" /\ upc' = upc /\ Dropped(t, r, Closed(clients[r]))
    BY <1>13 DEF ClosePortReq
  <2>1. \A o \in clients[r] : obj[o].kind = "REQUEST"
    BY <1>l, <1>t DEF LinkParts, ConnectionsLinked, Live
  <2>2. \A o \in Obj : Phase(o)' = Phase(o)
    BY <1>11, <2>0, <2>1, PhaseSame
  <2> QED BY <1>k, <2>2
<1>14. ASSUME NEW t \in Task, NEW r \in fds[t], ClosePortCookie(t, r)
       PROVE  [Abstract!RNext]_Phases
  <2>a. PICK c, X : c = obj[r].data /\ X = {upc[obj[r].data].client} \ {Null}
    OBVIOUS
  <2>0. /\ r \in Obj /\ obj[r].live /\ obj[r].kind = "PORT_COOKIE"
        /\ upc' = [upc EXCEPT ![c] = NoCookie]
        /\ Dropped(t, r, Closed(X))
    BY <1>14, <1>t, <2>a DEF ClosePortCookie, Calls
  <2>c. /\ c \in Obj /\ upc[c].live /\ ~upc[c].response /\ obj[c].kind = "COOKIE" /\ c # r
        /\ obj[c].live => obj[c].state = "ESTABLISHED"
        /\ upc[c].client = IF obj[c].live THEN c ELSE Null
    <3>1. c \in Obj /\ upc[c].live /\ ~upc[c].response
      BY <1>l, <2>0, <2>a DEF LinkParts, CookiesSound, Live
    <3>2. obj[c].kind = "COOKIE" /\ (obj[c].live => obj[c].state = "ESTABLISHED")
      BY <1>l, <3>1 DEF LinkParts, CookiesSound
    <3>3. upc[c].client = IF obj[c].live THEN c ELSE Null
      BY <1>l, <3>1, <3>2 DEF LinkParts, CookiesSound, Accepted, Live
    <3> QED BY <2>0, <3>1, <3>2, <3>3
  <2>x. X = IF obj[c].live THEN {c} ELSE {}
    BY <1>t, <2>a, <2>c
  <2>1. \A o \in Obj \ {c} : upc'[o] = upc[o]
    BY <1>t, <2>0
  <2>2. /\ \A o \in Obj \ {r} :
             /\ obj'[o].kind = obj[o].kind /\ obj'[o].live = obj[o].live
             /\ obj'[o].state = IF o \in X THEN "CLOSED" ELSE obj[o].state
        /\ obj'[r].kind = obj[r].kind
    BY <1>11, <2>0
  <2>3. \A o \in Obj \ {c} : Phase(o)' = Phase(o)
    BY <2>0, <2>1, <2>2, <2>x, PhaseSame
  <2>4. CASE obj[c].live
    <3>1. Phase(c) = "taken" /\ Phase(c)' = "refused"
      BY <2>2, <2>4, <2>c, <2>x DEF Phase
    <3>2. Abstract!Refuse(c)
      BY <1>n, <2>3, <2>c, <3>1, PhaseMoved DEF Abstract!Refuse
    <3> QED BY <2>c, <3>2 DEF Abstract!RNext
  <2>5. CASE ~obj[c].live
    <3>1. Phase(c) = "done" /\ Phase(c)' = "done"
      BY <2>2, <2>5, <2>c DEF Phase
    <3>2. \A o \in Obj : Phase(o)' = Phase(o)
      BY <2>3, <3>1
    <3> QED BY <1>k, <3>2
  <2> QED BY <2>4, <2>5
<1>15. ASSUME NEW t \in Task, NEW w \in WaitSets(t), WaitOn(t, w)
       PROVE  [Abstract!RNext]_Phases
  <2>1. upc' = upc
    BY <1>15 DEF WaitOn
  <2>2. \A o \in Obj : /\ obj'[o].kind = obj[o].kind /\ obj'[o].live = obj[o].live
                       /\ obj'[o].state = obj[o].state
    BY <1>15, <1>n, WaitOnType
  <2>3. \A o \in Obj : Phase(o)' = Phase(o)
    BY <2>1, <2>2, PhaseSame
  <2> QED BY <1>k, <2>3
<1>16. ASSUME NEW t \in Task, NEW r \in fds[t]
       PROVE  ~UseFreed(t, r) /\ ~RequestFails(t, r) /\ ~PopRequestFails(t, r)
  BY <1>l, <1>m DEF LinkParts, DescriptorsSound, UseFreed, RequestFails, PopRequestFails
<1>17. ASSUME NEW t \in trial.clients, ClientStep(t) PROVE [Abstract!RNext]_Phases
  <2>1. t \in Task
    BY <1>t
  <2>2. ASSUME NEW r \in fds[t], NEW v \in trial.clients, Dup(t, v, r)
        PROVE  [Abstract!RNext]_Phases
    BY <1>8, <1>t, <2>1, <2>2
  <2> QED BY <1>2, <1>3, <1>7, <1>9, <1>10, <1>16, <1>17, <2>1, <2>2, Zenon DEF ClientStep
<1>18. ASSUME NEW t \in Server, ServerStep(t) PROVE [Abstract!RNext]_Phases
  <2>1. t \in Task
    BY <1>t
  <2> QED BY <1>1, <1>5, <1>6, <1>12, <1>13, <1>14, <1>16, <1>18, <2>1, Zenon DEF ServerStep
<1>19. ASSUME NEW t \in Task, AnyStep(t) PROVE [Abstract!RNext]_Phases
  BY <1>15, <1>16, <1>19, Zenon DEF AnyStep
<1> QED BY <1>17, <1>18, <1>19, Zenon DEF Next

(* The kernel's requests implement Rpc: each is taken, answered or refused   *)
(* at most once, in that order, however the two ends are closed.             *)
THEOREM RpcImplemented == Spec => RequestsAnsweredOnce
<1>1. Init => Abstract!RInit
  BY DEF Init, Abstract!RInit, Phase, NoObj
<1>2. TypeInv /\ LinkInv /\ [Next]_vars =>
        [Abstract!RNext]_[c \in Obj |-> IF Polite THEN Phase(c) ELSE "none"]
  BY PhaseStep DEF Phases
<1> QED BY <1>1, <1>2, LinkInit, LinkStep, TypeInit, TypeStep, PTL
        DEF Spec, RequestsAnsweredOnce, Abstract!RSpec
=============================================================================
