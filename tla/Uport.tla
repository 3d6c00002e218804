------------------------------- MODULE Uport -------------------------------
(***************************************************************************)
(* Inter-process communication: the descriptors, messages and cookies of   *)
(* sys/ipc/port.c and sys/ipc/uport.c, for one port.                       *)
(*                                                                         *)
(* A client's port_connect makes a REQUEST (a connection), PENDING until   *)
(* the server pops it from its PORT; the server then holds a PORT_REQ.  On *)
(* an ESTABLISHED connection the client's request makes a COOKIE, PENDING  *)
(* until the server pops it from the PORT_REQ; the server then holds a     *)
(* PORT_COOKIE, answers it with respond or closes it, and the client       *)
(* fetches the answer with get_response.                                   *)
(*                                                                         *)
(* Both ends point to structures of the other, and each is freed by        *)
(* whoever closes last.  A pointer is the number of the object allocated;  *)
(* numbers are not reused, so following a pointer to a freed object is     *)
(* noticed (fault) instead of reading what replaced it.  Every system call *)
(* runs with interrupts masked: each is one action.  The contents of       *)
(* messages are PageMan's subject.                                         *)
(***************************************************************************)
EXTENDS Naturals, Sequences, FiniteSets, SequencesExt

CONSTANTS
  Server,     \* tasks that open the port
  Client,     \* tasks that connect to it
  Null,
  MaxObj,     \* bound on the objects allocated in a behaviour
  MaxFds,     \* size of a descriptor table
  Trials      \* settings to explore: records of the clients that take part, the
              \* number of objects, and the mistakes programs may make

Task == Server \cup Client
Obj == 1..MaxObj

(***************************************************************************)
(* "close_pending": closing a connection the server has not accepted yet.  *)
(* "close_closed": closing a descriptor whose other end is closed.         *)
(* "request_unready": a request on a connection that is not established.   *)
(* "close_busy": closing a PORT_REQ that has requests queued.              *)
(* "bad_buffer": pop_request into memory the kernel cannot write.          *)
(* "full_table": open_port with a table full of other descriptors.         *)
(***************************************************************************)
Mistake == {"close_pending", "close_closed", "request_unready", "close_busy",
            "bad_buffer", "full_table"}

ASSUME UportAssumption ==
  /\ IsFiniteSet(Task)
  /\ MaxObj \in Nat /\ MaxFds \in Nat
  /\ Null \notin Obj
  /\ \A x \in Trials :
       x.clients \subseteq Client /\ x.objs \in 0..MaxObj /\ x.mistakes \subseteq Mistake

VARIABLES
  obj,        \* struct request: kind, owner, state, data and waited_rw
  used,       \* objects allocated so far
  fds,        \* the descriptors of each task
  incoming,   \* messages queued at a PORT or PORT_REQ, by their client_req
  clients,    \* connections served by a PORT_REQ
  upc,        \* struct uport_cookie, by the COOKIE it was made for
  port,       \* port[n] is registered
  uport,      \* uport[n]: the PORT object, or Null
  sleep,      \* "no", "asleep" in wait_on, or "woken" there
  want,       \* the descriptors wait_on was called with
  fault,      \* "none", or what the kernel ran into
  trial       \* the setting of this behaviour

vars == <<obj, used, fds, incoming, clients, upc, port, uport, sleep, want, fault, trial>>
waitVars == <<sleep, want>>

Kind == {"REQUEST", "COOKIE", "PORT", "PORT_REQ", "PORT_COOKIE", "GARBAGE"}
NoObj == [kind |-> "GARBAGE", live |-> FALSE, owner |-> Null, state |-> "SERVER",
          data |-> Null, waited |-> {}]
NoCookie == [live |-> FALSE, client |-> Null, response |-> FALSE]

\* What is left of an object returned to its pool.
Freed(o) == [NoObj EXCEPT !.kind = obj[o].kind]

Careless == trial.mistakes

Init ==
  /\ trial \in Trials
  /\ obj = [o \in Obj |-> NoObj]
  /\ used = 0
  /\ fds = [t \in Task |-> {}]
  /\ incoming = [o \in Obj |-> <<>>]
  /\ clients = [o \in Obj |-> {}]
  /\ upc = [o \in Obj |-> NoCookie]
  /\ port = FALSE
  /\ uport = Null
  /\ sleep = [t \in Task |-> "no"]
  /\ want = [t \in Task |-> [rd |-> {}, wr |-> {}]]
  /\ fault = "none"

-----------------------------------------------------------------------------
\* t is in user space and makes a system call on its descriptor o.
Calls(t, o) == sleep[t] = "no" /\ o \in fds[t] /\ obj[o].live

\* The next object, and room for it in the descriptor table.
New == used + 1

\* Mutant: one descriptor too many.
RoomForOneMore(t) == New <= trial.objs /\ Cardinality(fds[t]) <= MaxFds

Room(t) == New <= trial.objs /\ Cardinality(fds[t]) < MaxFds
Request0(kind, t, state, data) ==
  [kind |-> kind, live |-> TRUE, owner |-> t, state |-> state, data |-> data,
   waited |-> {}]

\* wake_up() the owners of the objects X.
Woken(X) ==
  [t \in Task |-> IF sleep[t] = "asleep" /\ (\E o \in X : obj[o].owner = t)
                  THEN "woken" ELSE sleep[t]]

Waited(o, rw) == IF obj[o].waited \cap rw # {} THEN {o} ELSE {}

-----------------------------------------------------------------------------
(***************************************************************************)
(* open_port.  The port is registered before the descriptor is allocated   *)
(* and stays so if that fails.  waited_rw is not initialised (w).          *)
(***************************************************************************)
OpenPort(t, w) ==
  /\ sleep[t] = "no"
  /\ ~port
  /\ port' = TRUE
  /\ \/ /\ Room(t)
        /\ used' = New
        /\ obj' = [obj EXCEPT ![New] = [Request0("PORT", t, "SERVER", Null)
                                        EXCEPT !.waited = w]]
        /\ fds' = [fds EXCEPT ![t] = @ \cup {New}]
        /\ uport' = New
     \/ /\ "full_table" \in Careless
        /\ UNCHANGED <<used, obj, fds, uport>>
  /\ UNCHANGED <<incoming, clients, upc, waitVars, fault>>

\* port_connect with uport_connect.
PortConnect(t) ==
  /\ sleep[t] = "no"
  /\ port
  /\ Room(t)
  /\ used' = New
  /\ fds' = [fds EXCEPT ![t] = @ \cup {New}]
  /\ obj' = [obj EXCEPT ![New] = Request0("REQUEST", t, "PENDING", Null)]
  /\ \/ /\ uport # Null
        /\ incoming' = [incoming EXCEPT ![uport] = Append(@, New)]
        /\ sleep' = Woken(Waited(uport, {1}))
        /\ UNCHANGED fault
     \/ /\ uport = Null
        /\ fault' = "null"
        /\ UNCHANGED <<incoming, sleep>>
  /\ UNCHANGED <<clients, upc, port, uport, want>>

\* request with uport_request, on an established connection.
Request(t, r) ==
  LET sreq == obj[r].data
  IN /\ Calls(t, r)
     /\ obj[r].kind = "REQUEST" /\ obj[r].state = "ESTABLISHED"
     /\ Room(t)
     /\ used' = New
     /\ fds' = [fds EXCEPT ![t] = @ \cup {New}]
     /\ obj' = [obj EXCEPT ![New] = Request0("COOKIE", t, "PENDING", Null)]
     /\ incoming' = [incoming EXCEPT ![sreq] = Append(@, New)]
     /\ sleep' = Woken(Waited(sreq, {1}))
     /\ fault' = IF obj[sreq].live THEN "none" ELSE "dangling"
     /\ UNCHANGED <<clients, upc, port, uport, want>>

\* request on another connection: uport_request fails, and the failure path
\* frees the connection instead of the new cookie.
RequestFails(t, r) ==
  /\ Calls(t, r)
  /\ obj[r].kind = "REQUEST" /\ obj[r].state # "ESTABLISHED"
  /\ "request_unready" \in Careless
  /\ Room(t)
  /\ obj' = [obj EXCEPT ![r] = Freed(r)]
  /\ UNCHANGED <<used, fds, incoming, clients, upc, port, uport, waitVars, fault>>

\* Mutant: the message stays in the queue.
PopRequestKeepsMessage(t, r) ==
  LET c == Head(incoming[r])
      conn == obj[r].kind = "PORT"
  IN /\ Calls(t, r)
     /\ obj[r].kind \in {"PORT", "PORT_REQ"}
     /\ incoming[r] # <<>>
     /\ Room(t)
     /\ used' = New
     /\ fds' = [fds EXCEPT ![t] = @ \cup {New}]
     /\ clients' = [clients EXCEPT ![New] = IF conn THEN {c} ELSE {}]
     /\ upc' = IF conn THEN upc
               ELSE [upc EXCEPT ![c] = [live |-> TRUE, client |-> c, response |-> FALSE]]
     /\ obj' = [obj EXCEPT
          ![New] = IF conn THEN Request0("PORT_REQ", t, "SERVER", Null)
                   ELSE Request0("PORT_COOKIE", t, "SERVER", c),
          ![c].state = "ESTABLISHED",
          ![c].data = IF conn THEN New ELSE c]
     /\ sleep' = Woken(Waited(c, {2}))
     /\ fault' = IF obj[c].live THEN "none" ELSE "dangling"
     /\ UNCHANGED <<incoming, port, uport, want>>

(***************************************************************************)
(* pop_request of the oldest message c.  If the result cannot be copied    *)
(* out, the new descriptor stays in the table, uninitialised.              *)
(***************************************************************************)
PopRequest(t, r) ==
  LET c == Head(incoming[r])
      conn == obj[r].kind = "PORT"
  IN /\ Calls(t, r)
     /\ obj[r].kind \in {"PORT", "PORT_REQ"}
     /\ incoming[r] # <<>>
     /\ Room(t)
     /\ used' = New
     /\ fds' = [fds EXCEPT ![t] = @ \cup {New}]
     /\ incoming' = [incoming EXCEPT ![r] = Tail(@)]
     /\ clients' = [clients EXCEPT ![New] = IF conn THEN {c} ELSE {}]
     /\ upc' = IF conn THEN upc
               ELSE [upc EXCEPT ![c] = [live |-> TRUE, client |-> c, response |-> FALSE]]
     /\ obj' = [obj EXCEPT
          ![New] = IF conn THEN Request0("PORT_REQ", t, "SERVER", Null)
                   ELSE Request0("PORT_COOKIE", t, "SERVER", c),
          ![c].state = "ESTABLISHED",
          ![c].data = IF conn THEN New ELSE c]
     /\ sleep' = Woken(Waited(c, {2}))
     /\ fault' = IF obj[c].live THEN "none" ELSE "dangling"
     /\ UNCHANGED <<port, uport, want>>

PopRequestFails(t, r) ==
  /\ Calls(t, r)
  /\ obj[r].kind \in {"PORT", "PORT_REQ"}
  /\ incoming[r] # <<>>
  /\ "bad_buffer" \in Careless
  /\ Room(t)
  /\ used' = New
  /\ fds' = [fds EXCEPT ![t] = @ \cup {New}]
  /\ UNCHANGED <<obj, incoming, clients, upc, port, uport, waitVars, fault>>

\* Mutants: the descriptor is not removed; the client is not woken.
RespondKeepsFd(t, r) ==
  LET c == obj[r].data
  IN /\ Calls(t, r)
     /\ obj[r].kind = "PORT_COOKIE"
     /\ upc[c].client # Null
     /\ obj' = [obj EXCEPT ![r] = Freed(r)]
     /\ upc' = [upc EXCEPT ![c].response = TRUE]
     /\ sleep' = Woken(Waited(upc[c].client, {1}))
     /\ fault' = IF obj[upc[c].client].live THEN "none" ELSE "dangling"
     /\ UNCHANGED <<used, fds, incoming, clients, port, uport, want>>

RespondSilently(t, r) ==
  LET c == obj[r].data
  IN /\ Calls(t, r)
     /\ obj[r].kind = "PORT_COOKIE"
     /\ upc[c].client # Null
     /\ fds' = [fds EXCEPT ![t] = @ \ {r}]
     /\ obj' = [obj EXCEPT ![r] = Freed(r)]
     /\ upc' = [upc EXCEPT ![c].response = TRUE]
     /\ fault' = IF obj[upc[c].client].live THEN "none" ELSE "dangling"
     /\ UNCHANGED <<used, incoming, clients, port, uport, waitVars>>

\* respond, to a client that still wants the answer.
Respond(t, r) ==
  LET c == obj[r].data
  IN /\ Calls(t, r)
     /\ obj[r].kind = "PORT_COOKIE"
     /\ upc[c].client # Null
     /\ fds' = [fds EXCEPT ![t] = @ \ {r}]
     /\ obj' = [obj EXCEPT ![r] = Freed(r)]
     /\ upc' = [upc EXCEPT ![c].response = TRUE]
     /\ sleep' = Woken(Waited(upc[c].client, {1}))
     /\ fault' = IF obj[upc[c].client].live THEN "none" ELSE "dangling"
     /\ UNCHANGED <<used, incoming, clients, port, uport, want>>

\* Mutant: the cookie is not freed.
GetResponseKeepsCookie(t, r) ==
  /\ Calls(t, r)
  /\ obj[r].kind = "COOKIE"
  /\ obj[r].state = "CLOSED" \/ (obj[r].state = "ESTABLISHED" /\ upc[r].response)
  /\ fds' = [fds EXCEPT ![t] = @ \ {r}]
  /\ obj' = [obj EXCEPT ![r] = Freed(r)]
  /\ UNCHANGED <<used, incoming, clients, upc, port, uport, waitVars, fault>>

\* get_response: an answer, or the news that the server closed the cookie.
GetResponse(t, r) ==
  /\ Calls(t, r)
  /\ obj[r].kind = "COOKIE"
  /\ \/ obj[r].state = "CLOSED" /\ UNCHANGED upc
     \/ /\ obj[r].state = "ESTABLISHED" /\ upc[r].response
        /\ upc' = [upc EXCEPT ![r] = NoCookie]
  /\ fds' = [fds EXCEPT ![t] = @ \ {r}]
  /\ obj' = [obj EXCEPT ![r] = Freed(r)]
  /\ UNCHANGED <<used, incoming, clients, port, uport, waitVars, fault>>

\* Mutant: the server's end does not learn of the copy.
DupUnlisted(t, u, r) ==
  /\ Calls(t, r)
  /\ sleep[u] = "no"
  /\ obj[r].kind = "REQUEST" /\ obj[r].state = "ESTABLISHED"
  /\ Room(u)
  /\ used' = New
  /\ fds' = [fds EXCEPT ![u] = @ \cup {New}]
  /\ obj' = [obj EXCEPT ![New] = Request0("REQUEST", u, "ESTABLISHED", obj[r].data)]
  /\ UNCHANGED <<incoming, clients, upc, port, uport, waitVars, fault>>

\* dup0 of a connection (uport_dup); fork does the same for the child.
Dup(t, u, r) ==
  /\ Calls(t, r)
  /\ sleep[u] = "no"
  /\ obj[r].kind = "REQUEST" /\ obj[r].state = "ESTABLISHED"
  /\ Room(u)
  /\ used' = New
  /\ fds' = [fds EXCEPT ![u] = @ \cup {New}]
  /\ obj' = [obj EXCEPT ![New] = Request0("REQUEST", u, "ESTABLISHED", obj[r].data)]
  /\ clients' = [clients EXCEPT ![obj[r].data] = @ \cup {New}]
  /\ UNCHANGED <<incoming, upc, port, uport, waitVars, fault>>

-----------------------------------------------------------------------------
\* close(): the descriptor and its request go in any case.
Dropped(t, r, ob) ==
  /\ fds' = [fds EXCEPT ![t] = @ \ {r}]
  /\ obj' = [ob EXCEPT ![r] = Freed(r)]

(***************************************************************************)
(* uport_user_close of a connection.  A PENDING one has no message in its  *)
(* data (uport_connect leaves NULL there); a CLOSED one is taken off a     *)
(* list it is no longer on.                                                *)
(***************************************************************************)
CloseConnection(t, r) ==
  LET s == obj[r].state
  IN /\ Calls(t, r)
     /\ obj[r].kind = "REQUEST"
     /\ s = "PENDING" => "close_pending" \in Careless
     /\ s = "CLOSED" => "close_closed" \in Careless
     /\ Dropped(t, r, obj)
     /\ fault' = CASE s = "PENDING" -> "null"
                   [] s = "CLOSED" -> "deleted_again"
                   [] OTHER -> "none"
     /\ clients' = IF s = "ESTABLISHED"
                   THEN [clients EXCEPT ![obj[r].data] = @ \ {r}] ELSE clients
     /\ UNCHANGED <<used, incoming, upc, port, uport, waitVars>>

\* Mutants: the message stays queued; the server's end keeps its pointer.
CloseCookieKeepsMessage(t, r) ==
  /\ Calls(t, r)
  /\ obj[r].kind = "COOKIE" /\ obj[r].state # "CLOSED"
  /\ Dropped(t, r, obj)
  /\ upc' = IF obj[r].state # "ESTABLISHED" THEN upc
            ELSE IF upc[r].response THEN [upc EXCEPT ![r] = NoCookie]
            ELSE [upc EXCEPT ![r].client = Null]
  /\ UNCHANGED <<used, incoming, clients, port, uport, waitVars, fault>>

CloseCookieKeepsClient(t, r) ==
  /\ Calls(t, r)
  /\ obj[r].kind = "COOKIE" /\ obj[r].state # "CLOSED"
  /\ Dropped(t, r, obj)
  /\ incoming' = [o \in Obj |-> RemoveFirst(incoming[o], r)]
  /\ upc' = IF upc[r].response THEN [upc EXCEPT ![r] = NoCookie] ELSE upc
  /\ UNCHANGED <<used, clients, port, uport, waitVars, fault>>

\* uport_user_close of a cookie: withdraw the message, throw the answer away,
\* or tell the server's end that nobody wants one.
Queues(c) == {o \in Obj : c \in Range(incoming[o])}

CloseCookie(t, r) ==
  LET s == obj[r].state
  IN /\ Calls(t, r)
     /\ obj[r].kind = "COOKIE"
     /\ s = "CLOSED" => "close_closed" \in Careless
     /\ Dropped(t, r, obj)
     /\ incoming' = IF s = "PENDING"
                    THEN [o \in Obj |-> RemoveFirst(incoming[o], r)]
                    ELSE incoming
     /\ upc' = IF s # "ESTABLISHED" THEN upc
               ELSE IF upc[r].response THEN [upc EXCEPT ![r] = NoCookie]
               ELSE [upc EXCEPT ![r].client = Null]
     /\ fault' = IF \/ s = "PENDING" /\ Queues(r) = {}
                    \/ s # "PENDING" /\ ~upc[r].live
                 THEN "dangling" ELSE "none"
     /\ UNCHANGED <<used, clients, port, uport, waitVars>>

\* The client ends X are told that the server has gone.
Closed(X) == [o \in Obj |-> IF o \in X THEN [obj[o] EXCEPT !.state = "CLOSED"]
                            ELSE obj[o]]
Waiting(X) == {o \in X : obj[o].waited # {}}

\* uport_server_close of the port.
ClosePort(t, r) ==
  LET X == Range(incoming[r])
  IN /\ Calls(t, r)
     /\ obj[r].kind = "PORT"
     /\ Dropped(t, r, Closed(X))
     /\ incoming' = [incoming EXCEPT ![r] = <<>>]
     /\ sleep' = Woken(Waiting(X))
     /\ port' = FALSE
     /\ uport' = Null
     /\ fault' = IF \A o \in X : obj[o].live THEN "none" ELSE "dangling"
     /\ UNCHANGED <<used, clients, upc, want>>

\* uport_server_close of a PORT_REQ: the connections are closed; the queued
\* messages are freed, their cookies left as they are.
ClosePortReq(t, r) ==
  /\ Calls(t, r)
  /\ obj[r].kind = "PORT_REQ"
  /\ incoming[r] # <<>> => "close_busy" \in Careless
  /\ Dropped(t, r, Closed(clients[r]))
  /\ clients' = [clients EXCEPT ![r] = {}]
  /\ incoming' = [incoming EXCEPT ![r] = <<>>]
  /\ sleep' = Woken(Waiting(clients[r]))
  /\ fault' = IF \A o \in clients[r] \cup Range(incoming[r]) : obj[o].live
              THEN "none" ELSE "dangling"
  /\ UNCHANGED <<used, upc, port, uport, want>>

\* uport_server_close of a PORT_COOKIE.
ClosePortCookie(t, r) ==
  LET c == obj[r].data
      X == {upc[c].client} \ {Null}
  IN /\ Calls(t, r)
     /\ obj[r].kind = "PORT_COOKIE"
     /\ Dropped(t, r, Closed(X))
     /\ sleep' = Woken(Waiting(X))
     /\ upc' = [upc EXCEPT ![c] = NoCookie]
     /\ fault' = IF upc[c].response THEN "panic"
                 ELSE IF \A o \in X : obj[o].live THEN "none" ELSE "dangling"
     /\ UNCHANGED <<used, incoming, clients, port, uport, want>>

\* Any call on a descriptor whose request has been freed or never filled in.
UseFreed(t, r) ==
  /\ sleep[t] = "no" /\ r \in fds[t] /\ ~obj[r].live
  /\ fault' = "dangling"
  /\ UNCHANGED <<obj, used, fds, incoming, clients, upc, port, uport, waitVars>>

-----------------------------------------------------------------------------
\* uport_user_available and uport_server_available; 1 is reading, 2 writing.
Available(o, rw) ==
  \/ obj[o].state = "CLOSED"
  \/ obj[o].kind = "REQUEST" /\ rw = 2 /\ obj[o].state = "ESTABLISHED"
  \/ obj[o].kind = "COOKIE" /\ rw = 1 /\ obj[o].state = "ESTABLISHED"
       /\ upc[o].response
  \/ obj[o].kind = "PORT_COOKIE" /\ rw = 2
  \/ obj[o].kind \in {"PORT", "PORT_REQ"} /\ rw = 1 /\ incoming[o] # <<>>

SomeReady(w) ==
  (\E o \in w.rd : Available(o, 1)) \/ (\E o \in w.wr : Available(o, 2))

(***************************************************************************)
(* wait_on: return if a descriptor is ready, else sleep; after a wake-up   *)
(* look again (sleep[t] = "woken").                                        *)
(***************************************************************************)
WaitOn(t, w) ==
  /\ \/ sleep[t] = "no"
     \/ sleep[t] = "woken" /\ w = want[t]
  /\ w.rd \cup w.wr # {} /\ \A o \in w.rd \cup w.wr : o \in fds[t] /\ obj[o].live
  /\ \/ /\ SomeReady(w)
        /\ sleep' = [sleep EXCEPT ![t] = "no"]
        /\ want' = [want EXCEPT ![t] = [rd |-> {}, wr |-> {}]]
        /\ obj' = [o \in Obj |-> IF o \in w.rd \cup w.wr
                                 THEN [obj[o] EXCEPT !.waited = {}] ELSE obj[o]]
     \/ /\ ~SomeReady(w)
        /\ sleep' = [sleep EXCEPT ![t] = "asleep"]
        /\ want' = [want EXCEPT ![t] = w]
        /\ obj' = [o \in Obj |-> [obj[o] EXCEPT
             !.waited = @ \cup (IF o \in w.rd THEN {1} ELSE {})
                          \cup (IF o \in w.wr THEN {2} ELSE {})]]
  /\ UNCHANGED <<used, fds, incoming, clients, upc, port, uport, fault>>

\* Programs wait for one descriptor or for all of theirs.
WaitSets(t) ==
  LET X == {fds[t]} \cup {{o} : o \in fds[t]}
  IN [rd : X, wr : {{}}] \cup [rd : {{}}, wr : X] \cup {[rd |-> fds[t], wr |-> fds[t]]}

-----------------------------------------------------------------------------
ClientStep(t) ==
  \/ PortConnect(t)
  \/ \E r \in fds[t] : \/ Request(t, r) \/ RequestFails(t, r) \/ GetResponse(t, r)
                       \/ CloseConnection(t, r) \/ CloseCookie(t, r)
                       \/ \E u \in trial.clients : Dup(t, u, r)

ServerStep(t) ==
  \/ \E w \in {{}, {1}} : OpenPort(t, w)
  \/ \E r \in fds[t] : \/ PopRequest(t, r) \/ PopRequestFails(t, r) \/ Respond(t, r)
                       \/ ClosePort(t, r) \/ ClosePortReq(t, r) \/ ClosePortCookie(t, r)

AnyStep(t) ==
  \/ \E r \in fds[t] : UseFreed(t, r)
  \/ \E w \in WaitSets(t) : WaitOn(t, w)

Next ==
  /\ fault = "none"
  /\ trial' = trial
  /\ \/ \E t \in trial.clients : ClientStep(t)
     \/ \E t \in Server : ServerStep(t)
     \/ \E t \in Task : AnyStep(t)

Spec == Init /\ [][Next]_vars

-----------------------------------------------------------------------------
(* Properties.  All but the last hold only while no program makes a mistake. *)

Polite == trial.mistakes = {}

TypeOK ==
  /\ obj \in [Obj -> [kind : Kind, live : BOOLEAN, owner : Task \cup {Null},
                      state : {"SERVER", "PENDING", "ESTABLISHED", "CLOSED"},
                      data : Obj \cup {Null}, waited : SUBSET {1, 2}]]
  /\ used \in 0..trial.objs
  /\ fds \in [Task -> SUBSET Obj]
  /\ \A t \in Task : Cardinality(fds[t]) <= MaxFds
  /\ incoming \in [Obj -> Seq(Obj)]
  /\ clients \in [Obj -> SUBSET Obj]
  /\ upc \in [Obj -> [live : BOOLEAN, client : Obj \cup {Null}, response : BOOLEAN]]
  /\ port \in BOOLEAN
  /\ uport \in Obj \cup {Null}
  /\ sleep \in [Task -> {"no", "asleep", "woken"}]
  /\ want \in [Task -> [rd : SUBSET Obj, wr : SUBSET Obj]]
  /\ fault \in {"none", "null", "dangling", "deleted_again", "panic"}

Live(kind) == {o \in Obj : obj[o].live /\ obj[o].kind = kind}

(***************************************************************************)
(* Both ends of a connection agree (uport.c:185-191, 343-349, 460-466): a  *)
(* connection points to a PORT_REQ the server still holds if and only if   *)
(* it is established and on that PORT_REQ's list of clients.               *)
(***************************************************************************)
ConnectionsLinked ==
  /\ \A r \in Live("REQUEST") : obj[r].state = "ESTABLISHED" =>
       obj[r].data \in Live("PORT_REQ") /\ r \in clients[obj[r].data]
  /\ \A s \in Obj : \A r \in clients[s] :
       /\ s \in Live("PORT_REQ") /\ r \in Live("REQUEST")
       /\ obj[r].state = "ESTABLISHED" /\ obj[r].data = s

(***************************************************************************)
(* A descriptor stays valid until it is closed (port.c:78-126 fails with   *)
(* EAGAIN while a connection is not acknowledged yet, uport.c:281-283, so  *)
(* that the program can try again).                                        *)
(***************************************************************************)
DescriptorsLive == \A t \in Task : \A r \in fds[t] : obj[r].live

\* However connections are made, shared and closed from either end, the two ends
\* agree and no descriptor is left behind or taken away; a client does not close a
\* connection the server has closed already, which is one of the mistakes.
ObjectsLinked == Polite => TypeOK /\ ConnectionsLinked /\ DescriptorsLive

(***************************************************************************)
(* No message is lost or delivered twice.  A client end is PENDING, "not   *)
(* acknowledged" by the server (uport.c:282, 319), if and only if its      *)
(* message is in exactly one queue the server still reads.                 *)
(***************************************************************************)
PendingQueued ==
  /\ \A c \in Live("REQUEST") \cup Live("COOKIE") : obj[c].state = "PENDING" =>
       Cardinality(Queues(c)) = 1
  /\ \A o \in Obj :
       /\ incoming[o] # <<>> => o \in Live("PORT") \cup Live("PORT_REQ")
       /\ Cardinality(Range(incoming[o])) = Len(incoming[o])
       /\ \A c \in Range(incoming[o]) : obj[c].live /\ obj[c].state = "PENDING"

(***************************************************************************)
(* A cookie and its two holders (uport.c:194-200, 239-245, 371-380,        *)
(* 477-485): it exists while somebody needs it and no longer, an accepted  *)
(* request has an answer or a server who can still give it, never both,    *)
(* and a server that holds a cookie never points to a client gone.         *)
(***************************************************************************)
Answerers(c) == {s \in Live("PORT_COOKIE") : obj[s].data = c}
Accepted(c) == c \in Live("COOKIE") /\ obj[c].state = "ESTABLISHED"

CookiesOwned ==
  \A c \in Obj :
    /\ upc[c].live <=> Accepted(c) \/ Answerers(c) # {}
    /\ Accepted(c) => /\ upc[c].client = c
                      /\ Cardinality(Answerers(c)) = IF upc[c].response THEN 0 ELSE 1
    /\ upc[c].live /\ upc[c].client # Null => Accepted(c)

\* Every message and every cookie has the holders it should, through accepting,
\* answering and closing in any order.
MessagesOwned == Polite => PendingQueued /\ CookiesOwned

\* The kernel follows no null or dangling pointer and reaches no panic
\* (page_fault.c:30, uport.c:231, 286, 418, 484, list.h:322).
KernelSafe == Polite => fault = "none"

\* The refinement: what has become of each request of a client.
Phase(c) ==
  IF obj[c].kind # "COOKIE" THEN "none"
  ELSE IF ~obj[c].live THEN "done"
  ELSE CASE obj[c].state = "PENDING" -> "sent"
         [] obj[c].state = "CLOSED" -> "refused"
         [] OTHER -> IF upc[c].response THEN "answered" ELSE "taken"

Abstract == INSTANCE Rpc WITH Req <- Obj,
  phase <- [c \in Obj |-> IF Polite THEN Phase(c) ELSE "none"]

\* Each request is taken, answered or refused at most once, in that order
\* (Rpc).
RequestsAnsweredOnce == Abstract!RSpec

(***************************************************************************)
(* A task asleep in wait_on waits for nothing that has happened: whoever   *)
(* makes a descriptor ready has woken its owner (uport.c:207, 247, 271,    *)
(* 303, 451, 464, 480).                                                    *)
(***************************************************************************)
SleepersWaitForNothing ==
  fault = "none" => \A t \in Task : sleep[t] = "asleep" => ~SomeReady(want[t])
=============================================================================
