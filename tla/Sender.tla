------------------------------- MODULE Sender -------------------------------
(***************************************************************************)
(* MTProtoSender (telethon/network/mtprotosender.py) over one or more      *)
(* Connections (telethon/network/connection/connection.py).                *)
(*                                                                         *)
(* The tasks of the program: the user (send, cancel, connect, disconnect), *)
(* the keepalive loop of the client, the send and receive loops of the     *)
(* sender, the send and receive tasks of a Connection, any number of       *)
(* _reconnect tasks, and a _disconnect in progress.  A step goes from one  *)
(* await that really suspends to the next.                                 *)
(*                                                                         *)
(* A message id is the number of the packet a request travels in, with the *)
(* request: [pkt, r].  The id of a container is the number of its packet.  *)
(* Which requests of the queue share a packet depends on their sizes, so a *)
(* packet takes any of them; acknowledgements and updates are left out     *)
(* (they settle no future), and the authorization key exists already.      *)
(***************************************************************************)
EXTENDS Integers, FiniteSets

CONSTANTS
  Requests,       \* the requests user code sends
  Ping,           \* the PingRequest of the keepalive loop
  Whole,          \* in a rejection: the packet as a whole
  AutoReconnect,  \* the values of auto_reconnect to consider
  Overlap,        \* may a call of the user cross what is in progress?
  Pings,          \* is the keepalive loop running?
  Retries,        \* how often a reconnection is attempted
  MaxConnects,    \* bound on the calls of connect()
  MaxDisconnects, \* bound on the calls of disconnect()
  MaxDrops,       \* bound on broken links
  MaxFails,       \* bound on failed attempts to connect
  MaxResends,     \* bound on packets rejected with a request to send again
  MaxRefusals,    \* bound on packets rejected for good
  MaxDups,        \* bound on replies the server sends again
  MaxFloods,      \* bound on transport errors 429 and 404
  MaxGarbage,     \* bound on packets that cannot be read
  MaxCancels,     \* bound on cancelled futures
  MaxTimeouts,    \* bound on pongs that are late although the link is up
  MaxTasks,       \* bound on concurrent _reconnect tasks
  MaxGens         \* bound on concurrent generations of the two loops

ASSUME NamesAssumption ==
  /\ IsFiniteSet(Requests)
  /\ Ping \notin Requests
  /\ Whole \notin Requests \cup {Ping}
  /\ AutoReconnect \subseteq BOOLEAN
  /\ {Overlap, Pings} \subseteq BOOLEAN

ASSUME BoundsAssumption ==
  /\ Retries \in Nat \ {0}
  /\ MaxConnects \in Nat \ {0}
  /\ MaxTasks \in Nat \ {0}
  /\ MaxGens \in Nat \ {0}
  /\ {MaxDisconnects, MaxDrops, MaxFails, MaxResends, MaxRefusals, MaxDups,
      MaxFloods, MaxGarbage, MaxCancels, MaxTimeouts} \subseteq Nat

States == Requests \cup {Ping}     \* what the queue holds
Conns == 1..MaxConnects            \* the Connection objects, in order
Tasks == 1..MaxTasks
Gens == 1..MaxGens

VARIABLES
  auto,          \* _auto_reconnect
  crossed,       \* history: has a call of the user crossed what was in
                 \* progress (see Connect and Disconnect)?
  userConn,      \* _user_connected
  reconnecting,  \* _reconnecting
  conn,          \* _connection (0: None)
  gone,          \* is the future _disconnected done?
  gen,           \* the loops that the two handles refer to
  sl,            \* the send loops: "off", "get" (awaiting work), "put"
  held,          \* what a send loop in "put" is about to hand over
  rl,            \* the receive loops: the Connection awaited (0: not running)
  connecting,    \* connect() in progress: its Connection (0: none)
  disconnecting, \* _disconnect() in progress: "off", "clean" or "error"
  rec,           \* the _reconnect tasks: "off", "close", "cancel",
                 \* "connect", "sleep"
  target,        \* the Connection a _reconnect task is connecting
  tries,         \* its failed attempts
  open,          \* Connection._connected
  up,            \* is the link of the Connection in order?
  out,           \* Connection._send_queue, of one slot
  session,       \* _state.id
  queue,         \* _send_queue
  pending,       \* _pending_state
  container,     \* RequestState.container_id (0: None)
  ping,          \* is _ping set?
  fut,           \* the futures of the requests
  replies,       \* server: what it is going to say in this session
  ran,           \* server: the requests executed
  count          \* how often each bounded thing happened

sender == <<auto, crossed, userConn, reconnecting, conn, gone>>
loops  == <<gen, sl, held, rl>>
tasks  == <<connecting, disconnecting, rec, target, tries>>
wires  == <<open, up, out>>
work   == <<session, queue, pending, container, ping, fut>>
server == <<replies, ran>>
vars   == <<sender, loops, tasks, wires, work, server, count>>

NoPacket == [on |-> 0, session |-> 0, pkt |-> 0, states |-> {}]

Bound ==
  [connect |-> MaxConnects, disconnect |-> MaxDisconnects, drop |-> MaxDrops,
   fail |-> MaxFails, resend |-> MaxResends, refusal |-> MaxRefusals,
   dup |-> MaxDups, flood |-> MaxFloods, garbage |-> MaxGarbage,
   cancel |-> MaxCancels, timeout |-> MaxTimeouts]

(* One more of what, within its bound. *)
Count(what) ==
  /\ count[what] < Bound[what]
  /\ count' = [count EXCEPT ![what] = @ + 1]

(* A number nothing refers to: message and session ids are only ever       *)
(* compared, so one that is forgotten may come back.                       *)
Fresh(used) == CHOOSE n \in 1..(Cardinality(used) + 1) : n \notin used

Packets == {out[c] : c \in Conns} \cup {held[g] : g \in Gens}
UsedPkts ==
  {x.pkt : x \in pending} \cup {x.pkt : x \in replies}
    \cup {p.pkt : p \in Packets} \cup {container[s] : s \in States}

-----------------------------------------------------------------------------
(* Starting and ending the loops, reconnections and disconnections.        *)

(* The top of a loop: while self._user_connected and not self._reconnecting *)
Goes == userConn /\ ~reconnecting

(* Mutant: the send loop goes on. *)
CancelLoops_ReceiveOnly(r) ==
  /\ rl' = [g \in Gens |-> IF g = gen THEN 0 ELSE r[g]]
  /\ UNCHANGED <<gen, sl, held>>

(* _cancel(send_loop_handle, recv_loop_handle), with r instead of rl. *)
CancelLoops(r) ==
  /\ sl' = [g \in Gens |-> IF g = gen THEN "off" ELSE sl[g]]
  /\ held' = [g \in Gens |-> IF g = gen THEN NoPacket ELSE held[g]]
  /\ rl' = [g \in Gens |-> IF g = gen THEN 0 ELSE r[g]]
  /\ UNCHANGED gen

(* A new _reconnect task; it begins before anything that is awaiting goes  *)
(* on.  If _connection is None it dies; it disconnects that if it is open, *)
(* and otherwise only waits for the loops it cancels ("cancel").           *)
NewTask(o) ==
  IF conn = 0
  THEN UNCHANGED rec
  ELSE \E k \in Tasks :
         /\ rec[k] = "off" /\ \A j \in Tasks : j < k => rec[j] # "off"
         /\ rec' = [rec EXCEPT ![k] = IF o[conn] THEN "close" ELSE "cancel"]

(* Nothing that waits for the network, or for a task that does, overtakes  *)
(* a task that only waits for cancelled loops.                             *)
Calm == \A k \in Tasks : rec[k] # "cancel"

(* Mutant: the flag does not keep a second task from being started. *)
StartReconnect_Again(o) ==
  IF userConn
  THEN /\ reconnecting' = TRUE
       /\ NewTask(o)
       /\ open' = [c \in Conns |-> c # conn /\ o[c]]
  ELSE /\ open' = o
       /\ UNCHANGED <<reconnecting, rec>>

(* _start_reconnect; o is what open is already.  *)
StartReconnect(o) ==
  IF userConn /\ ~reconnecting
  THEN /\ reconnecting' = TRUE
       /\ NewTask(o)
       /\ open' = [c \in Conns |-> c # conn /\ o[c]]
  ELSE /\ open' = o
       /\ UNCHANGED <<reconnecting, rec>>

(* Connection.connect() succeeded on c; the rest of _connect().  The loops *)
(* find out at their top whether they have to run.                         *)
Establish(c, goes) ==
  /\ open' = [open EXCEPT ![c] = TRUE]
  /\ up' = [up EXCEPT ![c] = TRUE]
  /\ \E g \in Gens \ {gen} :
       /\ sl[g] = "off" /\ rl[g] = 0
       /\ \A h \in Gens \ {gen} : h < g => sl[h] # "off" \/ rl[h] # 0
       /\ gen' = g
       /\ sl' = [sl EXCEPT ![g] = IF goes THEN "get" ELSE "off"]
       /\ rl' = [rl EXCEPT ![g] = IF goes THEN conn ELSE 0]
  /\ gone' = FALSE
  /\ UNCHANGED <<held, out>>

PendingOf(s) == {x \in pending : x.r = s}

(* Mutants: the futures are forgotten; the caller of disconnected hangs. *)
EndDisconnect_Silent(kind) ==
  /\ pending' = {}
  /\ conn' = 0
  /\ gone' = TRUE
  /\ UNCHANGED fut

EndDisconnect_Unresolved(kind) ==
  /\ fut' = [r \in Requests |->
       IF fut[r] = "waiting" /\ PendingOf(r) # {} THEN "cancelled" ELSE fut[r]]
  /\ pending' = {}
  /\ conn' = 0
  /\ UNCHANGED gone

(* What _disconnect does once the connection is closed. *)
EndDisconnect(kind) ==
  /\ fut' = [r \in Requests |->
               IF fut[r] = "waiting" /\ PendingOf(r) # {}
               THEN IF kind = "error" THEN "error" ELSE "cancelled"
               ELSE fut[r]]
  /\ pending' = {}
  /\ conn' = 0
  /\ gone' = TRUE

-----------------------------------------------------------------------------
(* The user.                                                               *)

(* Nothing is in progress. *)
Idle == connecting = 0 /\ disconnecting = "off" /\ \A k \in Tasks : rec[k] = "off"

(* send() *)
Send(r) ==
  /\ userConn
  /\ fut[r] = "new"
  /\ fut' = [fut EXCEPT ![r] = "waiting"]
  /\ queue' = queue \cup {r}
  /\ UNCHANGED <<sender, loops, tasks, wires, session, pending,
                 container, ping, server, count>>

(* The caller is cancelled, or stops waiting. *)
Cancel(r) ==
  /\ fut[r] = "waiting"
  /\ Count("cancel")
  /\ fut' = [fut EXCEPT ![r] = "cancelled"]
  /\ UNCHANGED <<sender, loops, tasks, wires, session, queue, pending,
                 container, ping, server>>

(* connect(), with a new Connection, up to Connection.connect(); the lock  *)
(* keeps a second one out.  It crosses whatever is in progress.            *)
Connect ==
  /\ Calm
  /\ ~userConn
  /\ connecting = 0
  /\ crossed' = (crossed \/ ~Idle)
  /\ crossed' => Overlap
  /\ Count("connect")
  /\ conn' = count["connect"] + 1
  /\ connecting' = count["connect"] + 1
  /\ UNCHANGED <<auto, userConn, reconnecting, gone, loops, disconnecting, rec, target,
                 tries, wires, work, server>>

Connected ==
  /\ Calm
  /\ connecting # 0
  /\ Establish(connecting, ~reconnecting)
  /\ userConn' = TRUE
  /\ connecting' = 0
  /\ UNCHANGED <<auto, crossed, reconnecting, conn, disconnecting, rec, target, tries, work,
                 server, count>>

ConnectFails ==
  /\ Calm
  /\ connecting # 0
  /\ Count("fail")
  /\ connecting' = 0
  /\ UNCHANGED <<sender, loops, disconnecting, rec, target, tries, wires, work,
                 server>>

(* Beginning _disconnect(): if the connection is closed already nothing in *)
(* it suspends.  r is what rl is already.  (Only one may be suspended.)    *)
BeginDisconnect(kind, r) ==
  /\ userConn' = FALSE
  /\ open' = [open EXCEPT ![conn] = FALSE]
  /\ IF open[conn]
     THEN /\ disconnecting = "off"
          /\ disconnecting' = kind
          /\ rl' = r
          /\ UNCHANGED <<gen, sl, held, conn, gone, fut, pending>>
     ELSE /\ EndDisconnect(kind)
          /\ CancelLoops(r)
          /\ UNCHANGED disconnecting

(* disconnect().  It crosses a connect() or a reconnection that waits for   *)
(* the network; a task that is closing the Connection, or that sleeps,     *)
(* finds no Connection when it goes on.                                    *)
Disconnect ==
  /\ Calm
  /\ conn # 0
  /\ crossed' = (crossed \/ connecting # 0 \/ \E k \in Tasks : rec[k] = "connect")
  /\ crossed' => Overlap
  /\ Count("disconnect")
  /\ BeginDisconnect("clean", rl)
  /\ UNCHANGED <<auto, reconnecting, connecting, rec, target, tries, up, out, session,
                 queue, container, ping, server>>

(* The connection is closed: the rest of _disconnect(). *)
Disconnected ==
  /\ Calm
  /\ disconnecting # "off"
  /\ EndDisconnect(disconnecting)
  /\ CancelLoops(rl)
  /\ disconnecting' = "off"
  /\ UNCHANGED <<auto, crossed, userConn, reconnecting, connecting, rec, target, tries, wires,
                 session, queue, container, ping, server, count>>

(* _keepalive_loop and _keepalive_ping: every minute, if the transport is  *)
(* connected; a ping without pong means that the connection is dead.  (The *)
(* pong of an earlier ping has another ping_id, and would be ignored.)     *)
Keepalive ==
  /\ Pings
  /\ userConn /\ ~reconnecting /\ conn # 0 /\ open[conn]
  /\ \/ /\ ~ping
        /\ ping' = TRUE
        /\ queue' = queue \cup {Ping}
        /\ container' = [container EXCEPT ![Ping] = 0]
        /\ replies' = {x \in replies : x.kind # "result" \/ x.r # Ping}
        /\ UNCHANGED <<reconnecting, rec, open, count>>
     \/ /\ ping
        /\ IF up[conn] THEN Count("timeout") ELSE UNCHANGED count
        /\ StartReconnect(open)
        /\ UNCHANGED <<ping, queue, container, replies>>
  /\ UNCHANGED <<auto, crossed, userConn, conn, gone, loops, connecting, disconnecting, target,
                 tries, up, out, session, pending, fut, ran>>

-----------------------------------------------------------------------------
(* The send loop.                                                          *)

(* Handing the packet p to self._connection.send(). *)
HandOver(g, p) ==
  \/ /\ conn # 0 /\ open[conn] /\ out[conn] = NoPacket
     /\ out' = [out EXCEPT ![conn] = p]
     /\ sl' = [sl EXCEPT ![g] = IF Goes THEN "get" ELSE "off"]
     /\ UNCHANGED <<held, reconnecting, rec, open>>
  \/ /\ conn # 0 /\ open[conn] /\ out[conn] # NoPacket
     /\ held' = [held EXCEPT ![g] = p]
     /\ sl' = [sl EXCEPT ![g] = "put"]
     /\ UNCHANGED <<out, reconnecting, rec, open>>
  \/ /\ conn # 0 /\ ~open[conn]
     /\ StartReconnect(open)
     /\ sl' = [sl EXCEPT ![g] = "off"]
     /\ UNCHANGED <<out, held>>
  \/ /\ conn = 0
     /\ sl' = [sl EXCEPT ![g] = "off"]
     /\ UNCHANGED <<out, held, reconnecting, rec, open>>

(* The body of _send_loop: states that share a packet get its number, and  *)
(* are pending before the packet is handed over.                           *)
SendBatch(g, B) ==
  /\ sl[g] = "get"
  /\ B # {}
  /\ queue' = queue \ B
  /\ LET n == Fresh(UsedPkts)
     IN  /\ pending' = pending \cup {[pkt |-> n, r |-> s] : s \in B}
         /\ container' = [s \in States |->
              IF s \in B /\ Cardinality(B) > 1 THEN n ELSE container[s]]
         /\ HandOver(g, [on |-> conn, session |-> session, pkt |-> n, states |-> B])
  /\ UNCHANGED <<auto, crossed, userConn, conn, gone, gen, rl, connecting, disconnecting,
                 target, tries, up, session, ping, fut, server, count>>

(* Connection._send_queue.put() goes on. *)
PutDone(g) ==
  /\ sl[g] = "put"
  /\ out[held[g].on] = NoPacket
  /\ out' = [out EXCEPT ![held[g].on] = held[g]]
  /\ held' = [held EXCEPT ![g] = NoPacket]
  /\ sl' = [sl EXCEPT ![g] = IF Goes THEN "get" ELSE "off"]
  /\ UNCHANGED <<sender, gen, rl, tasks, open, up, work, server, count>>

-----------------------------------------------------------------------------
(* The tasks of a Connection, the network and the server.                  *)

Key(p) == [kind : {"resend", "refused"}, pkt : {p.pkt},
           r : IF Cardinality(p.states) > 1 THEN {Whole} ELSE p.states]

(* The server takes the packet p: it executes its requests, or rejects it, *)
(* to be sent again or for good.  It does not know an old session.         *)
Serve(p) ==
  \/ /\ p.session # session
     /\ UNCHANGED <<replies, ran, count>>
  \/ /\ p.session = session
     /\ replies' = replies \cup {[kind |-> "result", pkt |-> p.pkt, r |-> s] : s \in p.states}
     /\ ran' = ran \cup (p.states \cap Requests)
     /\ UNCHANGED count
  \/ /\ p.session = session
     /\ \E x \in Key(p) :
          /\ replies' = replies \cup {x}
          /\ Count(IF x.kind = "resend" THEN "resend" ELSE "refusal")
     /\ UNCHANGED ran

(* The send task.  With a broken link the packet is lost; should writing   *)
(* fail, the event loop wakes the receive task with the error as well, and *)
(* before the send task cancels it: that is Notice.                        *)
Write(c) ==
  /\ open[c]
  /\ out[c] # NoPacket
  /\ out' = [out EXCEPT ![c] = NoPacket]
  /\ IF up[c] THEN Serve(out[c]) ELSE UNCHANGED <<server, count>>
  /\ UNCHANGED <<sender, loops, tasks, open, up, work>>

(* The link breaks.  (Or the receive task of the link before, which may    *)
(* take ten seconds to close it while _connect opens this one, goes on     *)
(* because the Connection is connected again: two tasks cannot read from   *)
(* one stream, and the error ends this link.)                              *)
Drop(c) ==
  /\ open[c]
  /\ up[c]
  /\ Count("drop")
  /\ up' = [up EXCEPT ![c] = FALSE]
  /\ UNCHANGED <<sender, loops, tasks, open, out, work, server>>

(* The receive task reads an error or the end of the stream: it tells the  *)
(* receive loop, and disconnects.                                          *)
Notice(c) ==
  /\ open[c]
  /\ ~up[c]
  /\ LET o == [open EXCEPT ![c] = FALSE]
         listening == {g \in Gens : rl[g] = c}
     IN  IF listening = {}
         THEN open' = o /\ UNCHANGED <<reconnecting, rec, rl>>
         ELSE /\ \E g \in listening : rl' = [rl EXCEPT ![g] = 0]
              /\ StartReconnect(o)
  /\ UNCHANGED <<auto, crossed, userConn, conn, gone, gen, sl, held, connecting, disconnecting,
                 target, tries, up, out, work, server, count>>

-----------------------------------------------------------------------------
(* The receive loop and its handlers.                                      *)

Receiving(g) == rl[g] # 0 /\ open[rl[g]] /\ up[rl[g]]

(* The loop goes back to its top. *)
NextReceive(g) == rl' = [rl EXCEPT ![g] = IF Goes THEN conn ELSE 0]

(* The server says x, perhaps not for the last time.  (The rest of a       *)
(* container whose handling raises is not acknowledged, and comes again.)  *)
Say(x) ==
  /\ x \in replies
  /\ \/ replies' = replies \ {x} /\ UNCHANGED count
     \/ UNCHANGED replies /\ Count("dup")
  /\ UNCHANGED ran

(* _pop_states *)
PopStates(x) ==
  LET exact == {y \in pending : y.pkt = x.pkt /\ y.r = x.r}
  IN  IF exact # {} THEN exact
      ELSE {y \in pending : x.r = Whole /\ container[y.r] = x.pkt}

(* Mutant: a cancelled future gets a result. *)
CanSet_Unchecked(r) == fut[r] # "new"

(* if not state.future.cancelled() *)
CanSet(r) == fut[r] = "waiting"

(* Mutant: the pong is forgotten. *)
PingAfter_Same(x) == ping

PingAfter(x) == ping /\ x.r # Ping

(* _handle_rpc_result and _handle_pong *)
HandleResult(g, x) ==
  /\ Receiving(g)
  /\ x.kind = "result"
  /\ Say(x)
  /\ LET popped == {y \in pending : y.pkt = x.pkt /\ y.r = x.r}
     IN  /\ pending' = pending \ popped
         /\ fut' = [r \in Requests |->
              IF CanSet(r) /\ \E y \in popped : y.r = r
              THEN "answered" ELSE fut[r]]
  /\ ping' = PingAfter(x)
  /\ NextReceive(g)
  /\ UNCHANGED <<sender, gen, sl, held, tasks, wires, session, queue, container>>

(* Mutant: the states to send again stay pending. *)
Without_Nothing(P) == pending

Without(P) == pending \ P

(* _handle_bad_server_salt, and _handle_bad_notification when the messages *)
(* are to be sent again. *)
HandleResend(g, x) ==
  /\ Receiving(g)
  /\ x.kind = "resend"
  /\ Say(x)
  /\ pending' = Without(PopStates(x))
  /\ queue' = queue \cup {y.r : y \in PopStates(x)}
  /\ NextReceive(g)
  /\ UNCHANGED <<sender, gen, sl, held, tasks, wires, session, container, ping, fut>>

(* Mutant: the other requests of a container hear nothing. *)
Failing_One(popped) == {{CHOOSE r \in popped : TRUE}}

(* Of the popped futures all fail, or those before a cancelled one, on     *)
(* which set_exception raises. *)
Failing(popped) ==
  LET waiting == {r \in popped : fut[r] = "waiting"}
  IN  IF waiting = popped THEN {waiting} ELSE SUBSET waiting

(* _handle_bad_notification otherwise. *)
HandleRefused(g, x) ==
  /\ Receiving(g)
  /\ x.kind = "refused"
  /\ Say(x)
  /\ pending' = Without(PopStates(x))
  /\ \E R \in Failing({y.r : y \in PopStates(x)} \cap Requests) :
       fut' = [r \in Requests |-> IF r \in R THEN "error" ELSE fut[r]]
  /\ NextReceive(g)
  /\ UNCHANGED <<sender, gen, sl, held, tasks, wires, session, queue, container, ping>>

(* A transport error 429 or 404 disconnects for good, from within the loop *)
(* that received it.                                                       *)
HandleFlood(g) ==
  /\ Calm
  /\ Receiving(g)
  /\ conn # 0
  /\ Count("flood")
  /\ BeginDisconnect("error", [rl EXCEPT ![g] = 0])
  /\ UNCHANGED <<auto, crossed, reconnecting, connecting, rec, target, tries, up, out, session,
                 queue, container, ping, server>>

(* Any other error in reading or decrypting: the loop ends and the sender  *)
(* reconnects, although the Connection is open.                            *)
HandleGarbage(g) ==
  /\ Receiving(g)
  /\ Count("garbage")
  /\ rl' = [rl EXCEPT ![g] = 0]
  /\ StartReconnect(open)
  /\ UNCHANGED <<auto, crossed, userConn, conn, gone, gen, sl, held, connecting, disconnecting,
                 target, tries, up, out, work, server>>

-----------------------------------------------------------------------------
(* The _reconnect tasks.                                                   *)

(* Mutant: the flag is left for later, and the new loops see it. *)
ClearFlag_Later == UNCHANGED reconnecting

ClearFlag == reconnecting' = FALSE

(* The old connection is closed: the loops are cancelled, the session is a *)
(* new one (the server has nothing to say in it yet), and _connect() is    *)
(* called; without auto_reconnect _disconnect() is, with the error if there *)
(* is one (a missing pong is none, and starts only with an open link).     *)
ReconnectClosed(k) ==
  /\ \/ rec[k] = "close" /\ Calm
     \/ rec[k] = "cancel"
  /\ ClearFlag
  /\ session' = Fresh({session} \cup {p.session : p \in Packets})
  /\ replies' = {}
  /\ CancelLoops(rl)
  /\ \/ /\ auto
        /\ rec' = [rec EXCEPT ![k] = IF conn = 0 THEN "sleep" ELSE "connect"]
        /\ tries' = [tries EXCEPT ![k] = IF conn = 0 THEN 1 ELSE 0]
        /\ target' = [target EXCEPT ![k] = conn]
        /\ UNCHANGED <<userConn, conn, gone, disconnecting, open, fut, pending>>
     \/ /\ ~auto
        /\ rec' = [rec EXCEPT ![k] = "off"]
        /\ IF conn = 0
           THEN UNCHANGED <<userConn, conn, gone, disconnecting, open, fut, pending>>
           ELSE \E kind \in IF rec[k] = "close" THEN {"clean", "error"} ELSE {"error"} :
                  BeginDisconnect(kind, rl)
        /\ UNCHANGED <<target, tries>>
  /\ UNCHANGED <<auto, crossed, connecting, up, out, queue, container, ping, ran, count>>

(* Mutants: what was pending is forgotten; the ids instead of the states. *)
Requeued_Nothing == {}
Requeued_Ids == {x.pkt : x \in pending}

Requeued == {x.r : x \in pending}

(* _connect() succeeds: what was pending is sent again. *)
Reconnected(k) ==
  /\ Calm
  /\ rec[k] = "connect"
  /\ Establish(target[k], Goes)
  /\ queue' = queue \cup Requeued
  /\ pending' = {}
  /\ rec' = [rec EXCEPT ![k] = "off"]
  /\ tries' = [tries EXCEPT ![k] = 0]
  /\ target' = [target EXCEPT ![k] = 0]
  /\ UNCHANGED <<auto, crossed, userConn, reconnecting, conn, connecting, disconnecting, session,
                 container, ping, fut, server, count>>

ReconnectFails(k) ==
  /\ Calm
  /\ rec[k] = "connect"
  /\ Count("fail")
  /\ rec' = [rec EXCEPT ![k] = "sleep"]
  /\ tries' = [tries EXCEPT ![k] = @ + 1]
  /\ UNCHANGED <<sender, loops, connecting, disconnecting, target, wires, work, server>>

MayRetry(k) == tries[k] < Retries

(* After the delay: another attempt with whatever the connection is now    *)
(* (with none it fails), or _disconnect() if there were enough.            *)
Retry(k) ==
  /\ Calm
  /\ rec[k] = "sleep"
  /\ MayRetry(k)
  /\ IF conn # 0
     THEN /\ rec' = [rec EXCEPT ![k] = "connect"]
          /\ UNCHANGED tries
     ELSE /\ tries' = [tries EXCEPT ![k] = @ + 1]
          /\ UNCHANGED rec
  /\ target' = [target EXCEPT ![k] = conn]
  /\ UNCHANGED <<sender, loops, connecting, disconnecting, wires, work, server, count>>

Exhausted(k) ==
  /\ Calm
  /\ rec[k] = "sleep"
  /\ tries[k] = Retries
  /\ rec' = [rec EXCEPT ![k] = "off"]
  /\ tries' = [tries EXCEPT ![k] = 0]
  /\ target' = [target EXCEPT ![k] = 0]
  /\ IF conn = 0
     THEN UNCHANGED <<userConn, conn, gone, loops, disconnecting, open, fut, pending>>
     ELSE BeginDisconnect("error", rl)
  /\ UNCHANGED <<auto, crossed, reconnecting, connecting, up, out, session, queue, container, ping,
                 server, count>>

-----------------------------------------------------------------------------
Init ==
  /\ auto \in AutoReconnect
  /\ crossed = FALSE
  /\ userConn = FALSE
  /\ reconnecting = FALSE
  /\ conn = 0
  /\ gone = TRUE
  /\ gen = 1
  /\ sl = [g \in Gens |-> "off"]
  /\ held = [g \in Gens |-> NoPacket]
  /\ rl = [g \in Gens |-> 0]
  /\ connecting = 0
  /\ disconnecting = "off"
  /\ rec = [k \in Tasks |-> "off"]
  /\ target = [k \in Tasks |-> 0]
  /\ tries = [k \in Tasks |-> 0]
  /\ open = [c \in Conns |-> FALSE]
  /\ up = [c \in Conns |-> FALSE]
  /\ out = [c \in Conns |-> NoPacket]
  /\ session = 1
  /\ queue = {}
  /\ pending = {}
  /\ container = [s \in States |-> 0]
  /\ ping = FALSE
  /\ fut = [r \in Requests |-> "new"]
  /\ replies = {}
  /\ ran = {}
  /\ count = [b \in DOMAIN Bound |-> 0]

User == (\E r \in Requests : Send(r) \/ Cancel(r)) \/ Connect \/ Disconnect

Reconnecting(k) ==
  ReconnectClosed(k) \/ Reconnected(k) \/ Retry(k) \/ Exhausted(k)

Receive(g, x) == HandleResult(g, x) \/ HandleResend(g, x) \/ HandleRefused(g, x)

Next ==
  \/ User \/ Connected \/ ConnectFails \/ Disconnected \/ Keepalive
  \/ \E g \in Gens : PutDone(g) \/ HandleFlood(g) \/ HandleGarbage(g)
  \/ \E g \in Gens : \E B \in SUBSET queue : SendBatch(g, B)
  \/ \E g \in Gens : \E x \in replies : Receive(g, x)
  \/ \E c \in Conns : Write(c) \/ Drop(c) \/ Notice(c)
  \/ \E k \in Tasks : Reconnecting(k) \/ ReconnectFails(k)

Spec == Init /\ [][Next]_vars

(* Tasks that can run do, the queue is served in order, the server answers *)
(* everything it got in the end, and the minute of the keepalive loop       *)
(* passes; that a broken link is ever noticed is not assumed.               *)
FairSpec ==
  /\ Spec
  /\ WF_vars(Connected) /\ WF_vars(Disconnected) /\ WF_vars(Keepalive)
  /\ \A s \in States :
       WF_vars(\E g \in Gens : \E B \in SUBSET queue : s \in B /\ SendBatch(g, B))
  /\ \A r \in States \cup {Whole} :
       SF_vars(\E g \in Gens : \E x \in replies : x.r = r /\ Receive(g, x))
  /\ \A g \in Gens : WF_vars(PutDone(g))
  /\ \A c \in Conns : WF_vars(Write(c))
  /\ \A k \in Tasks : WF_vars(Reconnecting(k))

-----------------------------------------------------------------------------
(* Properties.                                                             *)

(* Types; what a state, a reply and a packet look like.                    *)
PendingState == [pkt : Nat, r : States]
Reply == [kind : {"result", "resend", "refused"}, pkt : Nat, r : States \cup {Whole}]
Packet == [on : 0..MaxConnects, session : Nat, pkt : Nat, states : SUBSET States]

FlagTypes ==
  /\ {auto, crossed, userConn, reconnecting, gone, ping} \subseteq BOOLEAN
  /\ open \in [Conns -> BOOLEAN]
  /\ up \in [Conns -> BOOLEAN]

LoopTypes ==
  /\ gen \in Gens
  /\ sl \in [Gens -> {"off", "get", "put"}]
  /\ held \in [Gens -> Packet]
  /\ rl \in [Gens -> 0..MaxConnects]

TaskTypes ==
  /\ {conn, connecting} \subseteq 0..MaxConnects
  /\ disconnecting \in {"off", "clean", "error"}
  /\ rec \in [Tasks -> {"off", "close", "cancel", "connect", "sleep"}]
  /\ target \in [Tasks -> 0..MaxConnects]
  /\ count \in [DOMAIN Bound -> Nat]

(* A reconnection is attempted at most Retries times. *)
Attempts ==
  /\ tries \in [Tasks -> 0..Retries]
  /\ \A k \in Tasks : /\ rec[k] \in {"off", "close", "cancel"} => tries[k] = 0
                      /\ rec[k] = "connect" => tries[k] < Retries

WorkTypes ==
  /\ out \in [Conns -> Packet]
  /\ session \in Nat
  /\ queue \subseteq States
  /\ pending \subseteq PendingState
  /\ container \in [States -> Nat]
  /\ fut \in [Requests -> {"new", "waiting", "answered", "error", "cancelled"}]
  /\ replies \subseteq Reply
  /\ ran \subseteq Requests

TypeOK == FlagTypes /\ LoopTypes /\ TaskTypes /\ Attempts /\ WorkTypes

(* A request somebody waits for is queued or pending: no reconnection,     *)
(* rejection or cancelled task loses it ("If they were never re-enqueued,  *)
(* the future waiting for a response locks", mtprotosender.py:480).        *)
NoneLost ==
  \A r \in Requests : fut[r] = "waiting" => r \in queue \/ PendingOf(r) # {}

(* ... and it is there once, so that one failure sends it again only once. *)
SentOnce ==
  \A r \in Requests :
    /\ Cardinality(PendingOf(r)) <= 1
    /\ r \in queue => PendingOf(r) = {}

(* Unless a call of the user crossed what was in progress: there is never *)
(* a second send or receive loop, nor a Connection whose connect() is      *)
(* called again before it is disconnected.                                 *)
OneReceiver ==
  ~crossed => /\ \A g \in Gens \ {gen} : rl[g] = 0 /\ sl[g] = "off"
              /\ \A k \in Tasks : rec[k] = "connect" => ~open[target[k]]

(* ... a connected sender with nothing in progress runs both its loops on  *)
(* its Connection.                                                         *)
Serving ==
  ~crossed /\ userConn /\ Idle =>
    ~reconnecting /\ conn # 0 /\ sl[gen] # "off" /\ rl[gen] = conn

(* After disconnect() nothing is left: no open Connection, and the future  *)
(* disconnected is done ("Cleanly disconnects the instance from the        *)
(* network", mtprotosender.py:150).                                        *)
Clean == ~userConn /\ Idle => gone /\ \A c \in Conns : ~open[c]

(* ... unless such a call crossed. *)
Closed == ~crossed => Clean

(* A ping whose pong a connected sender waits for is queued or pending:    *)
(* that no pong has arrived means something. *)
PingTracked == userConn /\ ping => Ping \in queue \/ PendingOf(Ping) # {}

(* The callers see what Rpc promises. *)
RpcSpec == INSTANCE Rpc WITH Requests <- Requests, fut <- fut, ran <- ran
Promise == RpcSpec!Spec

(* Every request is settled in the end. *)
Settled == \A r \in Requests : fut[r] = "waiting" ~> fut[r] # "waiting"
=============================================================================
