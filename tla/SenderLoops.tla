---------------------------- MODULE SenderLoops ----------------------------
(***************************************************************************)
(* Proofs about the loops of Sender, with auto_reconnect and without,      *)
(* whoever starts a reconnection: until a call of the user has crossed     *)
(* what was in progress there is never a second pair of loops, nor a       *)
(* connected sender without one, nor a disconnected one with a Connection. *)
(***************************************************************************)
EXTENDS SenderProofs

-----------------------------------------------------------------------------
(* The invariant.                                                          *)

Busy(k) == rec[k] # "off"

Silent == sl[gen] = "off" /\ rl[gen] = 0

AllShut == \A c \in Conns : ~open[c]

(* One _reconnect task at a time, while nothing is open or connecting; the *)
(* flag is set until the loops are cancelled, and the loops are gone from  *)
(* then on.  If the user has disconnected meanwhile the task is left       *)
(* without a Connection, and not in the middle of connecting one.          *)
OneTask ==
  /\ \A j, k \in Tasks : Busy(j) /\ Busy(k) => j = k
  /\ reconnecting <=> \E k \in Tasks : rec[k] \in {"close", "cancel"}
  /\ \A k \in Tasks : Busy(k) => /\ AllShut /\ connecting = 0 /\ disconnecting = "off"
                                 /\ userConn \/ conn = 0
  /\ \A k \in Tasks : rec[k] \in {"connect", "sleep"} => Silent
  /\ \A k \in Tasks : rec[k] = "connect" => userConn /\ target[k] = conn

(* The loops of the last generation serve the current Connection, and all  *)
(* others are gone. *)
OneGeneration ==
  /\ \A g \in Gens \ {gen} : rl[g] = 0 /\ sl[g] = "off"
  /\ rl[gen] \in {0, conn}
  /\ \A c \in Conns : open[c] => c = conn

(* connect() and disconnect() do not overlap, and begin and end with       *)
(* nothing running. *)
UserWaits ==
  /\ userConn => conn # 0 /\ connecting = 0 /\ disconnecting = "off"
  /\ connecting # 0 => connecting = conn /\ disconnecting = "off"
  /\ ~userConn => AllShut
  /\ ~userConn /\ disconnecting = "off" => Silent /\ gone

Serves == userConn /\ Idle => ~reconnecting /\ conn # 0 /\ sl[gen] # "off" /\ rl[gen] = conn

LoopsInv == OneTask /\ OneGeneration /\ UserWaits /\ Serves

LEMMA InitLoops == Init => LoopsInv
<1> SUFFICES ASSUME Init PROVE LoopsInv
  OBVIOUS
<1>2. OneTask
  BY DEF Init, OneTask, Busy
<1>3. OneGeneration
  BY BoundsAssumption DEF Init, OneGeneration, Gens
<1>4. UserWaits
  BY BoundsAssumption DEF Init, UserWaits, AllShut, Silent, Gens
<1>5. Serves
  BY DEF Init, Serves
<1> QED BY <1>2, <1>3, <1>4, <1>5 DEF LoopsInv

-----------------------------------------------------------------------------
(* Starting and ending things.                                             *)

(* A step that none of it concerns. *)
Elsewhere ==
  UNCHANGED <<auto, userConn, reconnecting, conn, gone, gen, sl, rl, connecting,
              disconnecting, rec, target, open>>

LEMMA ElsewhereStep == LoopsInv /\ Elsewhere => LoopsInv'
<1> SUFFICES ASSUME LoopsInv, Elsewhere PROVE LoopsInv'
  OBVIOUS
<1>2. OneTask'
  BY DEF LoopsInv, Elsewhere, OneTask, Busy, Silent, AllShut
<1>3. OneGeneration'
  BY DEF LoopsInv, Elsewhere, OneGeneration
<1>4. UserWaits'
  BY DEF LoopsInv, Elsewhere, UserWaits, Silent, AllShut
<1>5. Serves'
  BY DEF LoopsInv, Elsewhere, Serves, Idle
<1> QED BY <1>2, <1>3, <1>4, <1>5 DEF LoopsInv

(* The current Connection is one of them. *)
LEMMA ConnType ==
  ASSUME TypeOK, conn # 0
  PROVE  conn \in Conns
BY BoundsAssumption DEF TypeOK, TaskTypes, Conns

(* When a Connection is open no task is at work. *)
LEMMA OpenMeansFree ==
  ASSUME LoopsInv, NEW c \in Conns, open[c]
  PROVE  ~reconnecting /\ \A k \in Tasks : ~Busy(k)
BY DEF LoopsInv, OneTask, AllShut, Busy

(* A loop that runs means that no task waits for the network. *)
LEMMA RunningMeansFree ==
  ASSUME TypeOK, LoopsInv, NEW g \in Gens, sl[g] # "off" \/ rl[g] # 0, ~reconnecting
  PROVE  g = gen /\ \A k \in Tasks : ~Busy(k)
<1>1. g = gen /\ ~Silent
  BY DEF LoopsInv, OneGeneration, Silent
<1>2. ASSUME NEW k \in Tasks, Busy(k) PROVE FALSE
  <2>1. rec[k] \in {"close", "cancel", "connect", "sleep"}
    BY <1>2 DEF Busy, TypeOK, TaskTypes
  <2> QED BY <1>1, <2>1 DEF LoopsInv, OneTask
<1> QED BY <1>1, <1>2

(* A task starts: the Connection is closed, if it is not already. *)
LEMMA TaskStarts ==
  ASSUME TypeOK, LoopsInv, NEW o \in [Conns -> BOOLEAN], StartReconnect(o),
         userConn, ~reconnecting, \A k \in Tasks : ~Busy(k),
         \A c \in Conns : o[c] => open[c],
         UNCHANGED <<auto, userConn, conn, gone, gen, connecting, disconnecting, target>>,
         \A g \in Gens \ {gen} : rl'[g] = 0 /\ sl'[g] = "off",
         rl'[gen] \in {0, conn}
  PROVE  LoopsInv'
<1>1. conn # 0 /\ conn \in Conns
  BY ConnType DEF LoopsInv, UserWaits
<1>2. PICK k \in Tasks : rec' = [rec EXCEPT ![k] = IF o[conn] THEN "close" ELSE "cancel"]
  BY <1>1 DEF StartReconnect, NewTask
<1>3. /\ \A j \in Tasks \ {k} : rec'[j] = "off"
      /\ rec'[k] \in {"close", "cancel"}
  BY <1>2 DEF Busy, TypeOK, TaskTypes
<1>4. reconnecting' = TRUE /\ open' = [c \in Conns |-> c # conn /\ o[c]]
  BY DEF StartReconnect
<1>5. AllShut' /\ connecting' = 0 /\ disconnecting' = "off"
  BY <1>4 DEF LoopsInv, OneGeneration, UserWaits, AllShut
<1>6. OneTask'
  BY <1>3, <1>4, <1>5 DEF OneTask, Busy
<1>7. OneGeneration'
  BY <1>4 DEF LoopsInv, OneGeneration
<1>8. UserWaits'
  BY <1>5 DEF LoopsInv, UserWaits
<1>9. Serves'
  BY <1>3 DEF Serves, Idle
<1> QED BY <1>6, <1>7, <1>8, <1>9 DEF LoopsInv

(* A Connection is established: a new generation serves it. *)
LEMMA Establishes ==
  ASSUME TypeOK, LoopsInv, Silent, conn # 0, Establish(conn, TRUE),
         \A c \in Conns : ~open[c],
         ~reconnecting', \A k \in Tasks : rec'[k] = "off",
         userConn' = TRUE, connecting' = 0, disconnecting = "off",
         UNCHANGED <<auto, conn, disconnecting>>
  PROVE  LoopsInv'
<1>1. PICK g \in Gens \ {gen} :
        /\ gen' = g
        /\ sl' = [sl EXCEPT ![g] = "get"]
        /\ rl' = [rl EXCEPT ![g] = conn]
  BY DEF Establish
<1>2. /\ \A h \in Gens \ {g} : sl'[h] = "off" /\ rl'[h] = 0
      /\ sl'[g] = "get" /\ rl'[g] = conn
  BY <1>1 DEF LoopsInv, OneGeneration, Silent, TypeOK, LoopTypes
<1>3. \A c \in Conns : open'[c] => c = conn
  BY DEF Establish, TypeOK, FlagTypes
<1>5. OneTask'
  BY DEF OneTask, Busy
<1>6. OneGeneration'
  BY <1>1, <1>2, <1>3 DEF OneGeneration
<1>7. UserWaits'
  BY DEF UserWaits
<1>8. Serves'
  BY <1>1, <1>2 DEF Serves
<1> QED BY <1>5, <1>6, <1>7, <1>8 DEF LoopsInv

(* _disconnect() begins, and is over at once if the Connection is closed.  *)
LEMMA Disconnects ==
  ASSUME TypeOK, LoopsInv, NEW kind, kind # "off", NEW r,
         BeginDisconnect(kind, r),
         conn # 0, connecting = 0,
         \A g \in Gens : r[g] \in {rl[g], 0}, DOMAIN r = Gens,
         \/ ~reconnecting' /\ \A k \in Tasks : rec'[k] = "off"
         \/ /\ UNCHANGED <<reconnecting, rec, target>>
            /\ \A k \in Tasks : rec[k] # "connect",
         UNCHANGED <<auto, connecting>>
  PROVE  LoopsInv'
<1>1. userConn' = FALSE /\ open' = [open EXCEPT ![conn] = FALSE]
  BY DEF BeginDisconnect
<1>2. AllShut' /\ Serves'
  BY <1>1 DEF LoopsInv, OneGeneration, TypeOK, FlagTypes, AllShut, Serves
<1>4. CASE open[conn]
  <2>1. /\ disconnecting' = kind
        /\ rl' = r
        /\ UNCHANGED <<gen, sl, conn, gone>>
    BY <1>4 DEF BeginDisconnect
  <2>2. OneGeneration'
    BY <1>2, <2>1 DEF LoopsInv, OneGeneration, AllShut, TypeOK, LoopTypes
  <2>3. UserWaits'
    BY <1>1, <1>2, <2>1 DEF UserWaits
  <2>4. ~reconnecting' /\ \A k \in Tasks : rec'[k] = "off"
    BY <1>4, ConnType, OpenMeansFree DEF Busy
  <2>5. OneTask'
    BY <2>4 DEF OneTask, Busy
  <2> QED BY <1>2, <2>2, <2>3, <2>5 DEF LoopsInv
<1>5. CASE ~open[conn]
  <2>1. /\ conn' = 0 /\ gone' = TRUE
        /\ UNCHANGED <<gen, disconnecting>>
        /\ sl' = [g \in Gens |-> IF g = gen THEN "off" ELSE sl[g]]
        /\ rl' = [g \in Gens |-> IF g = gen THEN 0 ELSE r[g]]
    BY <1>5 DEF BeginDisconnect, EndDisconnect, CancelLoops
  <2>2. OneGeneration' /\ Silent'
    BY <1>2, <2>1 DEF LoopsInv, OneGeneration, AllShut, Silent, TypeOK, LoopTypes
  <2>3. UserWaits'
    BY <1>1, <1>2, <2>1, <2>2 DEF UserWaits
  <2>4. OneTask'
    <3>1. CASE ~reconnecting' /\ \A k \in Tasks : rec'[k] = "off"
      BY <3>1 DEF OneTask, Busy
    <3>2. CASE /\ UNCHANGED <<reconnecting, rec, target>>
               /\ \A k \in Tasks : rec[k] # "connect"
      BY <1>2, <2>1, <2>2, <3>2 DEF LoopsInv, OneTask, Busy
    <3> QED BY <3>1, <3>2
  <2> QED BY <1>2, <2>2, <2>3, <2>4 DEF LoopsInv
<1> QED BY <1>4, <1>5

(* A Connection may close under everybody. *)
LEMMA Closes ==
  ASSUME LoopsInv, \A c \in Conns : open'[c] => open[c],
         UNCHANGED <<auto, userConn, reconnecting, conn, gone, gen, sl, rl, connecting,
                     disconnecting, rec, target>>
  PROVE  LoopsInv'
<1>1. OneTask'
  BY DEF LoopsInv, OneTask, AllShut, Busy, Silent
<1>2. OneGeneration'
  BY DEF LoopsInv, OneGeneration
<1>3. UserWaits'
  BY DEF LoopsInv, UserWaits, AllShut, Silent
<1>4. Serves'
  BY DEF LoopsInv, Serves, Idle
<1> QED BY <1>1, <1>2, <1>3, <1>4 DEF LoopsInv

(* A send loop goes on unless its top tells it to end. *)
LEMMA SendLoopGoesOn ==
  ASSUME TypeOK, LoopsInv, NEW g \in Gens, sl[g] # "off",
         NEW v, sl' = [sl EXCEPT ![g] = v], v = "off" => ~Goes,
         UNCHANGED <<auto, userConn, reconnecting, conn, gone, gen, rl, connecting,
                     disconnecting, rec, target, open>>
  PROVE  LoopsInv'
<1>1. g = gen /\ ~Silent
  BY DEF LoopsInv, OneGeneration, Silent
<1>2. sl'[gen] = v /\ \A h \in Gens \ {gen} : sl'[h] = sl[h]
  BY <1>1 DEF TypeOK, LoopTypes
<1>4. OneTask'
  BY <1>1 DEF LoopsInv, OneTask, Busy, AllShut
<1>5. OneGeneration'
  BY <1>2 DEF LoopsInv, OneGeneration
<1>6. UserWaits'
  BY <1>1 DEF LoopsInv, UserWaits, AllShut
<1>7. Serves'
  BY <1>2 DEF LoopsInv, Serves, Idle, Goes
<1> QED BY <1>4, <1>5, <1>6, <1>7 DEF LoopsInv

(* A receive loop does so too, with the current Connection. *)
LEMMA ReceiveLoopGoesOn ==
  ASSUME TypeOK, LoopsInv, NEW g \in Gens, rl[g] # 0, NextReceive(g),
         UNCHANGED <<auto, userConn, reconnecting, conn, gone, gen, sl, connecting,
                     disconnecting, rec, target, open>>
  PROVE  LoopsInv'
<1>1. g = gen /\ ~Silent
  BY DEF LoopsInv, OneGeneration, Silent
<1>2. /\ rl'[gen] = IF Goes THEN conn ELSE 0
      /\ \A h \in Gens \ {gen} : rl'[h] = rl[h]
  BY <1>1 DEF NextReceive, TypeOK, LoopTypes
<1>4. OneTask'
  BY <1>1 DEF LoopsInv, OneTask, Busy, AllShut
<1>5. OneGeneration'
  BY <1>2 DEF LoopsInv, OneGeneration
<1>6. UserWaits'
  BY <1>1 DEF LoopsInv, UserWaits, AllShut
<1>7. Serves'
  BY <1>2 DEF LoopsInv, Serves, Idle, Goes
<1> QED BY <1>4, <1>5, <1>6, <1>7 DEF LoopsInv

-----------------------------------------------------------------------------
(* The user.                                                               *)

LEMMA ConnectLoops ==
  ASSUME TypeOK, LoopsInv, Connect, ~crossed'
  PROVE  LoopsInv'
<1>1. Idle
  BY DEF Connect
<1>2. /\ connecting = 0 /\ disconnecting = "off" /\ ~reconnecting
      /\ \A k \in Tasks : rec[k] = "off"
  BY <1>1 DEF Idle, LoopsInv, OneTask
<1>3. Silent /\ gone /\ ~userConn /\ AllShut
  BY <1>2 DEF Connect, LoopsInv, UserWaits
<1> USE <1>2, <1>3 DEF Connect, loops, wires
<1>4. OneTask'
  BY DEF OneTask, Busy
<1>5. OneGeneration'
  BY DEF LoopsInv, OneGeneration, AllShut, Silent
<1>6. UserWaits'
  BY DEF UserWaits, AllShut, Silent
<1>7. Serves'
  BY DEF Serves
<1> QED BY <1>4, <1>5, <1>6, <1>7 DEF LoopsInv

LEMMA ConnectedLoops ==
  ASSUME TypeOK, LoopsInv, Connected
  PROVE  LoopsInv'
<1>1. connecting = conn /\ conn # 0 /\ disconnecting = "off" /\ ~userConn
  BY DEF LoopsInv, UserWaits, Connected
<1>2. Silent /\ \A c \in Conns : ~open[c]
  BY <1>1 DEF LoopsInv, UserWaits, AllShut
<1>3. ~reconnecting /\ \A k \in Tasks : rec[k] = "off"
  BY <1>1 DEF LoopsInv, OneTask, Busy
<1>4. Establish(conn, TRUE)
  BY <1>1, <1>3 DEF Connected
<1> QED BY <1>1, <1>2, <1>3, <1>4, Establishes DEF Connected

LEMMA ConnectFailsLoops ==
  ASSUME TypeOK, LoopsInv, ConnectFails
  PROVE  LoopsInv'
<1> USE DEF ConnectFails, sender, loops, wires
<1>2. OneTask'
  BY DEF LoopsInv, OneTask, Busy, Silent
<1>3. OneGeneration'
  BY DEF LoopsInv, OneGeneration
<1>4. UserWaits'
  BY DEF LoopsInv, UserWaits, Silent, AllShut
<1>5. Serves'
  BY DEF LoopsInv, UserWaits, Serves
<1> QED BY <1>2, <1>3, <1>4, <1>5 DEF LoopsInv

LEMMA DisconnectLoops ==
  ASSUME TypeOK, LoopsInv, Disconnect, ~crossed'
  PROVE  LoopsInv'
<1>1. connecting = 0 /\ \A k \in Tasks : rec[k] # "connect"
  BY DEF Disconnect
<1>2. DOMAIN rl = Gens
  BY DEF TypeOK, LoopTypes
<1> QED BY <1>1, <1>2, Disconnects DEF Disconnect

LEMMA DisconnectedLoops ==
  ASSUME TypeOK, LoopsInv, Disconnected
  PROVE  LoopsInv'
<1>1. ~userConn /\ connecting = 0 /\ disconnecting # "off" /\ AllShut
  BY DEF Disconnected, LoopsInv, UserWaits
<1>2. ~reconnecting /\ \A k \in Tasks : rec[k] = "off"
  BY <1>1 DEF LoopsInv, OneTask, Busy
<1>3. Silent' /\ OneGeneration'
  BY <1>1 DEF Disconnected, CancelLoops, EndDisconnect, Silent, wires, LoopsInv,
     OneGeneration, AllShut, TypeOK, LoopTypes
<1>4. UserWaits'
  BY <1>1, <1>3 DEF Disconnected, EndDisconnect, UserWaits, AllShut, wires
<1>5. OneTask' /\ Serves'
  BY <1>1, <1>2 DEF Disconnected, LoopsInv, OneTask, Busy, Serves
<1> QED BY <1>3, <1>4, <1>5 DEF LoopsInv

LEMMA KeepaliveLoops ==
  ASSUME TypeOK, LoopsInv, Keepalive
  PROVE  LoopsInv'
<1>1. CASE UNCHANGED <<reconnecting, rec, open, count>>
  BY <1>1, ElsewhereStep DEF Keepalive, Elsewhere, loops
<1>2. CASE StartReconnect(open)
  <2>1. ~reconnecting /\ userConn /\ \A k \in Tasks : ~Busy(k)
    BY ConnType, OpenMeansFree DEF Keepalive
  <2>2. /\ UNCHANGED <<auto, userConn, conn, gone, gen, connecting, disconnecting, target>>
        /\ UNCHANGED <<sl, rl>>
    BY DEF Keepalive, loops
  <2>3. open \in [Conns -> BOOLEAN]
    BY DEF TypeOK, FlagTypes
  <2>4. /\ \A g \in Gens \ {gen} : rl'[g] = 0 /\ sl'[g] = "off"
        /\ rl'[gen] \in {0, conn}
    BY <2>2 DEF LoopsInv, OneGeneration
  <2> QED BY <1>2, <2>1, <2>2, <2>3, <2>4, TaskStarts
<1> QED BY <1>1, <1>2 DEF Keepalive

-----------------------------------------------------------------------------
(* The loops and the tasks of a Connection.                                *)

LEMMA PutDoneLoops ==
  ASSUME TypeOK, LoopsInv, NEW g \in Gens, PutDone(g)
  PROVE  LoopsInv'
<1>1. sl' = [sl EXCEPT ![g] = IF Goes THEN "get" ELSE "off"]
  BY DEF PutDone
<1>2. ((IF Goes THEN "get" ELSE "off") = "off") => ~Goes
  OBVIOUS
<1> QED BY <1>1, <1>2, SendLoopGoesOn DEF PutDone, sender, tasks

LEMMA SendBatchLoops ==
  ASSUME TypeOK, LoopsInv, NEW g \in Gens, NEW B, SendBatch(g, B)
  PROVE  LoopsInv'
<1>1. PICK p : HandOver(g, p)
  BY DEF SendBatch
<1>2. /\ sl[g] # "off"
      /\ UNCHANGED <<auto, userConn, conn, gone, gen, rl, connecting, disconnecting, target>>
  BY DEF SendBatch
<1>3. CASE UNCHANGED <<reconnecting, rec, open>> /\ conn # 0 /\ open[conn]
  <2>1. PICK v : sl' = [sl EXCEPT ![g] = v] /\ (v = "off" => ~Goes)
    BY <1>1, <1>3 DEF HandOver
  <2> QED BY <1>2, <1>3, <2>1, SendLoopGoesOn
<1>4. CASE StartReconnect(open) /\ ~open[conn] /\ sl' = [sl EXCEPT ![g] = "off"]
  <2>1. CASE userConn /\ ~reconnecting
    <3>1. g = gen /\ \A k \in Tasks : ~Busy(k)
      BY <1>2, <2>1, RunningMeansFree
    <3>2. /\ \A h \in Gens \ {gen} : rl'[h] = 0 /\ sl'[h] = "off"
          /\ rl'[gen] \in {0, conn}
      BY <1>2, <1>4, <3>1 DEF LoopsInv, OneGeneration, TypeOK, LoopTypes
    <3>3. open \in [Conns -> BOOLEAN]
      BY DEF TypeOK, FlagTypes
    <3> QED BY <1>2, <1>4, <2>1, <3>1, <3>2, <3>3, TaskStarts
  <2>2. CASE ~(userConn /\ ~reconnecting)
    <3>1. UNCHANGED <<reconnecting, rec, open>> /\ ~Goes
      BY <1>4, <2>2 DEF StartReconnect, Goes
    <3> QED BY <1>2, <1>4, <3>1, SendLoopGoesOn
  <2> QED BY <2>1, <2>2
<1>5. CASE UNCHANGED <<reconnecting, rec, open>> /\ conn = 0 /\ sl' = [sl EXCEPT ![g] = "off"]
  <2>1. ~Goes
    BY <1>5 DEF Goes, LoopsInv, UserWaits
  <2> QED BY <1>2, <1>5, <2>1, SendLoopGoesOn
<1> QED BY <1>1, <1>3, <1>4, <1>5 DEF HandOver

LEMMA ReceiveLoops ==
  ASSUME TypeOK, LoopsInv, NEW g \in Gens, NEW x, Receive(g, x)
  PROVE  LoopsInv'
<1>1. rl[g] # 0 /\ NextReceive(g)
  BY DEF Receive, HandleResult, HandleResend, HandleRefused, Receiving
<1>2. UNCHANGED <<sender, gen, sl, tasks, wires>>
  BY DEF Receive, HandleResult, HandleResend, HandleRefused
<1> QED BY <1>1, <1>2, ReceiveLoopGoesOn DEF sender, tasks, wires

LEMMA NoticeLoops ==
  ASSUME TypeOK, LoopsInv, NEW c \in Conns, Notice(c)
  PROVE  LoopsInv'
<1> DEFINE o == [open EXCEPT ![c] = FALSE]
<1>1. c = conn /\ open[conn] /\ userConn
  BY DEF Notice, LoopsInv, OneGeneration, UserWaits, AllShut
<1>2. /\ o \in [Conns -> BOOLEAN]
      /\ ~o[conn]
      /\ \A d \in Conns : o[d] => open[d]
  BY <1>1 DEF TypeOK, FlagTypes
<1>3. UNCHANGED <<auto, userConn, conn, gone, gen, sl, connecting, disconnecting, target>>
  BY DEF Notice
<1>4. CASE open' = o /\ UNCHANGED <<reconnecting, rec, rl>>
  <2>1. \A d \in Conns : open'[d] => open[d]
    BY <1>1, <1>2, <1>4
  <2> HIDE DEF o
  <2> QED BY <1>3, <1>4, <2>1, Closes
<1>5. CASE /\ \E g \in Gens : rl' = [rl EXCEPT ![g] = 0]
           /\ StartReconnect(o)
  <2>1. ~reconnecting /\ \A k \in Tasks : ~Busy(k)
    BY <1>1, OpenMeansFree
  <2>2. /\ \A h \in Gens \ {gen} : rl'[h] = 0 /\ sl'[h] = "off"
        /\ rl'[gen] \in {0, conn}
    BY <1>3, <1>5 DEF LoopsInv, OneGeneration, TypeOK, LoopTypes
  <2> HIDE DEF o
  <2> QED BY <1>1, <1>2, <1>3, <1>5, <2>1, <2>2, TaskStarts
<1> QED BY <1>4, <1>5 DEF Notice

(* A loop that hears something finds nothing else going on. *)
LEMMA HearingMeansFree ==
  ASSUME TypeOK, LoopsInv, NEW g \in Gens, Receiving(g)
  PROVE  /\ userConn /\ connecting = 0 /\ ~reconnecting
         /\ \A k \in Tasks : ~Busy(k)
<1>1. rl[g] \in Conns /\ open[rl[g]]
  BY BoundsAssumption DEF Receiving, TypeOK, LoopTypes, Conns
<1>2. userConn /\ connecting = 0
  BY <1>1 DEF LoopsInv, UserWaits, AllShut
<1> QED BY <1>1, <1>2, OpenMeansFree

LEMMA FloodLoops ==
  ASSUME TypeOK, LoopsInv, NEW g \in Gens, HandleFlood(g)
  PROVE  LoopsInv'
<1>1. connecting = 0 /\ \A k \in Tasks : rec[k] = "off"
  BY HearingMeansFree DEF HandleFlood, Busy
<1>2. DOMAIN rl = Gens /\ \A h \in Gens : [rl EXCEPT ![g] = 0][h] \in {rl[h], 0}
  BY DEF TypeOK, LoopTypes
<1> QED BY <1>1, <1>2, Disconnects DEF HandleFlood

LEMMA GarbageLoops ==
  ASSUME TypeOK, LoopsInv, NEW g \in Gens, HandleGarbage(g)
  PROVE  LoopsInv'
<1>1. userConn /\ ~reconnecting /\ \A k \in Tasks : ~Busy(k)
  BY HearingMeansFree DEF HandleGarbage
<1>2. /\ UNCHANGED <<auto, userConn, conn, gone, gen, sl, connecting, disconnecting, target>>
      /\ rl' = [rl EXCEPT ![g] = 0]
      /\ StartReconnect(open)
  BY DEF HandleGarbage
<1>3. open \in [Conns -> BOOLEAN]
  BY DEF TypeOK, FlagTypes
<1>4. /\ \A h \in Gens \ {gen} : rl'[h] = 0 /\ sl'[h] = "off"
      /\ rl'[gen] \in {0, conn}
  BY <1>2 DEF LoopsInv, OneGeneration, TypeOK, LoopTypes
<1> QED BY <1>1, <1>2, <1>3, <1>4, TaskStarts

-----------------------------------------------------------------------------
(* The _reconnect tasks.                                                   *)

(* A task is alone, with a Connection that is closed or with none. *)
LEMMA TaskAlone ==
  ASSUME LoopsInv, NEW k \in Tasks, Busy(k)
  PROVE  /\ userConn \/ conn = 0
         /\ userConn => conn # 0
         /\ connecting = 0 /\ disconnecting = "off" /\ AllShut
         /\ \A j \in Tasks \ {k} : rec[j] = "off"
BY DEF LoopsInv, OneTask, UserWaits, Busy

(* The loops of its generation are cancelled, and it goes on. *)
LEMMA TaskCancels ==
  ASSUME TypeOK, LoopsInv, NEW k \in Tasks, Busy(k), NEW v \in {"connect", "sleep", "off"},
         ~reconnecting', CancelLoops(rl),
         rec' = [rec EXCEPT ![k] = v], v = "off" => conn = 0,
         v = "connect" => conn # 0 /\ target' = [target EXCEPT ![k] = conn],
         UNCHANGED <<userConn, conn, gone, connecting, disconnecting, open>>
  PROVE  LoopsInv'
<1>1. /\ userConn \/ conn = 0
      /\ connecting = 0 /\ disconnecting = "off" /\ AllShut
      /\ \A j \in Tasks \ {k} : rec[j] = "off"
  BY TaskAlone
<1>2. /\ rec'[k] = v
      /\ v = "connect" => target'[k] = conn
      /\ \A j \in Tasks \ {k} : rec'[j] = "off"
  BY <1>1 DEF TypeOK, TaskTypes
<1>3. Silent' /\ OneGeneration'
  BY <1>1 DEF CancelLoops, Silent, LoopsInv, OneGeneration, TypeOK, LoopTypes
<1>4. AllShut'
  BY <1>1 DEF AllShut
<1>5. OneTask'
  BY <1>1, <1>2, <1>3, <1>4 DEF OneTask, Busy
<1>6. UserWaits'
  BY <1>1, <1>3, <1>4 DEF LoopsInv, UserWaits
<1>7. Serves'
  BY <1>2 DEF LoopsInv, UserWaits, Serves, Idle
<1> QED BY <1>3, <1>5, <1>6, <1>7 DEF LoopsInv

LEMMA ReconnectClosedLoops ==
  ASSUME TypeOK, LoopsInv, NEW k \in Tasks, ReconnectClosed(k)
  PROVE  LoopsInv'
<1>1. /\ Busy(k)
      /\ ~reconnecting'
      /\ CancelLoops(rl)
      /\ UNCHANGED <<auto, connecting>>
  BY DEF ReconnectClosed, ClearFlag, Busy
<1>2. connecting = 0 /\ \A j \in Tasks \ {k} : rec[j] = "off"
  BY <1>1, TaskAlone
<1>3. CASE /\ rec' = [rec EXCEPT ![k] = IF conn = 0 THEN "sleep" ELSE "connect"]
           /\ target' = [target EXCEPT ![k] = conn]
           /\ UNCHANGED <<userConn, conn, gone, disconnecting, open>>
  BY <1>1, <1>3, TaskCancels
<1>4. CASE /\ rec' = [rec EXCEPT ![k] = "off"] /\ conn = 0
           /\ UNCHANGED <<userConn, conn, gone, disconnecting, open>>
  BY <1>1, <1>4, TaskCancels
<1>5. CASE /\ rec' = [rec EXCEPT ![k] = "off"] /\ conn # 0
           /\ \E kind \in {"clean", "error"} : BeginDisconnect(kind, rl)
  <2>1. \A j \in Tasks : rec'[j] = "off"
    BY <1>2, <1>5 DEF TypeOK, TaskTypes
  <2>2. DOMAIN rl = Gens
    BY DEF TypeOK, LoopTypes
  <2> QED BY <1>1, <1>2, <1>5, <2>1, <2>2, Disconnects
<1> QED BY <1>3, <1>4, <1>5 DEF ReconnectClosed

LEMMA ReconnectedLoops ==
  ASSUME TypeOK, LoopsInv, NEW k \in Tasks, Reconnected(k)
  PROVE  LoopsInv'
<1>1. Busy(k) /\ rec[k] = "connect"
  BY DEF Reconnected, Busy
<1>2. /\ connecting = 0 /\ disconnecting = "off" /\ AllShut
      /\ \A j \in Tasks \ {k} : rec[j] = "off"
  BY <1>1, TaskAlone
<1>3. Silent /\ userConn /\ target[k] = conn /\ conn # 0 /\ ~reconnecting
  BY <1>1, <1>2 DEF LoopsInv, OneTask, UserWaits
<1>4. Establish(conn, TRUE)
  BY <1>3 DEF Reconnected, Goes
<1>5. \A j \in Tasks : rec'[j] = "off"
  BY <1>2 DEF Reconnected, TypeOK, TaskTypes
<1> QED BY <1>2, <1>3, <1>4, <1>5, Establishes DEF Reconnected, AllShut

(* A task that waits for the network fails, and tries again. *)
LEMMA TaskGoesOn ==
  ASSUME TypeOK, LoopsInv, NEW k \in Tasks, rec[k] \in {"connect", "sleep"},
         NEW v \in {"connect", "sleep", "off"},
         rec' = [rec EXCEPT ![k] = v], v = "off" => conn = 0,
         v = "connect" => conn # 0 /\ target' = [target EXCEPT ![k] = conn],
         UNCHANGED <<userConn, reconnecting, conn, gone, gen, sl, rl, connecting,
                     disconnecting, open>>
  PROVE  LoopsInv'
<1>1. /\ userConn \/ conn = 0
      /\ connecting = 0 /\ disconnecting = "off" /\ AllShut
      /\ \A j \in Tasks \ {k} : rec[j] = "off"
  BY TaskAlone DEF Busy
<1>2. /\ rec'[k] = v
      /\ v = "connect" => target'[k] = conn
      /\ \A j \in Tasks \ {k} : rec'[j] = "off"
  BY <1>1 DEF TypeOK, TaskTypes
<1>3. Silent /\ ~reconnecting
  BY <1>1 DEF LoopsInv, OneTask
<1>4. AllShut' /\ Silent'
  BY <1>1, <1>3 DEF AllShut, Silent
<1>5. OneTask'
  BY <1>1, <1>2, <1>3, <1>4 DEF OneTask, Busy
<1>6. OneGeneration'
  BY DEF LoopsInv, OneGeneration
<1>7. UserWaits'
  BY <1>1, <1>4 DEF LoopsInv, UserWaits
<1>8. Serves'
  BY <1>2 DEF LoopsInv, UserWaits, Serves, Idle
<1> QED BY <1>5, <1>6, <1>7, <1>8 DEF LoopsInv

LEMMA RetryLoops ==
  ASSUME TypeOK, LoopsInv, NEW k \in Tasks, Retry(k) \/ ReconnectFails(k)
  PROVE  LoopsInv'
<1>1. rec[k] \in {"connect", "sleep"}
  BY DEF Retry, ReconnectFails
<1>2. UNCHANGED <<userConn, reconnecting, conn, gone, gen, sl, rl, connecting,
                  disconnecting, open>>
  BY DEF Retry, ReconnectFails, sender, loops, wires
<1>3. CASE Retry(k) /\ conn # 0
  BY <1>1, <1>2, <1>3, TaskGoesOn DEF Retry
<1>4. CASE Retry(k) /\ conn = 0
  <2>1. rec' = [rec EXCEPT ![k] = "sleep"]
    BY <1>4 DEF Retry, TypeOK, TaskTypes
  <2> QED BY <1>1, <1>2, <2>1, TaskGoesOn
<1>5. CASE ReconnectFails(k)
  BY <1>1, <1>2, <1>5, TaskGoesOn DEF ReconnectFails
<1> QED BY <1>3, <1>4, <1>5

LEMMA ExhaustedLoops ==
  ASSUME TypeOK, LoopsInv, NEW k \in Tasks, Exhausted(k)
  PROVE  LoopsInv'
<1>1. Busy(k) /\ rec[k] = "sleep" /\ rec' = [rec EXCEPT ![k] = "off"]
  BY DEF Exhausted, Busy
<1>2. connecting = 0 /\ \A j \in Tasks \ {k} : rec[j] = "off"
  BY <1>1, TaskAlone
<1>3. CASE conn = 0
  BY <1>1, <1>3, TaskGoesOn DEF Exhausted, loops
<1>4. CASE conn # 0
  <2>1. ~reconnecting
    BY <1>1, <1>2 DEF LoopsInv, OneTask
  <2>2. \A j \in Tasks : rec'[j] = "off"
    BY <1>1, <1>2 DEF TypeOK, TaskTypes
  <2>3. DOMAIN rl = Gens
    BY DEF TypeOK, LoopTypes
  <2> QED BY <1>2, <1>4, <2>1, <2>2, <2>3, Disconnects DEF Exhausted
<1> QED BY <1>3, <1>4

-----------------------------------------------------------------------------
LEMMA NextLoops ==
  ASSUME TypeOK, LoopsInv, [Next]_vars, ~crossed'
  PROVE  LoopsInv'
<1>1. CASE User
  <2>1. ASSUME NEW r \in Requests, Send(r) \/ Cancel(r) PROVE LoopsInv'
    BY <2>1, ElsewhereStep DEF Send, Cancel, Elsewhere, sender, loops, tasks, wires
  <2> QED BY <1>1, <2>1, ConnectLoops, DisconnectLoops DEF User
<1>2. CASE Connected \/ ConnectFails \/ Disconnected \/ Keepalive
  BY <1>2, ConnectedLoops, ConnectFailsLoops, DisconnectedLoops, KeepaliveLoops
<1>3. CASE \E g \in Gens : PutDone(g) \/ HandleFlood(g) \/ HandleGarbage(g)
  BY <1>3, PutDoneLoops, FloodLoops, GarbageLoops
<1>4. CASE \E g \in Gens : \E B \in SUBSET queue : SendBatch(g, B)
  BY <1>4, SendBatchLoops
<1>5. CASE \E g \in Gens : \E x \in replies : Receive(g, x)
  BY <1>5, ReceiveLoops
<1>6. CASE \E c \in Conns : Write(c) \/ Drop(c) \/ Notice(c)
  <2>1. ASSUME NEW c \in Conns, Write(c) \/ Drop(c) PROVE LoopsInv'
    BY <2>1, ElsewhereStep DEF Write, Drop, Elsewhere, sender, loops, tasks
  <2> QED BY <1>6, <2>1, NoticeLoops
<1>7. CASE \E k \in Tasks : Reconnecting(k) \/ ReconnectFails(k)
  BY <1>7, ReconnectClosedLoops, ReconnectedLoops, RetryLoops, ExhaustedLoops
     DEF Reconnecting
<1>8. CASE UNCHANGED vars
  BY <1>8, ElsewhereStep DEF vars, Elsewhere, sender, loops, tasks, wires
<1> QED BY <1>1, <1>2, <1>3, <1>4, <1>5, <1>6, <1>7, <1>8 DEF Next

(* What has been crossed stays so. *)
LEMMA CrossedStays ==
  ASSUME TypeOK, [Next]_vars, crossed
  PROVE  crossed'
<1>1. CASE User
  BY <1>1 DEF User, Send, Cancel, Connect, Disconnect, sender
<1>2. CASE Connected \/ ConnectFails \/ Disconnected \/ Keepalive
  BY <1>2 DEF Connected, ConnectFails, Disconnected, Keepalive, sender
<1>3. CASE \E g \in Gens : PutDone(g) \/ HandleFlood(g) \/ HandleGarbage(g)
  BY <1>3 DEF PutDone, HandleFlood, HandleGarbage, sender
<1>4. CASE \E g \in Gens : \E B \in SUBSET queue : SendBatch(g, B)
  BY <1>4 DEF SendBatch
<1>5. CASE \E g \in Gens : \E x \in replies : Receive(g, x)
  BY <1>5 DEF Receive, HandleResult, HandleResend, HandleRefused, sender
<1>6. CASE \E c \in Conns : Write(c) \/ Drop(c) \/ Notice(c)
  BY <1>6 DEF Write, Drop, Notice, sender
<1>7. CASE \E k \in Tasks : Reconnecting(k) \/ ReconnectFails(k)
  BY <1>7 DEF Reconnecting, ReconnectClosed, Reconnected, Retry, Exhausted, ReconnectFails,
     sender
<1>8. CASE UNCHANGED vars
  BY <1>8 DEF vars, sender
<1> QED BY <1>1, <1>2, <1>3, <1>4, <1>5, <1>6, <1>7, <1>8 DEF Next

LEMMA AlwaysLoops == Spec => [](crossed \/ LoopsInv)
<1>1. Spec => []TypeOK
  BY Typed
<1>2. TypeOK /\ (crossed \/ LoopsInv) /\ [Next]_vars => (crossed \/ LoopsInv)'
  <2> SUFFICES ASSUME TypeOK, crossed \/ LoopsInv, [Next]_vars, ~crossed'
               PROVE  LoopsInv'
    OBVIOUS
  <2> QED BY NextLoops, CrossedStays
<1> QED BY <1>1, <1>2, InitLoops, PTL DEF Spec

(* Until a connect() or a disconnect() has crossed what was in progress    *)
(* there are never two send or two receive loops on one sender, and no     *)
(* _reconnect task calls connect() on a Connection that is open, with      *)
(* auto_reconnect or without, whoever starts the reconnections (a broken   *)
(* link, a missing pong, a packet that cannot be read) and however many    *)
(* attempts fail.                                                          *)
THEOREM AwaitedOnce == Spec => []OneReceiver
<1>1. TypeOK /\ (crossed \/ LoopsInv) => OneReceiver
  <2> SUFFICES ASSUME TypeOK, LoopsInv, NEW k \in Tasks, rec[k] = "connect"
               PROVE  ~open[target[k]]
    BY DEF OneReceiver, LoopsInv, OneGeneration
  <2>1. target[k] = conn /\ conn # 0
    BY DEF LoopsInv, OneTask, UserWaits
  <2>2. AllShut
    BY DEF LoopsInv, OneTask, Busy
  <2> QED BY <2>1, <2>2, ConnType DEF AllShut
<1> QED BY <1>1, AlwaysLoops, Typed, PTL

(* Until then a sender that is connected, and neither connecting,          *)
(* disconnecting nor reconnecting, runs both loops on its Connection:      *)
(* _start_reconnect, _reconnect and _connect leave no state in which it    *)
(* believes to be connected and nothing reads.                             *)
THEOREM AlwaysServing == Spec => []Serving
<1>1. crossed \/ LoopsInv => Serving
  BY DEF LoopsInv, Serves, Serving
<1> QED BY <1>1, AlwaysLoops, PTL

(* ... and when disconnect(), a flood or an exhausted reconnection is over *)
(* no Connection is open and who awaits disconnected has been told.        *)
THEOREM AlwaysClosed == Spec => []Closed
<1>1. crossed \/ LoopsInv => Closed
  BY DEF LoopsInv, UserWaits, AllShut, Closed, Clean, Idle
<1> QED BY <1>1, AlwaysLoops, PTL

-----------------------------------------------------------------------------
(* The ping.                                                               *)

(* Until the first connect() is over nothing of a connection is there. *)
Before ==
  /\ ~ping /\ ~userConn /\ disconnecting = "off" /\ AllShut
  /\ \A k \in Tasks : ~Busy(k)

First == count["connect"] = 0 \/ connecting # 0

Early ==
  /\ First => Before
  /\ count["connect"] = 0 => connecting = 0
  /\ userConn => disconnecting = "off" /\ (ping => conn # 0)

LEMMA Rises ==
  ASSUME [Next]_vars
  PROVE  /\ userConn' => userConn \/ Connected
         /\ ping' => ping \/ (userConn /\ conn # 0 /\ conn' # 0 /\ Ping \in queue')
         /\ connecting' # 0 => connecting # 0 \/ Connect
         /\ disconnecting' # "off" => disconnecting # "off" \/ (~userConn' /\ open[conn])
         /\ conn' = 0 => conn = 0 \/ ~userConn' \/ disconnecting # "off"
<1>1. CASE \/ \E r \in Requests : Send(r) \/ Cancel(r)
           \/ Connect \/ Connected \/ ConnectFails \/ Disconnected \/ Keepalive
  BY <1>1, BoundsAssumption DEF Send, Cancel, Connect, Connected,
     ConnectFails, Disconnected, Keepalive, Count, sender, tasks, work
<1>2. CASE Disconnect
  BY <1>2 DEF Disconnect, BeginDisconnect
<1>3. ASSUME NEW g \in Gens, PutDone(g) \/ HandleGarbage(g) \/ \E B \in SUBSET queue : SendBatch(g, B)
      PROVE  UNCHANGED <<ping, connecting, disconnecting, userConn, conn>>
  BY <1>3 DEF PutDone, HandleGarbage, SendBatch, sender, tasks, work
<1>4. ASSUME NEW g \in Gens, HandleFlood(g)
      PROVE  /\ UNCHANGED <<ping, connecting>> /\ ~userConn'
             /\ disconnecting' = disconnecting \/ open[conn]
  BY <1>4 DEF HandleFlood, BeginDisconnect
<1>5. ASSUME NEW g \in Gens, NEW x \in replies, Receive(g, x)
      PROVE  UNCHANGED <<userConn, conn, connecting, disconnecting>> /\ (ping' => ping)
  <2>1. CASE HandleResult(g, x)
    BY <2>1, Zenon DEF HandleResult, PingAfter, sender, tasks
  <2>2. CASE HandleResend(g, x) \/ HandleRefused(g, x)
    BY <2>2 DEF HandleResend, HandleRefused, sender, tasks
  <2> QED BY <1>5, <2>1, <2>2 DEF Receive
<1>6. ASSUME NEW c \in Conns, Write(c) \/ Drop(c) \/ Notice(c)
      PROVE  UNCHANGED <<userConn, conn, connecting, disconnecting, ping>>
  BY <1>6 DEF Write, Drop, Notice, sender, tasks, work
<1>7. ASSUME NEW k \in Tasks, Reconnecting(k) \/ ReconnectFails(k)
      PROVE  /\ UNCHANGED <<ping, connecting>>
             /\ \/ UNCHANGED <<userConn, conn, disconnecting>>
                \/ ~userConn' /\ (disconnecting' = disconnecting \/ open[conn])
  BY <1>7 DEF Reconnecting, ReconnectClosed, Reconnected, Retry, Exhausted, ReconnectFails,
     BeginDisconnect, sender, work
<1>8. CASE UNCHANGED vars
  BY <1>8 DEF vars, sender, tasks, work
<1> QED BY <1>1, <1>2, <1>3, <1>4, <1>5, <1>6, <1>7, <1>8 DEF Next, User

(* Before the first connection is up only the user does anything.          *)
LEMMA BeforeStep ==
  ASSUME TypeOK, Before, [Next]_vars, ~Connected
  PROVE  Before'
<1>1. ~userConn' /\ ~ping'
  BY Rises DEF Before
<1>2. UNCHANGED <<open, disconnecting, rec>>
  <2>1. CASE \/ \E r \in Requests : Send(r) \/ Cancel(r)
             \/ Connect \/ ConnectFails \/ Disconnected \/ Keepalive
    BY <2>1 DEF Before, Send, Cancel, Connect, ConnectFails, Disconnected, Keepalive,
       tasks, wires
  <2>2. CASE Disconnect
    <3>1. ~open[conn]
      BY <2>2, ConnType DEF Disconnect, Before, AllShut
    <3>2. [open EXCEPT ![conn] = FALSE] = open
      BY <3>1 DEF TypeOK, FlagTypes, Before, AllShut
    <3> QED BY <2>2, <3>1, <3>2 DEF Disconnect, BeginDisconnect
  <2>3. ASSUME NEW g \in Gens, PutDone(g) PROVE UNCHANGED <<open, disconnecting, rec>>
    BY <2>3 DEF PutDone, tasks
  <2>4. ASSUME NEW g \in Gens, NEW B \in SUBSET queue, SendBatch(g, B)
        PROVE  UNCHANGED <<open, disconnecting, rec>>
    BY <2>4 DEF SendBatch, HandOver, StartReconnect, Before
  <2>5. \A g \in Gens : ~Receiving(g)
    BY BoundsAssumption DEF Receiving, Before, AllShut, TypeOK, LoopTypes, Conns
  <2>6. ASSUME NEW g \in Gens, HandleFlood(g) \/ HandleGarbage(g) \/ \E x \in replies : Receive(g, x)
        PROVE  FALSE
    BY <2>5, <2>6 DEF HandleFlood, HandleGarbage, Receive, HandleResult, HandleResend,
       HandleRefused
  <2>7. ASSUME NEW c \in Conns, Write(c) \/ Drop(c) \/ Notice(c) PROVE FALSE
    BY <2>7 DEF Write, Drop, Notice, Before, AllShut
  <2>8. ASSUME NEW k \in Tasks, Reconnecting(k) \/ ReconnectFails(k) PROVE FALSE
    BY <2>8 DEF Reconnecting, ReconnectClosed, Reconnected, Retry, Exhausted,
       ReconnectFails, Before, Busy
  <2>9. CASE UNCHANGED vars
    BY <2>9 DEF vars, tasks, wires
  <2> QED BY <2>1, <2>2, <2>3, <2>4, <2>6, <2>7, <2>8, <2>9 DEF Next, User
<1> QED BY <1>1, <1>2 DEF Before, AllShut, Busy

LEMMA EarlyStep ==
  ASSUME MaxConnects = 1, TypeOK, Early, [Next]_vars
  PROVE  Early'
<1>1. /\ count["connect"] \in Nat /\ count'["connect"] \in Nat
      /\ count["connect"] <= count'["connect"]
  BY TasksStep, CountGrows DEF TypeOK, TaskTypes, Bound
<1>2. ASSUME Connect PROVE count["connect"] = 0 /\ count'["connect"] # 0
  <2>1. count["connect"] < 1 /\ count' = [count EXCEPT !["connect"] = @ + 1]
    BY <1>2 DEF Connect, Count, Bound
  <2>2. "connect" \in DOMAIN count
    BY DEF TypeOK, TaskTypes, Bound
  <2> QED BY <1>1, <2>1, <2>2
<1>3. Connected => connecting # 0 /\ connecting' = 0 /\ UNCHANGED <<disconnecting, ping, count>>
  BY DEF Connected, work
<1>4. First' => First /\ ~Connected
  BY <1>1, <1>2, <1>3, Rises DEF First, Early
<1>5. (First => Before)'
  BY <1>4, BeforeStep DEF Early
<1>6. (count["connect"] = 0 => connecting = 0)'
  BY <1>1, <1>2, Rises DEF Early
<1>7. (userConn => disconnecting = "off" /\ (ping => conn # 0))'
  <2>1. CASE Connected
    BY <1>3, <2>1 DEF Early, First, Before
  <2>2. CASE ~Connected
    BY <2>2, Rises DEF Early
  <2> QED BY <2>1, <2>2
<1> QED BY <1>5, <1>6, <1>7 DEF Early

LEMMA PingStep ==
  ASSUME MaxRefusals = 0, TypeOK, Early, Early', Counted, PingTracked, [Next]_vars
  PROVE  PingTracked'
<1> DEFINE Somewhere == Ping \in queue \/ PendingOf(Ping) # {}
<1>1. ASSUME Somewhere => Somewhere' PROVE PingTracked'
  <2>1. Connected => ~ping /\ ~ping'
    BY DEF Connected, Early, First, Before, work
  <2> QED BY <1>1, <2>1, Rises DEF PingTracked
<1>2. CASE Quiet
  BY <1>1, <1>2 DEF Quiet, PendingOf
<1>3. CASE Ends
  <2>1. conn' = 0
    BY <1>3 DEF Ends, EndDisconnect
  <2> QED BY <2>1 DEF PingTracked, Early
<1>4. ASSUME NEW r \in Requests, Send(r) \/ Cancel(r) PROVE PingTracked'
  BY <1>1, <1>4 DEF Send, Cancel, PendingOf
<1>5. ASSUME NEW g \in Gens, NEW B \in SUBSET queue, SendBatch(g, B) PROVE PingTracked'
  <2> DEFINE n == Fresh(UsedPkts)
  <2>1. /\ queue' = queue \ B
        /\ pending' = pending \cup {[pkt |-> n, r |-> s] : s \in B}
    BY <1>5 DEF SendBatch
  <2> HIDE DEF n
  <2>2. Ping \in B => [pkt |-> n, r |-> Ping] \in PendingOf(Ping)'
    BY <2>1 DEF PendingOf
  <2>3. Somewhere => Somewhere'
    BY <2>1, <2>2 DEF PendingOf
  <2> QED BY <1>1, <2>3
<1>6. ASSUME NEW g \in Gens, NEW x \in replies, Receive(g, x) PROVE PingTracked'
  <2>1. CASE HandleResult(g, x)
    <3>1. CASE x.r = Ping
      BY <2>1, <3>1 DEF HandleResult, PingAfter, PingTracked
    <3>2. CASE x.r # Ping
      BY <1>1, <2>1, <3>2 DEF HandleResult, PendingOf
    <3> QED BY <3>1, <3>2
  <2>2. CASE HandleResend(g, x)
    <3>1. /\ pending' = pending \ PopStates(x)
          /\ queue' = queue \cup {y.r : y \in PopStates(x)}
      BY <2>2 DEF HandleResend, Without
    <3> QED BY <1>1, <3>1 DEF PendingOf
  <2>3. CASE HandleRefused(g, x)
    <3>1. count["refusal"] \in Nat /\ count["refusal"] <= 0
      BY DEF Counted, TypeOK, TaskTypes, Bound
    <3> QED BY <2>3, <3>1 DEF HandleRefused, Counted
  <2> QED BY <1>6, <2>1, <2>2, <2>3 DEF Receive
<1>7. ASSUME NEW k \in Tasks, Reconnected(k) PROVE PingTracked'
  BY <1>1, <1>7 DEF Reconnected, Requeued, PendingOf
<1> QED BY <1>2, <1>3, <1>4, <1>5, <1>6, <1>7, Shapes

(* Within one connect() the ping a connected sender waits for is queued or *)
(* pending, through rejections and reconnections: _ping set means that a   *)
(* pong can still come, so only a link that is dead, or slower than a      *)
(* minute, lets the keepalive loop reconnect.  (A ping refused for good,   *)
(* and one left from before a disconnect, would do so too.)                *)
THEOREM PingAlive ==
  ASSUME MaxConnects = 1, MaxRefusals = 0
  PROVE  Spec => []PingTracked
<1>1. Init => Counted /\ Early /\ PingTracked
  BY BoundsAssumption DEF Init, Counted, Early, Before, AllShut, Busy, PingTracked, Bound
<1>2. TypeOK /\ Counted /\ [Next]_vars => Counted'
  BY CountedStep
<1>3. TypeOK /\ Early /\ [Next]_vars => Early'
  BY EarlyStep
<1>4. TypeOK /\ Early /\ Early' /\ Counted /\ PingTracked /\ [Next]_vars => PingTracked'
  BY PingStep
<1> QED BY <1>1, <1>2, <1>3, <1>4, Typed, PTL DEF Spec
=============================================================================
