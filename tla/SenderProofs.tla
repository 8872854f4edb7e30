---------------------------- MODULE SenderProofs ----------------------------
(***************************************************************************)
(* Proofs about Sender, for any number of requests, connections, tasks and *)
(* failures.                                                               *)
(***************************************************************************)
EXTENDS Sender, FiniteSetTheorems, TLAPS

-----------------------------------------------------------------------------
(* Fresh numbers.                                                          *)

LEMMA ImageIsFinite ==
  ASSUME NEW S, IsFiniteSet(S), NEW f, f = [x \in S |-> f[x]]
  PROVE  IsFiniteSet({f[x] : x \in S})
<1>1. f \in Surjection(S, {f[x] : x \in S})
  BY DEF Surjection
<1> QED BY <1>1, FS_Surjection

LEMMA FreshType ==
  ASSUME NEW used, IsFiniteSet(used)
  PROVE  Fresh(used) \in Nat
<1> DEFINE N == Cardinality(used)
<1>1. N \in Nat
  BY FS_CardinalityType
<1>2. IsFiniteSet(1..(N + 1)) /\ Cardinality(1..(N + 1)) = N + 1
  BY <1>1, FS_Interval
<1>3. ~(1..(N + 1) \subseteq used)
  <2>1. SUFFICES ASSUME 1..(N + 1) \subseteq used PROVE FALSE
    OBVIOUS
  <2>2. Cardinality(1..(N + 1)) <= N
    BY <2>1, FS_Subset
  <2> QED BY <1>1, <1>2, <2>2
<1>4. \E m \in 1..(N + 1) : m \notin used
  BY <1>3
<1> QED BY <1>1, <1>4 DEF Fresh

(* There are finitely many states to refer to, so there is a fresh number. *)
Finite == IsFiniteSet(pending) /\ IsFiniteSet(replies)

LEMMA NumbersAreFinite ==
  ASSUME Finite
  PROVE  IsFiniteSet(UsedPkts) /\ IsFiniteSet({session} \cup {p.session : p \in Packets})
<1>1. IsFiniteSet(Conns) /\ IsFiniteSet(Gens) /\ IsFiniteSet(States)
  <2>1. IsFiniteSet(1..MaxConnects) /\ IsFiniteSet(1..MaxGens)
    <3>1. MaxConnects \in Int /\ MaxGens \in Int
      BY BoundsAssumption
    <3> QED BY <3>1, FS_Interval
  <2>2. IsFiniteSet(Requests \cup {Ping})
    BY NamesAssumption, FS_AddElement
  <2> QED BY <2>1, <2>2 DEF Conns, Gens, States
<1>2. IsFiniteSet(Packets)
  <2>1. IsFiniteSet({out[c] : c \in Conns})
    <3> DEFINE f == [c \in Conns |-> out[c]]
    <3>1. IsFiniteSet({f[c] : c \in Conns})
      BY <1>1, ImageIsFinite
    <3> QED BY <3>1
  <2>2. IsFiniteSet({held[g] : g \in Gens})
    <3> DEFINE f == [g \in Gens |-> held[g]]
    <3>1. IsFiniteSet({f[g] : g \in Gens})
      BY <1>1, ImageIsFinite
    <3> QED BY <3>1
  <2> QED BY <2>1, <2>2, FS_Union DEF Packets
<1>3. ASSUME NEW S, IsFiniteSet(S) PROVE IsFiniteSet({x.pkt : x \in S})
  <2> DEFINE f == [x \in S |-> x.pkt]
  <2>1. IsFiniteSet({f[x] : x \in S})
    BY <1>3, ImageIsFinite
  <2> QED BY <2>1
<1>4. IsFiniteSet({p.session : p \in Packets})
  <2> DEFINE f == [p \in Packets |-> p.session]
  <2>1. IsFiniteSet({f[p] : p \in Packets})
    BY <1>2, ImageIsFinite
  <2> QED BY <2>1
<1>5. IsFiniteSet({container[s] : s \in States})
  <2> DEFINE f == [s \in States |-> container[s]]
  <2>1. IsFiniteSet({f[s] : s \in States})
    BY <1>1, ImageIsFinite
  <2> QED BY <2>1
<1>6. IsFiniteSet(UsedPkts)
  BY <1>2, <1>3, <1>5, FS_Union DEF Finite, UsedPkts
<1>7. IsFiniteSet({session})
  BY FS_Singleton
<1> QED BY <1>4, <1>6, <1>7, FS_Union

LEMMA NumbersType ==
  ASSUME Finite
  PROVE  /\ Fresh(UsedPkts) \in Nat
         /\ Fresh({session} \cup {p.session : p \in Packets}) \in Nat
BY NumbersAreFinite, FreshType

-----------------------------------------------------------------------------
(* Types: the loops.                                                       *)

LEMMA NoPacketType == NoPacket \in Packet
BY BoundsAssumption DEF NoPacket, Packet

LEMMA CancelledLoops ==
  ASSUME LoopTypes, NEW r \in [Gens -> 0..MaxConnects], CancelLoops(r)
  PROVE  LoopTypes'
BY NoPacketType, BoundsAssumption DEF LoopTypes, CancelLoops

LEMMA EstablishedLoops ==
  ASSUME TypeOK, NEW c, NEW goes \in BOOLEAN, Establish(c, goes)
  PROVE  LoopTypes'
<1>1. PICK g \in Gens :
        /\ gen' = g
        /\ sl' = [sl EXCEPT ![g] = IF goes THEN "get" ELSE "off"]
        /\ rl' = [rl EXCEPT ![g] = IF goes THEN conn ELSE 0]
  BY DEF Establish
<1> QED
  BY <1>1, BoundsAssumption DEF Establish, TypeOK, LoopTypes, TaskTypes

LEMMA EndingLoops ==
  ASSUME TypeOK, NEW kind, NEW r \in [Gens -> 0..MaxConnects], BeginDisconnect(kind, r)
  PROVE  LoopTypes'
<1>1. CASE open[conn]
  BY <1>1 DEF BeginDisconnect, TypeOK, LoopTypes
<1>2. CASE ~open[conn]
  BY <1>2, CancelledLoops DEF BeginDisconnect, TypeOK
<1> QED BY <1>1, <1>2

LEMMA LoopsStep ==
  ASSUME TypeOK, Finite, [Next]_vars
  PROVE  LoopTypes'
<1> USE BoundsAssumption
<1>1. ASSUME UNCHANGED loops PROVE LoopTypes'
  BY <1>1 DEF loops, TypeOK, LoopTypes
<1>2. rl \in [Gens -> 0..MaxConnects]
  BY DEF TypeOK, LoopTypes
<1>3. CASE Connected
  BY <1>3, EstablishedLoops DEF Connected
<1>4. ASSUME NEW k \in Tasks, Reconnected(k) PROVE LoopTypes'
  <2>1. Goes \in BOOLEAN
    BY DEF Goes
  <2> QED BY <1>4, <2>1, EstablishedLoops DEF Reconnected
<1>5. CASE Disconnect
  BY <1>2, <1>5, EndingLoops DEF Disconnect
<1>6. CASE Disconnected
  BY <1>2, <1>6, CancelledLoops DEF Disconnected, TypeOK
<1>7. ASSUME NEW g \in Gens, HandleFlood(g) PROVE LoopTypes'
  <2>1. [rl EXCEPT ![g] = 0] \in [Gens -> 0..MaxConnects]
    BY <1>2
  <2> QED BY <1>7, <2>1, EndingLoops DEF HandleFlood
<1>8. ASSUME NEW k \in Tasks, ReconnectClosed(k) PROVE LoopTypes'
  BY <1>2, <1>8, CancelledLoops DEF ReconnectClosed, TypeOK
<1>9. ASSUME NEW k \in Tasks, Exhausted(k) PROVE LoopTypes'
  BY <1>1, <1>2, <1>9, EndingLoops DEF Exhausted
<1>10. ASSUME NEW g \in Gens, PutDone(g) PROVE LoopTypes'
  BY <1>10, NoPacketType DEF PutDone, TypeOK, LoopTypes
<1>11. ASSUME NEW g \in Gens, NEW B \in SUBSET queue, SendBatch(g, B) PROVE LoopTypes'
  <2> DEFINE p == [on |-> conn, session |-> session, pkt |-> Fresh(UsedPkts), states |-> B]
  <2>1. p \in Packet
    BY NumbersType DEF TypeOK, TaskTypes, WorkTypes, Packet
  <2>2. HandOver(g, p)
    BY <1>11 DEF SendBatch
  <2> HIDE DEF p
  <2>3. held' \in [Gens -> Packet] /\ sl' \in [Gens -> {"off", "get", "put"}]
    BY <2>1, <2>2 DEF HandOver, TypeOK, LoopTypes
  <2> QED BY <1>11, <2>3 DEF SendBatch, TypeOK, LoopTypes
<1>12. ASSUME NEW g \in Gens, NEW x \in replies, Receive(g, x) PROVE LoopTypes'
  BY <1>12 DEF Receive, HandleResult, HandleResend, HandleRefused, NextReceive,
     TypeOK, LoopTypes, TaskTypes
<1>13. ASSUME NEW c \in Conns, Notice(c) PROVE LoopTypes'
  BY <1>13 DEF Notice, TypeOK, LoopTypes
<1>14. ASSUME NEW c \in Conns, Write(c) \/ Drop(c) PROVE LoopTypes'
  BY <1>1, <1>14 DEF Write, Drop
<1>15. ASSUME NEW k \in Tasks, Retry(k) \/ ReconnectFails(k) PROVE LoopTypes'
  BY <1>1, <1>15 DEF Retry, ReconnectFails
<1>16. ASSUME NEW r \in Requests, Send(r) \/ Cancel(r) PROVE LoopTypes'
  BY <1>1, <1>16 DEF Send, Cancel
<1>17. CASE Connect \/ ConnectFails \/ Keepalive
  BY <1>1, <1>17 DEF Connect, ConnectFails, Keepalive
<1>18. CASE UNCHANGED vars
  BY <1>1, <1>18 DEF vars
<1>19. ASSUME NEW g \in Gens, HandleGarbage(g) PROVE LoopTypes'
  BY <1>19 DEF HandleGarbage, TypeOK, LoopTypes
<1> QED
  BY <1>3, <1>4, <1>5, <1>6, <1>7, <1>8, <1>9, <1>10, <1>11, <1>12, <1>13, <1>14,
     <1>15, <1>16, <1>17, <1>18, <1>19 DEF Next, User, Reconnecting

-----------------------------------------------------------------------------
(* Types: the flags.                                                       *)

LEMMA ReconnectingFlags ==
  ASSUME TypeOK, NEW o \in [Conns -> BOOLEAN], StartReconnect(o)
  PROVE  reconnecting' \in BOOLEAN /\ open' \in [Conns -> BOOLEAN]
BY DEF StartReconnect, TypeOK, FlagTypes

LEMMA EndingFlags ==
  ASSUME TypeOK, NEW kind, NEW r, BeginDisconnect(kind, r)
  PROVE  {userConn', gone'} \subseteq BOOLEAN /\ open' \in [Conns -> BOOLEAN]
BY DEF BeginDisconnect, EndDisconnect, TypeOK, FlagTypes

LEMMA FlagsStep ==
  ASSUME TypeOK, [Next]_vars
  PROVE  FlagTypes'
<1>1. ASSUME UNCHANGED <<auto, crossed, userConn, reconnecting, gone, ping, open, up>> PROVE FlagTypes'
  BY <1>1 DEF TypeOK, FlagTypes
<1>2. ASSUME NEW r \in Requests, Send(r) \/ Cancel(r) PROVE FlagTypes'
  BY <1>1, <1>2 DEF Send, Cancel, sender, wires
<1>3. CASE Connect \/ ConnectFails
  BY <1>3 DEF Connect, ConnectFails, Idle, sender, wires, work, TypeOK, FlagTypes
<1>4. CASE Connected
  BY <1>4 DEF Connected, Establish, work, TypeOK, FlagTypes
<1>5. CASE Disconnect
  BY <1>5, EndingFlags DEF Disconnect, TypeOK, FlagTypes
<1>6. CASE Disconnected
  BY <1>6 DEF Disconnected, EndDisconnect, wires, TypeOK, FlagTypes
<1>7. CASE Keepalive
  <2>1. open \in [Conns -> BOOLEAN]
    BY DEF TypeOK, FlagTypes
  <2> QED BY <1>7, <2>1, ReconnectingFlags DEF Keepalive, TypeOK, FlagTypes
<1>8. ASSUME NEW g \in Gens, PutDone(g) PROVE FlagTypes'
  BY <1>1, <1>8 DEF PutDone, sender, work
<1>9. ASSUME NEW g \in Gens, HandleFlood(g) PROVE FlagTypes'
  BY <1>9, EndingFlags DEF HandleFlood, TypeOK, FlagTypes
<1>10. ASSUME NEW g \in Gens, NEW B \in SUBSET queue, SendBatch(g, B) PROVE FlagTypes'
  <2>1. open \in [Conns -> BOOLEAN]
    BY DEF TypeOK, FlagTypes
  <2> QED BY <1>10, <2>1, ReconnectingFlags DEF SendBatch, HandOver, TypeOK, FlagTypes
<1>11. ASSUME NEW g \in Gens, NEW x \in replies, Receive(g, x) PROVE FlagTypes'
  BY <1>11 DEF Receive, HandleResult, HandleResend, HandleRefused, PingAfter,
     sender, wires, TypeOK, FlagTypes
<1>12. ASSUME NEW c \in Conns, Write(c) \/ Drop(c) PROVE FlagTypes'
  BY <1>12 DEF Write, Drop, sender, work, TypeOK, FlagTypes
<1>13. ASSUME NEW c \in Conns, Notice(c) PROVE FlagTypes'
  <2> DEFINE o == [open EXCEPT ![c] = FALSE]
  <2>1. o \in [Conns -> BOOLEAN]
    BY DEF TypeOK, FlagTypes
  <2>2. (open' = o /\ UNCHANGED reconnecting) \/ StartReconnect(o)
    BY <1>13 DEF Notice
  <2> HIDE DEF o
  <2>3. reconnecting' \in BOOLEAN /\ open' \in [Conns -> BOOLEAN]
    BY <2>1, <2>2, ReconnectingFlags DEF TypeOK, FlagTypes
  <2> QED BY <1>13, <2>3 DEF Notice, work, TypeOK, FlagTypes
<1>14. ASSUME NEW k \in Tasks, ReconnectClosed(k) PROVE FlagTypes'
  BY <1>14, EndingFlags DEF ReconnectClosed, ClearFlag, TypeOK, FlagTypes
<1>15. ASSUME NEW k \in Tasks, Reconnected(k) PROVE FlagTypes'
  BY <1>15 DEF Reconnected, Establish, TypeOK, FlagTypes
<1>16. ASSUME NEW k \in Tasks, Retry(k) \/ ReconnectFails(k) PROVE FlagTypes'
  BY <1>1, <1>16 DEF Retry, ReconnectFails, sender, wires, work
<1>17. ASSUME NEW k \in Tasks, Exhausted(k) PROVE FlagTypes'
  BY <1>17, EndingFlags DEF Exhausted, TypeOK, FlagTypes
<1>18. CASE UNCHANGED vars
  BY <1>1, <1>18 DEF vars, sender, wires, work
<1>19. ASSUME NEW g \in Gens, HandleGarbage(g) PROVE FlagTypes'
  <2>1. open \in [Conns -> BOOLEAN]
    BY DEF TypeOK, FlagTypes
  <2> QED BY <1>19, <2>1, ReconnectingFlags DEF HandleGarbage, work, TypeOK, FlagTypes
<1> QED
  BY <1>2, <1>3, <1>4, <1>5, <1>6, <1>7, <1>8, <1>9, <1>10, <1>11, <1>12, <1>13, <1>14,
     <1>15, <1>16, <1>17, <1>18, <1>19 DEF Next, User, Reconnecting

-----------------------------------------------------------------------------
(* Types: the tasks, and the attempts of a reconnection.                   *)

Stages == {"off", "close", "cancel", "connect", "sleep"}

LEMMA CountType ==
  ASSUME TypeOK, NEW what \in DOMAIN Bound, Count(what)
  PROVE  count' \in [DOMAIN Bound -> Nat]
BY DEF TypeOK, TaskTypes, Count

(* A task starts from "off", without any attempt. *)
LEMMA StartedTasks ==
  ASSUME TypeOK, NEW o, StartReconnect(o)
  PROVE  /\ rec' \in [Tasks -> Stages]
         /\ \A k \in Tasks : rec'[k] # rec[k] =>
              rec[k] = "off" /\ rec'[k] \in {"close", "cancel"}
<1>1. CASE UNCHANGED rec
  BY <1>1 DEF TypeOK, TaskTypes, Stages
<1>2. ASSUME NEW k \in Tasks, rec[k] = "off",
             rec' = [rec EXCEPT ![k] = IF o[conn] THEN "close" ELSE "cancel"]
      PROVE  /\ rec' \in [Tasks -> Stages]
             /\ \A j \in Tasks : rec'[j] # rec[j] =>
                  rec[j] = "off" /\ rec'[j] \in {"close", "cancel"}
  BY <1>2 DEF TypeOK, TaskTypes, Stages
<1> QED BY <1>1, <1>2 DEF StartReconnect, NewTask

LEMMA EndingTasks ==
  ASSUME TypeOK, NEW kind \in {"clean", "error"}, NEW r, BeginDisconnect(kind, r)
  PROVE  conn' \in 0..MaxConnects /\ disconnecting' \in {"off", "clean", "error"}
BY BoundsAssumption DEF BeginDisconnect, EndDisconnect, TypeOK, TaskTypes

LEMMA TasksStep ==
  ASSUME TypeOK, [Next]_vars
  PROVE  TaskTypes'
<1> USE BoundsAssumption
<1>1. ASSUME UNCHANGED <<conn, tasks, count>> PROVE TaskTypes'
  BY <1>1 DEF tasks, TypeOK, TaskTypes
<1>2. ASSUME NEW r \in Requests, Send(r) PROVE TaskTypes'
  BY <1>1, <1>2 DEF Send, sender
<1>3. ASSUME NEW r \in Requests, Cancel(r) PROVE TaskTypes'
  <2>1. count' \in [DOMAIN Bound -> Nat]
    BY <1>3, CountType DEF Cancel, Bound
  <2> QED BY <1>3, <2>1 DEF Cancel, sender, tasks, TypeOK, TaskTypes
<1>4. CASE Connect
  <2>1. count' \in [DOMAIN Bound -> Nat]
    BY <1>4, CountType DEF Connect, Bound
  <2>2. count["connect"] < MaxConnects /\ count["connect"] \in Nat
    BY <1>4 DEF Connect, Count, Bound, TypeOK, TaskTypes
  <2>3. count["connect"] + 1 \in 0..MaxConnects
    BY <2>2
  <2> QED BY <1>4, <2>1, <2>3 DEF Connect, TypeOK, TaskTypes
<1>5. CASE Connected
  BY <1>5 DEF Connected, TypeOK, TaskTypes
<1>6. CASE ConnectFails
  <2>1. count' \in [DOMAIN Bound -> Nat]
    BY <1>6, CountType DEF ConnectFails, Bound
  <2> QED BY <1>6, <2>1 DEF ConnectFails, sender, TypeOK, TaskTypes
<1>7. CASE Disconnect
  <2>1. count' \in [DOMAIN Bound -> Nat]
    BY <1>7, CountType DEF Disconnect, Bound
  <2> QED BY <1>7, <2>1, EndingTasks DEF Disconnect, TypeOK, TaskTypes
<1>8. CASE Disconnected
  BY <1>8 DEF Disconnected, EndDisconnect, TypeOK, TaskTypes
<1>9. CASE Keepalive
  <2>1. count' \in [DOMAIN Bound -> Nat]
    <3>1. "timeout" \in DOMAIN Bound
      BY DEF Bound
    <3> QED BY <1>9, <3>1, CountType DEF Keepalive, TypeOK, TaskTypes
  <2>2. rec' \in [Tasks -> Stages]
    BY <1>9, StartedTasks DEF Keepalive, TypeOK, TaskTypes, Stages
  <2> QED BY <1>9, <2>1, <2>2 DEF Keepalive, TypeOK, TaskTypes, Stages
<1>10. ASSUME NEW g \in Gens, PutDone(g) PROVE TaskTypes'
  BY <1>1, <1>10 DEF PutDone, sender
<1>11. ASSUME NEW g \in Gens, HandleFlood(g) PROVE TaskTypes'
  <2>1. count' \in [DOMAIN Bound -> Nat]
    BY <1>11, CountType DEF HandleFlood, Bound
  <2> QED BY <1>11, <2>1, EndingTasks DEF HandleFlood, TypeOK, TaskTypes
<1>12. ASSUME NEW g \in Gens, NEW B \in SUBSET queue, SendBatch(g, B) PROVE TaskTypes'
  <2>1. rec' \in [Tasks -> Stages]
    BY <1>12, StartedTasks DEF SendBatch, HandOver, TypeOK, TaskTypes, Stages
  <2> QED BY <1>12, <2>1 DEF SendBatch, TypeOK, TaskTypes, Stages
<1>13. ASSUME NEW g \in Gens, NEW x \in replies, Receive(g, x) PROVE TaskTypes'
  <2>1. Say(x) /\ UNCHANGED <<conn, tasks>>
    BY <1>13 DEF Receive, HandleResult, HandleResend, HandleRefused, sender
  <2>2. count' \in [DOMAIN Bound -> Nat]
    <3>1. "dup" \in DOMAIN Bound
      BY DEF Bound
    <3> QED BY <2>1, <3>1, CountType DEF Say, TypeOK, TaskTypes
  <2> QED BY <2>1, <2>2 DEF tasks, TypeOK, TaskTypes
<1>14. ASSUME NEW c \in Conns, Write(c) PROVE TaskTypes'
  <2>1. count' \in [DOMAIN Bound -> Nat]
    <3>1. {"resend", "refusal"} \subseteq DOMAIN Bound
      BY DEF Bound
    <3> QED BY <1>14, <3>1, CountType DEF Write, Serve, server, TypeOK, TaskTypes
  <2> QED BY <1>14, <2>1 DEF Write, sender, tasks, TypeOK, TaskTypes
<1>15. ASSUME NEW c \in Conns, Drop(c) PROVE TaskTypes'
  <2>1. count' \in [DOMAIN Bound -> Nat]
    BY <1>15, CountType DEF Drop, Bound
  <2> QED BY <1>15, <2>1 DEF Drop, sender, tasks, TypeOK, TaskTypes
<1>16. ASSUME NEW c \in Conns, Notice(c) PROVE TaskTypes'
  <2>1. rec' \in [Tasks -> Stages]
    BY <1>16, StartedTasks DEF Notice, TypeOK, TaskTypes, Stages
  <2> QED BY <1>16, <2>1 DEF Notice, TypeOK, TaskTypes, Stages
<1>17. ASSUME NEW k \in Tasks, ReconnectClosed(k) PROVE TaskTypes'
  BY <1>17, EndingTasks DEF ReconnectClosed, TypeOK, TaskTypes
<1>18. ASSUME NEW k \in Tasks, Reconnected(k) PROVE TaskTypes'
  BY <1>18 DEF Reconnected, TypeOK, TaskTypes
<1>19. ASSUME NEW k \in Tasks, Retry(k) PROVE TaskTypes'
  BY <1>19 DEF Retry, sender, TypeOK, TaskTypes
<1>20. ASSUME NEW k \in Tasks, ReconnectFails(k) PROVE TaskTypes'
  <2>1. count' \in [DOMAIN Bound -> Nat]
    BY <1>20, CountType DEF ReconnectFails, Bound
  <2> QED BY <1>20, <2>1 DEF ReconnectFails, sender, TypeOK, TaskTypes
<1>21. ASSUME NEW k \in Tasks, Exhausted(k) PROVE TaskTypes'
  BY <1>21, EndingTasks DEF Exhausted, TypeOK, TaskTypes
<1>22. CASE UNCHANGED vars
  BY <1>1, <1>22 DEF vars, sender
<1>23. ASSUME NEW g \in Gens, HandleGarbage(g) PROVE TaskTypes'
  <2>1. count' \in [DOMAIN Bound -> Nat]
    BY <1>23, CountType DEF HandleGarbage, Bound
  <2>2. rec' \in [Tasks -> Stages]
    BY <1>23, StartedTasks DEF HandleGarbage
  <2> QED BY <1>23, <2>1, <2>2 DEF HandleGarbage, TypeOK, TaskTypes, Stages
<1> QED
  BY <1>2, <1>3, <1>4, <1>5, <1>6, <1>7, <1>8, <1>9, <1>10, <1>11, <1>12, <1>13, <1>14,
     <1>15, <1>16, <1>17, <1>18, <1>19, <1>20, <1>21, <1>22, <1>23
  DEF Next, User, Reconnecting

LEMMA AttemptsStep ==
  ASSUME TypeOK, [Next]_vars
  PROVE  Attempts'
<1> USE BoundsAssumption
<1>1. ASSUME UNCHANGED <<rec, tries>> PROVE Attempts'
  BY <1>1 DEF TypeOK, Attempts
<1>2. ASSUME UNCHANGED tries, NEW o, StartReconnect(o) PROVE Attempts'
  BY <1>2, StartedTasks DEF TypeOK, TaskTypes, Attempts, Stages
<1>3. ASSUME NEW k \in Tasks, tries' = [tries EXCEPT ![k] = 0],
             rec' = [rec EXCEPT ![k] = "off"]
      PROVE  Attempts'
  BY <1>3 DEF TypeOK, TaskTypes, Attempts
<1>4. ASSUME NEW k \in Tasks, tries[k] < Retries, tries' = [tries EXCEPT ![k] = @ + 1],
             \/ rec' = [rec EXCEPT ![k] = "sleep"]
             \/ rec[k] = "sleep" /\ UNCHANGED rec
      PROVE  Attempts'
  <2>1. tries[k] \in 0..Retries /\ tries[k] + 1 \in 0..Retries
    BY <1>4 DEF TypeOK, Attempts
  <2>2. tries' \in [Tasks -> 0..Retries]
    BY <1>4, <2>1 DEF TypeOK, Attempts
  <2>3. rec'[k] = "sleep" /\ \A j \in Tasks \ {k} : rec'[j] = rec[j] /\ tries'[j] = tries[j]
    BY <1>4 DEF TypeOK, TaskTypes, Attempts
  <2> QED BY <2>2, <2>3 DEF TypeOK, Attempts
<1>5. ASSUME NEW k \in Tasks, ReconnectClosed(k) PROVE Attempts'
  <2>1. /\ rec[k] \in {"close", "cancel"} /\ tries[k] = 0
        /\ UNCHANGED tries \/ tries' = [tries EXCEPT ![k] = IF conn = 0 THEN 1 ELSE 0]
    BY <1>5 DEF ReconnectClosed, TypeOK, Attempts
  <2>2. /\ rec'[k] \in {"off", "sleep", "connect"}
        /\ rec'[k] = "connect" => conn # 0
        /\ rec'[k] = "off" => UNCHANGED tries
        /\ \A j \in Tasks \ {k} : rec'[j] = rec[j]
    BY <1>5 DEF ReconnectClosed, TypeOK, TaskTypes
  <2>3. tries' \in [Tasks -> 0..Retries]
    BY <2>1 DEF TypeOK, Attempts
  <2>4. /\ rec'[k] = "connect" => tries'[k] < Retries
        /\ rec'[k] = "off" => tries'[k] = 0
        /\ \A j \in Tasks \ {k} : tries'[j] = tries[j]
    BY <2>1, <2>2 DEF TypeOK, Attempts
  <2> QED BY <2>2, <2>3, <2>4 DEF TypeOK, Attempts
<1>6. ASSUME NEW k \in Tasks, Reconnected(k) PROVE Attempts'
  BY <1>3, <1>6 DEF Reconnected
<1>7. ASSUME NEW k \in Tasks, Exhausted(k) PROVE Attempts'
  BY <1>3, <1>7 DEF Exhausted
<1>8. ASSUME NEW k \in Tasks, ReconnectFails(k) PROVE Attempts'
  <2>1. tries[k] < Retries
    BY <1>8 DEF ReconnectFails, TypeOK, Attempts
  <2> QED BY <1>4, <1>8, <2>1 DEF ReconnectFails
<1>9. ASSUME NEW k \in Tasks, Retry(k) PROVE Attempts'
  <2>1. CASE conn # 0
    BY <1>9, <2>1 DEF Retry, MayRetry, TypeOK, TaskTypes, Attempts
  <2>2. CASE conn = 0
    BY <1>4, <1>9, <2>2 DEF Retry, MayRetry
  <2> QED BY <2>1, <2>2
<1>10. CASE Keepalive
  BY <1>1, <1>2, <1>10 DEF Keepalive
<1>11. ASSUME NEW g \in Gens, NEW B \in SUBSET queue, SendBatch(g, B) PROVE Attempts'
  BY <1>1, <1>2, <1>11 DEF SendBatch, HandOver
<1>12. ASSUME NEW c \in Conns, Notice(c) PROVE Attempts'
  BY <1>1, <1>2, <1>12 DEF Notice
<1>19. ASSUME NEW g \in Gens, HandleGarbage(g) PROVE Attempts'
  BY <1>2, <1>19 DEF HandleGarbage
<1>13. ASSUME NEW g \in Gens, NEW x \in replies, Receive(g, x) PROVE Attempts'
  BY <1>1, <1>13 DEF Receive, HandleResult, HandleResend, HandleRefused, tasks
<1>14. ASSUME NEW g \in Gens, PutDone(g) \/ HandleFlood(g) PROVE Attempts'
  BY <1>1, <1>14 DEF PutDone, HandleFlood, tasks
<1>15. ASSUME NEW c \in Conns, Write(c) \/ Drop(c) PROVE Attempts'
  BY <1>1, <1>15 DEF Write, Drop, tasks
<1>16. ASSUME NEW r \in Requests, Send(r) \/ Cancel(r) PROVE Attempts'
  BY <1>1, <1>16 DEF Send, Cancel, tasks
<1>17. CASE Connect \/ Connected \/ ConnectFails \/ Disconnect \/ Disconnected
  BY <1>1, <1>17 DEF Connect, Connected, ConnectFails, Disconnect, Disconnected
<1>18. CASE UNCHANGED vars
  BY <1>1, <1>18 DEF vars, tasks
<1> QED
  BY <1>5, <1>6, <1>7, <1>8, <1>9, <1>10, <1>11, <1>12, <1>13, <1>14, <1>15, <1>16,
     <1>17, <1>18, <1>19 DEF Next, User, Reconnecting

-----------------------------------------------------------------------------
(* Types: the work.                                                        *)

FutTypes == {"new", "waiting", "answered", "error", "cancelled"}

LEMMA EndingWork ==
  ASSUME TypeOK, Finite, NEW kind, NEW r, BeginDisconnect(kind, r) \/ EndDisconnect(kind)
  PROVE  /\ fut' \in [Requests -> FutTypes]
         /\ pending' \subseteq pending /\ IsFiniteSet(pending')
<1>1. pending' \in {{}, pending}
  BY DEF BeginDisconnect, EndDisconnect
<1>2. fut' \in [Requests -> FutTypes]
  BY DEF BeginDisconnect, EndDisconnect, TypeOK, WorkTypes, FutTypes
<1> QED BY <1>1, <1>2, FS_EmptySet DEF Finite

(* What is popped from the pending states is pending. *)
LEMMA PoppedStates ==
  ASSUME NEW x
  PROVE  PopStates(x) \subseteq pending
BY DEF PopStates

LEMMA SaidReplies ==
  ASSUME TypeOK, Finite, NEW x, Say(x)
  PROVE  replies' \subseteq Reply /\ IsFiniteSet(replies') /\ ran' = ran
BY FS_RemoveElement DEF Say, Finite, TypeOK, WorkTypes

LEMMA ServedReplies ==
  ASSUME TypeOK, Finite, NEW p \in Packet, Serve(p)
  PROVE  replies' \subseteq Reply /\ IsFiniteSet(replies') /\ ran' \subseteq Requests
<1>1. CASE UNCHANGED <<replies, ran>>
  BY <1>1 DEF Finite, TypeOK, WorkTypes
<1>2. CASE /\ replies' = replies \cup {[kind |-> "result", pkt |-> p.pkt, r |-> s] : s \in p.states}
           /\ ran' = ran \cup (p.states \cap Requests)
  <2> DEFINE f == [s \in p.states |-> [kind |-> "result", pkt |-> p.pkt, r |-> s]]
  <2>1. p.states \subseteq States /\ p.pkt \in Nat
    BY DEF Packet
  <2>2. IsFiniteSet(States)
    BY NamesAssumption, FS_AddElement DEF States
  <2>3. IsFiniteSet(p.states)
    BY <2>1, <2>2, FS_Subset
  <2>4. IsFiniteSet({f[s] : s \in p.states})
    BY <2>3, ImageIsFinite
  <2>5. IsFiniteSet({[kind |-> "result", pkt |-> p.pkt, r |-> s] : s \in p.states})
    BY <2>4
  <2>6. IsFiniteSet(replies')
    BY <1>2, <2>5, FS_Union DEF Finite
  <2>7. replies' \subseteq Reply
    BY <1>2, <2>1 DEF TypeOK, WorkTypes, Reply
  <2> QED BY <1>2, <2>6, <2>7 DEF TypeOK, WorkTypes
<1>3. ASSUME NEW x \in Key(p), replies' = replies \cup {x}, UNCHANGED ran
      PROVE  replies' \subseteq Reply /\ IsFiniteSet(replies') /\ ran' \subseteq Requests
  <2>1. x \in Reply
    BY <1>3 DEF Key, Reply, Packet
  <2> QED BY <1>3, <2>1, FS_AddElement DEF Finite, TypeOK, WorkTypes
<1> QED BY <1>1, <1>2, <1>3 DEF Serve

Work == /\ queue' \subseteq States
        /\ pending' \subseteq PendingState /\ IsFiniteSet(pending')
        /\ container' \in [States -> Nat]
        /\ fut' \in [Requests -> FutTypes]

LEMMA WorkStep ==
  ASSUME TypeOK, Finite, [Next]_vars
  PROVE  WorkTypes' /\ Finite'
<1> USE DEF FutTypes
<1>1. ASSUME UNCHANGED <<out, session, queue, pending, container, fut, replies, ran>>
      PROVE  WorkTypes' /\ Finite'
  BY <1>1 DEF TypeOK, WorkTypes, Finite
<1>2. ASSUME Work, UNCHANGED <<out, session, replies, ran>> PROVE WorkTypes' /\ Finite'
  BY <1>2 DEF Work, TypeOK, WorkTypes, Finite
<1>3. ASSUME NEW r \in Requests, Send(r) \/ Cancel(r) PROVE WorkTypes' /\ Finite'
  BY <1>2, <1>3 DEF Send, Cancel, wires, server, Work, Finite, TypeOK, WorkTypes, States
<1>4. CASE Connect \/ ConnectFails \/ Connected
  BY <1>1, <1>4 DEF Connect, ConnectFails, Connected, Establish, wires, work, server
<1>5. CASE Disconnect \/ Disconnected
  BY <1>2, <1>5, EndingWork DEF Disconnect, Disconnected, wires, server, Work, TypeOK, WorkTypes
<1>6. CASE Keepalive
  <2>1. /\ queue' \in {queue, queue \cup {Ping}}
        /\ container' \in {container, [container EXCEPT ![Ping] = 0]}
        /\ UNCHANGED <<out, session, pending, fut, ran>>
    BY <1>6 DEF Keepalive
  <2>2. replies' \subseteq replies
    BY <1>6 DEF Keepalive
  <2>3. IsFiniteSet(replies')
    BY <2>2, FS_Subset DEF Finite
  <2> QED BY <2>1, <2>2, <2>3 DEF Finite, TypeOK, WorkTypes, States
<1>7. ASSUME NEW g \in Gens, PutDone(g) PROVE WorkTypes' /\ Finite'
  <2>1. out' \in [Conns -> Packet]
    BY <1>7 DEF PutDone, TypeOK, WorkTypes, LoopTypes
  <2> QED BY <1>7, <2>1 DEF PutDone, work, server, Finite, TypeOK, WorkTypes
<1>8. ASSUME NEW g \in Gens, HandleFlood(g) PROVE WorkTypes' /\ Finite'
  BY <1>2, <1>8, EndingWork DEF HandleFlood, server, Work, TypeOK, WorkTypes
<1>9. ASSUME NEW g \in Gens, NEW B \in SUBSET queue, SendBatch(g, B)
      PROVE  WorkTypes' /\ Finite'
  <2> DEFINE n == Fresh(UsedPkts)
             p == [on |-> conn, session |-> session, pkt |-> n, states |-> B]
             f == [s \in B |-> [pkt |-> n, r |-> s]]
  <2>1. n \in Nat /\ B \subseteq States
    BY NumbersType DEF TypeOK, WorkTypes
  <2>2. p \in Packet
    BY <2>1 DEF TypeOK, TaskTypes, WorkTypes, Packet
  <2>3. HandOver(g, p)
    BY <1>9 DEF SendBatch
  <2>4. /\ queue' = queue \ B
        /\ pending' = pending \cup {[pkt |-> n, r |-> s] : s \in B}
        /\ container' = [s \in States |-> IF s \in B /\ Cardinality(B) > 1 THEN n ELSE container[s]]
        /\ UNCHANGED <<session, fut, replies, ran>>
    BY <1>9 DEF SendBatch, server
  <2>5. IsFiniteSet({[pkt |-> n, r |-> s] : s \in B})
    <3>1. IsFiniteSet(B)
      BY <2>1, NamesAssumption, FS_AddElement, FS_Subset DEF States
    <3>2. IsFiniteSet({f[s] : s \in B})
      BY <3>1, ImageIsFinite
    <3> QED BY <3>2
  <2>6. IsFiniteSet(pending')
    BY <2>4, <2>5, FS_Union DEF Finite
  <2> HIDE DEF n, p, f
  <2>7. pending' \subseteq PendingState
    BY <2>1, <2>4 DEF TypeOK, WorkTypes, PendingState
  <2>8. container' \in [States -> Nat]
    BY <2>1, <2>4 DEF TypeOK, WorkTypes
  <2>9. out' \in [Conns -> Packet]
    BY <2>2, <2>3 DEF HandOver, TypeOK, WorkTypes
  <2> QED BY <2>4, <2>6, <2>7, <2>8, <2>9 DEF Finite, TypeOK, WorkTypes
<1>10. ASSUME NEW g \in Gens, NEW x \in replies, Receive(g, x) PROVE WorkTypes' /\ Finite'
  <2>1. Say(x) /\ UNCHANGED <<out, session, container>>
    BY <1>10 DEF Receive, HandleResult, HandleResend, HandleRefused, wires
  <2>2. pending' \subseteq pending /\ IsFiniteSet(pending')
    <3>1. pending' \subseteq pending
      BY <1>10 DEF Receive, HandleResult, HandleResend, HandleRefused, Without
    <3> QED BY <3>1, FS_Subset DEF Finite
  <2>3. queue' \subseteq States
    <3>1. \A y \in PopStates(x) : y.r \in States
      BY PoppedStates DEF TypeOK, WorkTypes, PendingState
    <3> QED
      BY <1>10, <3>1 DEF Receive, HandleResult, HandleResend, HandleRefused, TypeOK, WorkTypes
  <2>4. fut' \in [Requests -> FutTypes]
    BY <1>10 DEF Receive, HandleResult, HandleResend, HandleRefused, TypeOK, WorkTypes
  <2> QED BY <2>1, <2>2, <2>3, <2>4, SaidReplies DEF Finite, TypeOK, WorkTypes
<1>11. ASSUME NEW c \in Conns, Write(c) PROVE WorkTypes' /\ Finite'
  <2>1. out[c] \in Packet /\ out' \in [Conns -> Packet]
    BY <1>11, NoPacketType DEF Write, TypeOK, WorkTypes
  <2>2. Serve(out[c]) \/ UNCHANGED <<replies, ran>>
    BY <1>11 DEF Write, server
  <2>3. replies' \subseteq Reply /\ IsFiniteSet(replies') /\ ran' \subseteq Requests
    BY <2>1, <2>2, ServedReplies DEF Finite, TypeOK, WorkTypes
  <2> QED BY <1>11, <2>1, <2>3 DEF Write, work, Finite, TypeOK, WorkTypes
<1>12. ASSUME NEW c \in Conns, Drop(c) \/ Notice(c) PROVE WorkTypes' /\ Finite'
  BY <1>1, <1>12 DEF Drop, Notice, work, server
<1>13. ASSUME NEW k \in Tasks, ReconnectClosed(k) PROVE WorkTypes' /\ Finite'
  <2>1. session' \in Nat
    BY <1>13, NumbersType DEF ReconnectClosed
  <2>2. /\ fut' \in [Requests -> FutTypes]
        /\ pending' \subseteq pending /\ IsFiniteSet(pending')
    BY <1>13, EndingWork DEF ReconnectClosed, Finite, TypeOK, WorkTypes
  <2>3. replies' = {} /\ UNCHANGED <<out, queue, container, ran>>
    BY <1>13 DEF ReconnectClosed
  <2> QED BY <2>1, <2>2, <2>3, FS_EmptySet DEF Finite, TypeOK, WorkTypes
<1>14. ASSUME NEW k \in Tasks, Reconnected(k) PROVE WorkTypes' /\ Finite'
  <2>1. /\ queue' = queue \cup Requeued
        /\ pending' = {}
        /\ UNCHANGED <<out, session, container, fut, replies, ran>>
    BY <1>14 DEF Reconnected, Establish, server
  <2>2. Requeued \subseteq States
    BY DEF Requeued, TypeOK, WorkTypes, PendingState
  <2> QED BY <1>2, <2>1, <2>2, FS_EmptySet DEF Work, TypeOK, WorkTypes
<1>15. ASSUME NEW k \in Tasks, Retry(k) \/ ReconnectFails(k) PROVE WorkTypes' /\ Finite'
  BY <1>1, <1>15 DEF Retry, ReconnectFails, wires, work, server
<1>16. ASSUME NEW k \in Tasks, Exhausted(k) PROVE WorkTypes' /\ Finite'
  BY <1>1, <1>2, <1>16, EndingWork DEF Exhausted, server, Work, TypeOK, WorkTypes
<1>17. CASE UNCHANGED vars
  BY <1>1, <1>17 DEF vars, wires, work, server
<1>18. ASSUME NEW g \in Gens, HandleGarbage(g) PROVE WorkTypes' /\ Finite'
  BY <1>1, <1>18 DEF HandleGarbage, work, server
<1> QED
  BY <1>3, <1>4, <1>5, <1>6, <1>7, <1>8, <1>9, <1>10, <1>11, <1>12, <1>13, <1>14, <1>15,
     <1>16, <1>17, <1>18 DEF Next, User, Reconnecting

LEMMA InitTypeOK == Init => TypeOK /\ Finite
<1> SUFFICES ASSUME Init PROVE TypeOK /\ Finite
  OBVIOUS
<1>1. FlagTypes
  BY NamesAssumption DEF Init, FlagTypes
<1>2. LoopTypes
  BY NoPacketType, BoundsAssumption DEF Init, LoopTypes, Gens
<1>3. TaskTypes
  BY BoundsAssumption DEF Init, TaskTypes, Bound
<1>4. Attempts
  BY BoundsAssumption DEF Init, Attempts
<1>5. WorkTypes
  BY NoPacketType DEF Init, WorkTypes
<1>6. Finite
  BY FS_EmptySet DEF Init, Finite
<1> QED BY <1>1, <1>2, <1>3, <1>4, <1>5, <1>6 DEF TypeOK

LEMMA TypedStep ==
  ASSUME TypeOK, Finite, [Next]_vars
  PROVE  TypeOK' /\ Finite'
BY FlagsStep, LoopsStep, TasksStep, AttemptsStep, WorkStep DEF TypeOK

LEMMA AlwaysTyped == Spec => [](TypeOK /\ Finite)
<1>1. Init => TypeOK /\ Finite
  BY InitTypeOK
<1>2. (TypeOK /\ Finite) /\ [Next]_vars => (TypeOK /\ Finite)'
  BY TypedStep
<1> QED BY <1>1, <1>2, PTL DEF Spec

(* The variables of the sender, its tasks, its Connections and the server  *)
(* always have their types, and no reconnection is attempted more often    *)
(* than it may be.                                                         *)
THEOREM Typed == Spec => []TypeOK
<1>1. TypeOK /\ Finite => TypeOK
  OBVIOUS
<1> QED BY <1>1, AlwaysTyped, PTL

-----------------------------------------------------------------------------
(* What a step does to the futures, the queue and what is pending.         *)

(* A _disconnect() that has closed its connection. *)
Ends == UNCHANGED queue /\ \E kind \in {"clean", "error"} : EndDisconnect(kind)

Quiet == UNCHANGED <<fut, pending>> /\ queue' \in {queue, queue \cup {Ping}}

LEMMA EndingEnds ==
  ASSUME NEW kind \in {"clean", "error"}, NEW r, BeginDisconnect(kind, r), UNCHANGED queue
  PROVE  Ends \/ Quiet
BY DEF BeginDisconnect, Ends, Quiet

LEMMA Shapes ==
  ASSUME TypeOK, [Next]_vars
  PROVE  \/ Quiet
         \/ Ends
         \/ \E r \in Requests : Send(r) \/ Cancel(r)
         \/ \E g \in Gens : \E B \in SUBSET queue : SendBatch(g, B)
         \/ \E g \in Gens : \E x \in replies : Receive(g, x)
         \/ \E k \in Tasks : Reconnected(k)
<1>1. CASE Connect \/ ConnectFails \/ Connected \/ Keepalive
  BY <1>1 DEF Connect, ConnectFails, Connected, Keepalive, work, Quiet
<1>2. CASE Disconnect
  BY <1>2, EndingEnds DEF Disconnect
<1>3. CASE Disconnected
  BY <1>3 DEF Disconnected, Ends, TypeOK, TaskTypes
<1>4. ASSUME NEW g \in Gens, PutDone(g) PROVE Quiet
  BY <1>4 DEF PutDone, work, Quiet
<1>5. ASSUME NEW g \in Gens, HandleFlood(g) \/ HandleGarbage(g) PROVE Ends \/ Quiet
  <2>1. CASE HandleFlood(g)
    BY <2>1, EndingEnds DEF HandleFlood
  <2>2. CASE HandleGarbage(g)
    BY <2>2 DEF HandleGarbage, work, Quiet
  <2> QED BY <1>5, <2>1, <2>2
<1>6. ASSUME NEW c \in Conns, Write(c) \/ Drop(c) \/ Notice(c) PROVE Quiet
  BY <1>6 DEF Write, Drop, Notice, work, Quiet
<1>7. ASSUME NEW k \in Tasks, ReconnectClosed(k) PROVE Ends \/ Quiet
  <2>1. CASE \E kind \in {"clean", "error"} : BeginDisconnect(kind, rl)
    BY <1>7, <2>1, EndingEnds DEF ReconnectClosed
  <2>2. CASE UNCHANGED <<fut, pending>>
    BY <1>7, <2>2 DEF ReconnectClosed, Quiet
  <2> QED BY <1>7, <2>1, <2>2 DEF ReconnectClosed
<1>8. ASSUME NEW k \in Tasks, Exhausted(k) PROVE Ends \/ Quiet
  <2>1. CASE BeginDisconnect("error", rl)
    BY <1>8, <2>1, EndingEnds DEF Exhausted
  <2>2. CASE UNCHANGED <<fut, pending>>
    BY <1>8, <2>2 DEF Exhausted, Quiet
  <2> QED BY <1>8, <2>1, <2>2 DEF Exhausted
<1>9. ASSUME NEW k \in Tasks, Retry(k) \/ ReconnectFails(k) PROVE Quiet
  BY <1>9 DEF Retry, ReconnectFails, work, Quiet
<1>10. CASE UNCHANGED vars
  BY <1>10 DEF vars, work, Quiet
<1> QED
  BY <1>1, <1>2, <1>3, <1>4, <1>5, <1>6, <1>7, <1>8, <1>9, <1>10
  DEF Next, User, Reconnecting

(* Every packet on its way was there before, or carries queued states.     *)
LEMMA PacketsStep ==
  ASSUME TypeOK, [Next]_vars
  PROVE  \A q \in Packets' : q = NoPacket \/ q \in Packets \/ q.states \subseteq queue
<1> DEFINE Known(q) == q = NoPacket \/ q \in Packets \/ q.states \subseteq queue
<1> DEFINE AllKnown == /\ \A c \in Conns : Known(out'[c])
                       /\ \A g \in Gens : Known(held'[g])
<1>1. SUFFICES AllKnown
  BY DEF Packets
<1>2. /\ \A c \in Conns : Known(out[c])
      /\ \A g \in Gens : Known(held[g])
  BY DEF Packets
<1>3. Known(NoPacket)
  OBVIOUS
<1> HIDE DEF Known
<1>4. ASSUME UNCHANGED <<out, held>> PROVE AllKnown
  BY <1>2, <1>4
<1>5. ASSUME UNCHANGED out, NEW r, CancelLoops(r) \/ UNCHANGED held PROVE AllKnown
  BY <1>2, <1>3, <1>5 DEF CancelLoops
<1>6. ASSUME NEW g \in Gens, NEW B \in SUBSET queue, SendBatch(g, B) PROVE AllKnown
  <2> DEFINE p == [on |-> conn, session |-> session, pkt |-> Fresh(UsedPkts), states |-> B]
  <2>1. Known(p)
    BY DEF Known
  <2>2. HandOver(g, p)
    BY <1>6 DEF SendBatch
  <2> HIDE DEF p
  <2> QED BY <1>2, <2>1, <2>2 DEF HandOver, TypeOK, LoopTypes, WorkTypes
<1>7. ASSUME NEW g \in Gens, PutDone(g) PROVE AllKnown
  BY <1>2, <1>3, <1>7 DEF PutDone, TypeOK, LoopTypes, WorkTypes
<1>8. ASSUME NEW c \in Conns, Write(c) PROVE AllKnown
  BY <1>2, <1>3, <1>8 DEF Write, loops, TypeOK, WorkTypes
<1>9. ASSUME NEW kind, NEW r, BeginDisconnect(kind, r), UNCHANGED out PROVE AllKnown
  BY <1>5, <1>9 DEF BeginDisconnect
<1>10. CASE Connected \/ Connect \/ ConnectFails \/ Keepalive
  BY <1>4, <1>10 DEF Connected, Establish, Connect, ConnectFails, Keepalive, loops, wires
<1>11. CASE Disconnect \/ Disconnected
  BY <1>5, <1>9, <1>11 DEF Disconnect, Disconnected, wires
<1>12. ASSUME NEW g \in Gens, HandleFlood(g) \/ HandleGarbage(g) PROVE AllKnown
  BY <1>4, <1>9, <1>12 DEF HandleFlood, HandleGarbage
<1>13. ASSUME NEW g \in Gens, NEW x \in replies, Receive(g, x) PROVE AllKnown
  BY <1>4, <1>13 DEF Receive, HandleResult, HandleResend, HandleRefused, wires
<1>14. ASSUME NEW c \in Conns, Drop(c) \/ Notice(c) PROVE AllKnown
  BY <1>4, <1>14 DEF Drop, Notice, loops
<1>15. ASSUME NEW k \in Tasks, ReconnectClosed(k) PROVE AllKnown
  BY <1>5, <1>15 DEF ReconnectClosed
<1>16. ASSUME NEW k \in Tasks, Reconnected(k) PROVE AllKnown
  BY <1>4, <1>16 DEF Reconnected, Establish
<1>17. ASSUME NEW k \in Tasks, Retry(k) \/ ReconnectFails(k) PROVE AllKnown
  BY <1>4, <1>17 DEF Retry, ReconnectFails, loops, wires
<1>18. ASSUME NEW k \in Tasks, Exhausted(k) PROVE AllKnown
  BY <1>4, <1>9, <1>18 DEF Exhausted, loops
<1>19. ASSUME NEW r \in Requests, Send(r) \/ Cancel(r) PROVE AllKnown
  BY <1>4, <1>19 DEF Send, Cancel, loops, wires
<1>20. CASE UNCHANGED vars
  BY <1>4, <1>20 DEF vars, loops, wires
<1> QED
  BY <1>6, <1>7, <1>8, <1>10, <1>11, <1>12, <1>13, <1>14, <1>15, <1>16, <1>17, <1>18,
     <1>19, <1>20 DEF Next, User, Reconnecting

-----------------------------------------------------------------------------
(* What the callers of send() are promised.                                *)

(* Only what was sent is queued, pending or on its way. *)
Sent == {r \in Requests : fut[r] # "new"} \cup {Ping}

Known ==
  /\ queue \subseteq Sent
  /\ \A x \in pending : x.r \in Sent
  /\ \A p \in Packets : p.states \subseteq Sent

(* The server has an answer only to what it executed. *)
Honest == \A x \in replies : x.kind = "result" /\ x.r \in Requests => x.r \in ran

(* A step of the sender seen by its callers, and by the server. *)
LEMMA EndsSettles ==
  ASSUME TypeOK, Ends, UNCHANGED ran
  PROVE  \E R \in SUBSET Requests : RpcSpec!Settle(R)
<1> DEFINE R == {r \in Requests : fut[r] = "waiting" /\ PendingOf(r) # {}}
<1>1. RpcSpec!Settle(R)
  BY DEF RpcSpec!Settle, Ends, EndDisconnect, TypeOK, WorkTypes
<1> QED BY <1>1

LEMMA ReceiveSettles ==
  ASSUME TypeOK, Honest, NEW g \in Gens, NEW x \in replies, Receive(g, x)
  PROVE  \E R \in SUBSET Requests : RpcSpec!Settle(R)
<1>1. ran' = ran
  BY DEF Receive, HandleResult, HandleResend, HandleRefused, Say
<1>2. CASE HandleResult(g, x)
  <2> DEFINE popped == {y \in pending : y.pkt = x.pkt /\ y.r = x.r}
             R == {r \in Requests : fut[r] = "waiting" /\ \E y \in popped : y.r = r}
  <2>1. \A r \in R : r \in ran
    BY <1>2 DEF HandleResult, Honest
  <2>2. RpcSpec!Settle(R)
    BY <1>1, <1>2, <2>1 DEF RpcSpec!Settle, HandleResult, CanSet, TypeOK, WorkTypes
  <2> QED BY <2>2
<1>3. CASE HandleResend(g, x)
  <2>1. RpcSpec!Settle({})
    BY <1>1, <1>3 DEF RpcSpec!Settle, HandleResend, TypeOK, WorkTypes
  <2> QED BY <2>1
<1>4. CASE HandleRefused(g, x)
  <2>1. PICK R \in Failing({y.r : y \in PopStates(x)} \cap Requests) :
          fut' = [r \in Requests |-> IF r \in R THEN "error" ELSE fut[r]]
    BY <1>4 DEF HandleRefused
  <2>2. R \in SUBSET Requests /\ \A r \in R : fut[r] = "waiting"
    BY DEF Failing
  <2>3. RpcSpec!Settle(R)
    BY <1>1, <2>1, <2>2 DEF RpcSpec!Settle, TypeOK, WorkTypes
  <2> QED BY <2>2, <2>3
<1> QED BY <1>2, <1>3, <1>4 DEF Receive

(* Only the send task of a Connection makes the server execute requests.   *)
LEMMA WriteExecutes ==
  ASSUME TypeOK, Known, NEW c \in Conns, Write(c)
  PROVE  /\ UNCHANGED fut
         /\ UNCHANGED ran \/ \E R \in SUBSET Requests : RpcSpec!Execute(R)
<1>1. out[c].states \subseteq Sent
  BY DEF Known, Packets
<1>2. UNCHANGED fut
  BY DEF Write, work
<1>3. CASE ran' = ran \cup (out[c].states \cap Requests)
  <2>1. \A r \in out[c].states \cap Requests : fut[r] # "new"
    BY <1>1, NamesAssumption DEF Sent
  <2>2. RpcSpec!Execute(out[c].states \cap Requests)
    BY <1>2, <1>3, <2>1 DEF RpcSpec!Execute
  <2> QED BY <1>2, <2>2
<1>4. CASE UNCHANGED ran
  BY <1>2, <1>4
<1> QED BY <1>3, <1>4 DEF Write, Serve, server

LEMMA ServerFrame ==
  ASSUME [Next]_vars, ~(\E c \in Conns : Write(c))
  PROVE  UNCHANGED ran /\ replies' \subseteq replies
BY DEF Next, User, Reconnecting, Receive, Send, Cancel, Connect, Disconnect, Connected,
   ConnectFails, Disconnected, Keepalive, PutDone, HandleFlood, HandleGarbage,
   SendBatch, HandleResult,
   HandleResend, HandleRefused, Say, Drop, Notice, ReconnectClosed, Reconnected, Retry,
   Exhausted, ReconnectFails, server, vars

LEMMA PromiseStep ==
  ASSUME TypeOK, Known, Honest, [Next]_vars
  PROVE  [RpcSpec!Next]_<<fut, ran>>
<1>1. ASSUME NEW c \in Conns, Write(c) PROVE [RpcSpec!Next]_<<fut, ran>>
  BY <1>1, WriteExecutes DEF RpcSpec!Next
<1>2. CASE ~(\E c \in Conns : Write(c))
  <2>1. UNCHANGED ran
    BY <1>2, ServerFrame
  <2>2. CASE Quiet
    BY <2>1, <2>2 DEF Quiet
  <2>3. CASE Ends
    BY <2>1, <2>3, EndsSettles DEF RpcSpec!Next
  <2>4. ASSUME NEW r \in Requests, Send(r) PROVE [RpcSpec!Next]_<<fut, ran>>
    <3>1. RpcSpec!Submit(r)
      BY <2>1, <2>4 DEF RpcSpec!Submit, Send
    <3> QED BY <3>1 DEF RpcSpec!Next
  <2>5. ASSUME NEW r \in Requests, Cancel(r) PROVE [RpcSpec!Next]_<<fut, ran>>
    <3>1. RpcSpec!Settle({r})
      BY <2>1, <2>5 DEF RpcSpec!Settle, Cancel, TypeOK, WorkTypes
    <3> QED BY <3>1 DEF RpcSpec!Next
  <2>6. ASSUME NEW g \in Gens, NEW B \in SUBSET queue, SendBatch(g, B)
        PROVE  [RpcSpec!Next]_<<fut, ran>>
    BY <2>1, <2>6 DEF SendBatch
  <2>7. ASSUME NEW g \in Gens, NEW x \in replies, Receive(g, x)
        PROVE  [RpcSpec!Next]_<<fut, ran>>
    BY <2>7, ReceiveSettles DEF RpcSpec!Next
  <2>8. ASSUME NEW k \in Tasks, Reconnected(k) PROVE [RpcSpec!Next]_<<fut, ran>>
    BY <2>1, <2>8 DEF Reconnected
  <2> QED BY <2>2, <2>3, <2>4, <2>5, <2>6, <2>7, <2>8, Shapes
<1> QED BY <1>1, <1>2

(* A future that is not new does not become new again. *)
LEMMA SentGrows ==
  ASSUME TypeOK, Known, Honest, [Next]_vars
  PROVE  Sent \subseteq Sent'
<1>1. UNCHANGED fut \/ RpcSpec!Next
  BY PromiseStep
<1>2. \A r \in Requests : fut[r] # "new" => fut'[r] # "new"
  BY <1>1 DEF RpcSpec!Next, RpcSpec!Submit, RpcSpec!Execute, RpcSpec!Settle, TypeOK, WorkTypes
<1> QED BY <1>2 DEF Sent

LEMMA KnownStep ==
  ASSUME TypeOK, Known, Honest, [Next]_vars
  PROVE  Known'
<1>1. Sent \subseteq Sent'
  BY SentGrows
<1>2. \A p \in Packets' : p.states \subseteq Sent'
  BY <1>1, PacketsStep DEF Known, NoPacket
<1> DEFINE WorkKnown == queue' \subseteq Sent' /\ \A x \in pending' : x.r \in Sent'
<1>3. WorkKnown
  <2>1. ASSUME queue' \subseteq Sent \cup {Ping}, pending' \subseteq pending PROVE WorkKnown
    BY <1>1, <2>1 DEF Known, Sent
  <2>2. CASE Quiet
    BY <2>1, <2>2 DEF Quiet, Known
  <2>3. CASE Ends
    BY <2>1, <2>3 DEF Ends, EndDisconnect, Known
  <2>4. ASSUME NEW r \in Requests, Send(r) PROVE WorkKnown
    BY <1>1, <2>4 DEF Send, Known, Sent, TypeOK, WorkTypes
  <2>5. ASSUME NEW r \in Requests, Cancel(r) PROVE WorkKnown
    BY <2>1, <2>5 DEF Cancel, Known
  <2>6. ASSUME NEW g \in Gens, NEW B \in SUBSET queue, SendBatch(g, B) PROVE WorkKnown
    BY <1>1, <2>6 DEF SendBatch, Known
  <2>7. ASSUME NEW g \in Gens, NEW x \in replies, Receive(g, x) PROVE WorkKnown
    BY <2>1, <2>7, PoppedStates DEF Receive, HandleResult, HandleResend, HandleRefused,
       Without, Known
  <2>8. ASSUME NEW k \in Tasks, Reconnected(k) PROVE WorkKnown
    BY <1>1, <2>8 DEF Reconnected, Requeued, Known
  <2> QED BY <2>2, <2>3, <2>4, <2>5, <2>6, <2>7, <2>8, Shapes
<1> QED BY <1>2, <1>3 DEF Known

LEMMA HonestStep ==
  ASSUME TypeOK, Honest, [Next]_vars
  PROVE  Honest'
<1>1. ASSUME NEW c \in Conns, Write(c) PROVE Honest'
  <2>1. \/ UNCHANGED <<replies, ran>>
        \/ Serve(out[c])
    BY <1>1 DEF Write, server
  <2>2. CASE Serve(out[c])
    BY <2>2 DEF Serve, Key, Honest
  <2> QED BY <2>1, <2>2 DEF Honest
<1>2. CASE ~(\E c \in Conns : Write(c))
  BY <1>2, ServerFrame DEF Honest
<1> QED BY <1>1, <1>2

Told == TypeOK /\ Finite /\ Known /\ Honest

LEMMA AlwaysTold == Spec => []Told
<1>1. Init => Told
  <2> SUFFICES ASSUME Init PROVE Told
    OBVIOUS
  <2>1. Known /\ Honest
    BY DEF Init, Known, Honest, Packets, NoPacket
  <2> QED BY <2>1, InitTypeOK DEF Told
<1>2. Told /\ [Next]_vars => Told'
  BY TypedStep, KnownStep, HonestStep DEF Told
<1> QED BY <1>1, <1>2, PTL DEF Spec

(* Whatever is lost, repeated, rejected, cancelled, reconnected or         *)
(* disconnected, the callers of send() see only what Rpc promises: a       *)
(* future is settled at most once, after its request was submitted, and    *)
(* with an answer only if the server executed the request.                 *)
THEOREM Implements == Spec => Promise
<1>1. Init => RpcSpec!Init
  BY DEF Init, RpcSpec!Init
<1>2. Told /\ [Next]_vars => [RpcSpec!Next]_<<fut, ran>>
  BY PromiseStep DEF Told
<1> QED BY <1>1, <1>2, AlwaysTold, PTL DEF Spec, Promise, RpcSpec!Spec

-----------------------------------------------------------------------------
(* No request is anywhere twice.                                           *)

Single ==
  /\ \A x, y \in pending : x.r = y.r /\ x.r \in Requests => x = y
  /\ \A x \in pending : x.r \in Requests => x.r \notin queue

LEMMA SingleStep ==
  ASSUME TypeOK, Known, Single, [Next]_vars
  PROVE  Single'
<1> USE NamesAssumption
<1>1. ASSUME pending' \subseteq pending, queue' \subseteq queue \cup {Ping} PROVE Single'
  BY <1>1 DEF Single
<1>2. CASE Quiet
  BY <1>1, <1>2 DEF Quiet
<1>3. CASE Ends
  BY <1>1, <1>3 DEF Ends, EndDisconnect
<1>4. ASSUME NEW r \in Requests, Send(r) PROVE Single'
  <2>1. \A x \in pending : x.r # r
    BY <1>4 DEF Send, Known, Sent
  <2> QED BY <1>4, <2>1 DEF Send, Single
<1>5. ASSUME NEW r \in Requests, Cancel(r) PROVE Single'
  BY <1>1, <1>5 DEF Cancel
<1>6. ASSUME NEW g \in Gens, NEW B \in SUBSET queue, SendBatch(g, B) PROVE Single'
  <2> DEFINE n == Fresh(UsedPkts)
  <2>1. /\ queue' = queue \ B
        /\ pending' = pending \cup {[pkt |-> n, r |-> s] : s \in B}
    BY <1>6 DEF SendBatch
  <2> HIDE DEF n
  <2> QED BY <2>1 DEF Single
<1>7. ASSUME NEW g \in Gens, NEW x \in replies, Receive(g, x) PROVE Single'
  <2>1. CASE HandleResult(g, x) \/ HandleRefused(g, x)
    BY <1>1, <2>1 DEF HandleResult, HandleRefused, Without
  <2>2. CASE HandleResend(g, x)
    <3>1. /\ pending' = pending \ PopStates(x)
          /\ queue' = queue \cup {y.r : y \in PopStates(x)}
      BY <2>2 DEF HandleResend, Without
    <3> QED BY <3>1, PoppedStates DEF Single
  <2> QED BY <1>7, <2>1, <2>2 DEF Receive
<1>8. ASSUME NEW k \in Tasks, Reconnected(k) PROVE Single'
  BY <1>8 DEF Reconnected, Single
<1> QED BY <1>2, <1>3, <1>4, <1>5, <1>6, <1>7, <1>8, Shapes

LEMMA AtMostOne ==
  ASSUME NEW S, \A x, y \in S : x = y
  PROVE  Cardinality(S) <= 1
<1>1. CASE S = {}
  BY <1>1, FS_EmptySet
<1>2. ASSUME NEW x \in S PROVE Cardinality(S) <= 1
  <2>1. S = {x}
    BY <1>2
  <2> QED BY <2>1, FS_Singleton
<1> QED BY <1>1, <1>2

LEMMA AlwaysSingle == Spec => []Single
<1>1. Init => Single
  BY DEF Init, Single
<1>2. Told /\ Single /\ [Next]_vars => Single'
  BY SingleStep DEF Told
<1> QED BY <1>1, <1>2, AlwaysTold, PTL DEF Spec

(* A request is queued or pending, and only once, so that no failure makes *)
(* the sender send it twice at the same time.                              *)
THEOREM NothingTwice == Spec => []SentOnce
<1>1. Single => SentOnce
  <2> SUFFICES ASSUME Single, NEW r \in Requests
               PROVE  /\ Cardinality(PendingOf(r)) <= 1
                      /\ r \in queue => PendingOf(r) = {}
    BY DEF SentOnce
  <2>1. \A x, y \in PendingOf(r) : x = y
    BY DEF Single, PendingOf
  <2> QED BY <2>1, AtMostOne DEF Single, PendingOf
<1> QED BY <1>1, AlwaysSingle, PTL

-----------------------------------------------------------------------------
(* No request is lost.                                                     *)

(* What happens is counted, within its bound. *)
Counted ==
  /\ \A b \in DOMAIN Bound : count[b] <= Bound[b]
  /\ \A x \in replies : x.kind = "refused" => count["refusal"] > 0

(* Somebody waits for what is queued or pending, or gave up.               *)
Awaited ==
  \A r \in Requests :
    r \in queue \/ PendingOf(r) # {} => fut[r] = "waiting" \/ count["cancel"] > 0

LEMMA Counts ==
  ASSUME [Next]_vars
  PROVE  (\E what \in DOMAIN Bound : Count(what)) \/ UNCHANGED count
<1>1. \A what \in {"connect", "disconnect", "drop", "fail", "resend", "refusal", "dup",
                   "flood", "garbage", "cancel", "timeout"} : what \in DOMAIN Bound
  BY DEF Bound
<1> QED
  BY <1>1 DEF Next, User, Reconnecting, Receive, Send, Cancel, Connect, Disconnect,
     Connected, ConnectFails, Disconnected, Keepalive, PutDone, HandleFlood, HandleGarbage,
   SendBatch,
     HandleResult, HandleResend, HandleRefused, Say, Write, Serve, Drop, Notice,
     ReconnectClosed, Reconnected, Retry, Exhausted, ReconnectFails, server, vars

LEMMA CountGrows ==
  ASSUME TypeOK, [Next]_vars
  PROVE  \A b \in DOMAIN Bound : count[b] <= count'[b]
<1>1. count \in [DOMAIN Bound -> Nat]
  BY DEF TypeOK, TaskTypes
<1> QED BY <1>1, Counts DEF Count

LEMMA CountedStep ==
  ASSUME TypeOK, Counted, [Next]_vars
  PROVE  Counted'
<1>1. count \in [DOMAIN Bound -> Nat]
  BY DEF TypeOK, TaskTypes
<1>2. \A b \in DOMAIN Bound : count'[b] <= Bound[b]
  <2>1. \A b \in DOMAIN Bound : Bound[b] \in Nat
    BY BoundsAssumption DEF Bound
  <2>2. ASSUME NEW what \in DOMAIN Bound, Count(what)
        PROVE  \A b \in DOMAIN Bound : count'[b] <= Bound[b]
    <3>1. count'[what] <= Bound[what]
      BY <1>1, <2>1, <2>2 DEF Count
    <3> QED BY <1>1, <2>2, <3>1 DEF Count, Counted
  <2> QED BY <2>2, Counts DEF Counted
<1>3. \A x \in replies' : x.kind = "refused" => count'["refusal"] > 0
  <2>0. count["refusal"] \in Nat /\ count["refusal"] <= count'["refusal"] /\ count'["refusal"] \in Nat
    BY <1>1, TasksStep, CountGrows DEF TaskTypes, Bound
  <2>1. ASSUME replies' \subseteq replies
        PROVE  \A x \in replies' : x.kind = "refused" => count'["refusal"] > 0
    BY <2>0, <2>1 DEF Counted
  <2>2. ASSUME NEW c \in Conns, Write(c)
        PROVE  \A x \in replies' : x.kind = "refused" => count'["refusal"] > 0
    <3>1. CASE UNCHANGED replies
      BY <2>1, <3>1
    <3>2. CASE replies' = replies \cup {[kind |-> "result", pkt |-> out[c].pkt, r |-> s]
                                         : s \in out[c].states}
      BY <2>0, <3>2 DEF Counted
    <3>3. ASSUME NEW x \in Key(out[c]), replies' = replies \cup {x},
                 Count(IF x.kind = "resend" THEN "resend" ELSE "refusal")
          PROVE  \A y \in replies' : y.kind = "refused" => count'["refusal"] > 0
      <4>1. x.kind = "refused" => count'["refusal"] = count["refusal"] + 1
        BY <1>1, <3>3 DEF Count, Bound
      <4> QED BY <2>0, <3>3, <4>1 DEF Counted
    <3> QED BY <2>2, <3>1, <3>2, <3>3 DEF Write, Serve, server
  <2>3. CASE ~(\E c \in Conns : Write(c))
    BY <2>1, <2>3, ServerFrame
  <2> QED BY <2>2, <2>3
<1> QED BY <1>2, <1>3 DEF Counted

LEMMA AwaitedStep ==
  ASSUME TypeOK, Single, Awaited, [Next]_vars
  PROVE  Awaited'
<1>1. /\ count["cancel"] \in Nat /\ count'["cancel"] \in Nat
      /\ count["cancel"] <= count'["cancel"]
  BY TasksStep, CountGrows DEF TypeOK, TaskTypes, Bound
<1>2. ASSUME pending' \subseteq pending, queue' \subseteq queue \cup {Ping},
             \A r \in Requests : fut'[r] # fut[r] => r \notin queue' /\ PendingOf(r)' = {}
      PROVE  Awaited'
  BY <1>1, <1>2, NamesAssumption DEF Awaited, PendingOf
<1>3. CASE Quiet
  BY <1>2, <1>3 DEF Quiet
<1>4. CASE Ends
  <2>1. pending' = {} /\ queue' = queue
    BY <1>4 DEF Ends, EndDisconnect
  <2>2. ASSUME NEW r \in Requests, fut'[r] # fut[r] PROVE r \notin queue
    BY <1>4, <2>2 DEF Ends, EndDisconnect, Single, PendingOf
  <2> QED BY <1>2, <2>1, <2>2 DEF PendingOf
<1>5. ASSUME NEW r \in Requests, Send(r) PROVE Awaited'
  BY <1>1, <1>5 DEF Send, Awaited, PendingOf, TypeOK, WorkTypes
<1>6. ASSUME NEW r \in Requests, Cancel(r) PROVE Awaited'
  <2>1. count'["cancel"] > 0
    BY <1>1, <1>6 DEF Cancel, Count, Bound, TypeOK, TaskTypes
  <2> QED BY <2>1 DEF Awaited
<1>7. ASSUME NEW g \in Gens, NEW B \in SUBSET queue, SendBatch(g, B) PROVE Awaited'
  <2> DEFINE n == Fresh(UsedPkts)
  <2>1. /\ queue' = queue \ B
        /\ pending' = pending \cup {[pkt |-> n, r |-> s] : s \in B}
        /\ fut' = fut
    BY <1>7 DEF SendBatch
  <2> HIDE DEF n
  <2>2. \A r \in Requests : r \in queue' \/ PendingOf(r)' # {} => r \in queue \/ PendingOf(r) # {}
    BY <2>1 DEF PendingOf
  <2> QED BY <1>1, <2>1, <2>2 DEF Awaited
<1>8. ASSUME NEW g \in Gens, NEW x \in replies, Receive(g, x) PROVE Awaited'
  <2>1. CASE HandleResult(g, x)
    <3> DEFINE popped == {y \in pending : y.pkt = x.pkt /\ y.r = x.r}
    <3>1. /\ pending' = pending \ popped
          /\ UNCHANGED queue
          /\ \A r \in Requests : fut'[r] # fut[r] => \E y \in popped : y.r = r
      BY <2>1 DEF HandleResult
    <3>2. ASSUME NEW r \in Requests, fut'[r] # fut[r]
          PROVE  r \notin queue' /\ PendingOf(r)' = {}
      BY <3>1, <3>2 DEF Single, PendingOf
    <3> QED BY <1>2, <3>1, <3>2
  <2>2. CASE HandleResend(g, x)
    <3>1. /\ pending' \subseteq pending
          /\ queue' = queue \cup {y.r : y \in PopStates(x)}
          /\ fut' = fut
      BY <2>2 DEF HandleResend, Without
    <3>2. \A r \in Requests : r \in queue' \/ PendingOf(r)' # {} => r \in queue \/ PendingOf(r) # {}
      BY <3>1, PoppedStates DEF PendingOf
    <3> QED BY <1>1, <3>1, <3>2 DEF Awaited
  <2>3. CASE HandleRefused(g, x)
    <3>1. /\ pending' = pending \ PopStates(x)
          /\ UNCHANGED queue
          /\ \A r \in Requests : fut'[r] # fut[r] => \E y \in PopStates(x) : y.r = r
      BY <2>3 DEF HandleRefused, Without, Failing
    <3>2. ASSUME NEW r \in Requests, fut'[r] # fut[r]
          PROVE  r \notin queue' /\ PendingOf(r)' = {}
      BY <3>1, <3>2, PoppedStates DEF Single, PendingOf
    <3> QED BY <1>2, <3>1, <3>2
  <2> QED BY <1>8, <2>1, <2>2, <2>3 DEF Receive
<1>9. ASSUME NEW k \in Tasks, Reconnected(k) PROVE Awaited'
  <2>1. queue' = queue \cup Requeued /\ pending' = {} /\ fut' = fut
    BY <1>9 DEF Reconnected
  <2>2. \A r \in Requests : r \in queue' \/ PendingOf(r)' # {} => r \in queue \/ PendingOf(r) # {}
    BY <2>1 DEF Requeued, PendingOf
  <2> QED BY <1>1, <2>1, <2>2 DEF Awaited
<1> QED BY <1>3, <1>4, <1>5, <1>6, <1>7, <1>8, <1>9, Shapes

Careful == TypeOK /\ Single /\ Counted /\ Awaited

(* Where nothing that is refused was cancelled, all of a refused container *)
(* hear of it.                                                             *)
LEMMA AllFail ==
  ASSUME Careful, MaxRefusals = 0 \/ MaxCancels = 0,
         NEW x \in replies, x.kind = "refused",
         NEW P, P = {y.r : y \in PopStates(x)} \cap Requests
  PROVE  Failing(P) = {P}
<1>1. count["refusal"] \in Nat /\ count["cancel"] \in Nat
  BY DEF Careful, TypeOK, TaskTypes, Bound
<1>2. count["refusal"] > 0 /\ count["refusal"] <= MaxRefusals /\ count["cancel"] <= MaxCancels
  BY DEF Careful, Counted, Bound
<1>3. count["cancel"] = 0
  BY <1>1, <1>2, BoundsAssumption
<1>4. ASSUME NEW r \in P PROVE fut[r] = "waiting"
  BY <1>3, PoppedStates DEF Careful, Awaited, PendingOf
<1>5. {r \in P : fut[r] = "waiting"} = P
  BY <1>4
<1> QED BY <1>5 DEF Failing

LEMMA NoneLostStep ==
  ASSUME Careful, NoneLost, MaxRefusals = 0 \/ MaxCancels = 0, [Next]_vars
  PROVE  NoneLost'
<1> DEFINE Somewhere(r) == r \in queue \/ PendingOf(r) # {}
<1>1. ASSUME \A r \in Requests :
               fut'[r] = "waiting" => fut[r] = "waiting" /\ (Somewhere(r) => Somewhere(r)')
      PROVE  NoneLost'
  BY <1>1 DEF NoneLost
<1>2. CASE Quiet
  BY <1>1, <1>2 DEF Quiet, PendingOf
<1>3. CASE Ends
  <2>1. \A r \in Requests : fut'[r] = "waiting" => fut[r] = "waiting" /\ PendingOf(r) = {}
    BY <1>3 DEF Ends, EndDisconnect
  <2> QED BY <1>1, <1>3, <2>1 DEF Ends
<1>4. ASSUME NEW r \in Requests, Send(r) PROVE NoneLost'
  BY <1>4 DEF Send, NoneLost, PendingOf, Careful, TypeOK, WorkTypes
<1>5. ASSUME NEW r \in Requests, Cancel(r) PROVE NoneLost'
  <2>1. UNCHANGED <<queue, pending>> /\ fut' = [fut EXCEPT ![r] = "cancelled"]
    BY <1>5 DEF Cancel
  <2> QED BY <1>1, <2>1 DEF PendingOf, Careful, TypeOK, WorkTypes
<1>6. ASSUME NEW g \in Gens, NEW B \in SUBSET queue, SendBatch(g, B) PROVE NoneLost'
  <2> DEFINE n == Fresh(UsedPkts)
  <2>1. /\ queue' = queue \ B
        /\ pending' = pending \cup {[pkt |-> n, r |-> s] : s \in B}
        /\ fut' = fut
    BY <1>6 DEF SendBatch
  <2> HIDE DEF n
  <2>2. \A r \in Requests : r \in B => [pkt |-> n, r |-> r] \in PendingOf(r)'
    BY <2>1 DEF PendingOf
  <2>3. \A r \in Requests : Somewhere(r) => Somewhere(r)'
    BY <2>1, <2>2 DEF PendingOf
  <2> QED BY <1>1, <2>1, <2>3
<1>7. ASSUME NEW g \in Gens, NEW x \in replies, Receive(g, x) PROVE NoneLost'
  <2>1. CASE HandleResult(g, x)
    <3> DEFINE popped == {y \in pending : y.pkt = x.pkt /\ y.r = x.r}
    <3>1. /\ pending' = pending \ popped
          /\ UNCHANGED queue
          /\ \A r \in Requests : fut'[r] = IF fut[r] = "waiting" /\ \E y \in popped : y.r = r
                                           THEN "answered" ELSE fut[r]
      BY <2>1 DEF HandleResult, CanSet
    <3> HIDE DEF popped
    <3>2. \A r \in Requests : fut'[r] = "waiting" =>
            fut[r] = "waiting" /\ \A y \in popped : y.r # r
      BY <3>1
    <3> QED BY <1>1, <3>1, <3>2 DEF PendingOf
  <2>2. CASE HandleResend(g, x)
    <3>1. /\ pending' = pending \ PopStates(x)
          /\ queue' = queue \cup {y.r : y \in PopStates(x)}
          /\ fut' = fut
      BY <2>2 DEF HandleResend, Without
    <3> QED BY <1>1, <3>1 DEF PendingOf
  <2>3. CASE HandleRefused(g, x)
    <3> DEFINE P == {y.r : y \in PopStates(x)} \cap Requests
    <3>1. /\ x.kind = "refused"
          /\ pending' = pending \ PopStates(x)
          /\ UNCHANGED queue
          /\ \E R \in Failing(P) : fut' = [r \in Requests |-> IF r \in R THEN "error" ELSE fut[r]]
      BY <2>3 DEF HandleRefused, Without
    <3>2. Failing(P) = {P}
      BY <3>1, AllFail
    <3>3. \A r \in Requests : fut'[r] = "waiting" =>
            fut[r] = "waiting" /\ \A y \in PopStates(x) : y.r # r
      BY <3>1, <3>2
    <3> QED BY <1>1, <3>1, <3>3 DEF PendingOf
  <2> QED BY <1>7, <2>1, <2>2, <2>3 DEF Receive
<1>8. ASSUME NEW k \in Tasks, Reconnected(k) PROVE NoneLost'
  <2>1. queue' = queue \cup Requeued /\ fut' = fut
    BY <1>8 DEF Reconnected
  <2>2. \A r \in Requests : Somewhere(r) => r \in queue'
    BY <2>1 DEF Requeued, PendingOf
  <2> QED BY <1>1, <2>1, <2>2
<1> QED BY <1>2, <1>3, <1>4, <1>5, <1>6, <1>7, <1>8, Shapes DEF Careful

(* A request somebody waits for is queued or pending: nothing loses it,    *)
(* unless the server refuses a container of which a request was cancelled. *)
(* (Then the others may be lost: run sender_lost.)                         *)
THEOREM NothingLost ==
  ASSUME MaxRefusals = 0 \/ MaxCancels = 0
  PROVE  Spec => []NoneLost
<1>1. Init => Counted /\ Awaited /\ NoneLost
  BY BoundsAssumption DEF Init, Counted, Awaited, NoneLost, PendingOf, Bound
<1>2. Told /\ Single /\ Counted /\ Awaited /\ [Next]_vars => Counted' /\ Awaited'
  BY CountedStep, AwaitedStep DEF Told
<1>3. Told /\ Single /\ Counted /\ Awaited /\ NoneLost /\ [Next]_vars => NoneLost'
  BY NoneLostStep DEF Told, Careful
<1> QED BY <1>1, <1>2, <1>3, AlwaysTold, AlwaysSingle, PTL DEF Spec

=============================================================================
