--------------------------- MODULE ExportedSenders ---------------------------
(***************************************************************************)
(* The senders that a client borrows for other data centers                *)
(* (telethon/client/telegrambaseclient.py), used by downloads              *)
(* (client/downloads.py), inline edits and statistics, cleaned up by the   *)
(* keepalive loop (client/updates.py) and closed by disconnect().          *)
(*                                                                         *)
(* All of them share one asyncio.Lock, held while a connection is opened,  *)
(* an authorization is exported or a connection is closed.  A task that    *)
(* takes the lock and awaits nothing gives it back in the same step.       *)
(*                                                                         *)
(* A sender and its _ExportState are made together and have one number.    *)
(* The list of data centers is cached.                                     *)
(***************************************************************************)
EXTENDS Integers, FiniteSets

CONSTANTS
  Workers,        \* the tasks that borrow senders
  Careful,        \* those that return them whatever happens (try, finally);
                  \* a download returns its sender when it reaches the end
  Centers,        \* the other data centers
  Keeper,         \* the keepalive loop, as holder of the lock
  User,           \* disconnect(), as holder of the lock
  Free,           \* no holder
  Patient,        \* does the user connect only when no worker is busy?
  Notices,        \* does the socket tell that the client's link is broken?
  MaxAsks,        \* bound on the senders asked for
  MaxFails,       \* bound on failed connections and requests
  MaxDrops,       \* bound on broken links of the client
  MaxSwitches,    \* bound on changes of the client's own data center
  MaxDisconnects, \* bound on the calls of disconnect()
  MaxConnects     \* bound on the calls of connect() after the first

ASSUME NamesAssumption ==
  /\ Careful \subseteq Workers
  /\ IsFiniteSet(Workers)
  /\ Centers # {}
  /\ Keeper \notin Workers /\ User \notin Workers /\ Free \notin Workers
  /\ Keeper # User /\ Keeper # Free /\ User # Free
  /\ {Patient, Notices} \subseteq BOOLEAN

ASSUME BoundsAssumption ==
  /\ MaxAsks \in Nat
  /\ {MaxFails, MaxDrops, MaxSwitches, MaxDisconnects, MaxConnects} \subseteq Nat

Senders == 1..MaxAsks
AnyCenter == CHOOSE d \in Centers : TRUE

VARIABLES
  main,      \* the link of the client itself: "off", "up", "broken",
             \* "down" (broken, and the sender is reconnecting)
  keep,      \* the keepalive loop: "off", "sleep", "ask", "scan", "close"
  user,      \* disconnect(): "off", "ask", "close"
  lock,      \* the holder of _borrow_sender_lock
  pc,        \* the workers: "off", "ask", "create", "queued", "sent",
             \* "doomed", "import", "connect", "use", "back"
  want,      \* the data center a worker asks for
  cur,       \* the sender a worker has (0: none)
  table,     \* _borrowed_senders (0: absent)
  center,    \* sender.dc_id
  made,      \* how many senders were made
  n,         \* _ExportState._n
  old,       \* is _zero_ts more than a minute ago?
  flag,      \* _ExportState._connected
  live,      \* is the sender connected?
  closing,   \* the sender the keepalive loop disconnects
  count,     \* how often each bounded thing happened
  left,      \* ghost: the borrows nobody is going to return
  orphans,   \* ghost: the senders whose authorization failed
  spoiled    \* ghost: those disconnected by disconnect(), or by a
             \* clean-up that was cancelled

client  == <<main, keep, user, lock, closing>>
workers == <<pc, want, cur>>
states  == <<n, old, flag>>
senders == <<table, center, made, states, live>>
ghosts  == <<left, orphans, spoiled>>
vars    == <<client, workers, senders, count, ghosts>>

Bound == [ask |-> MaxAsks, fail |-> MaxFails, drop |-> MaxDrops,
          switch |-> MaxSwitches, disconnect |-> MaxDisconnects,
          connect |-> MaxConnects]

Count(what) ==
  /\ count[what] < Bound[what]
  /\ count' = [count EXCEPT ![what] = @ + 1]

-----------------------------------------------------------------------------
(* _ExportState                                                            *)

(* Mutant: only the first borrow is counted. *)
AddBorrow_Once(s) ==
  /\ n' = [n EXCEPT ![s] = IF @ = 0 THEN 1 ELSE @]
  /\ flag' = [flag EXCEPT ![s] = TRUE]
  /\ UNCHANGED old

AddBorrow(s) ==
  /\ n' = [n EXCEPT ![s] = @ + 1]
  /\ flag' = [flag EXCEPT ![s] = TRUE]
  /\ UNCHANGED old

(* The count goes down before it is asserted not to be negative.           *)
AddReturn(s) ==
  /\ n' = [n EXCEPT ![s] = @ - 1]
  /\ old' = [old EXCEPT ![s] = IF n[s] = 1 THEN FALSE ELSE @]
  /\ UNCHANGED flag

(* Mutants: whoever borrows it; a sender used once is kept. *)
ShouldDisconnect_Borrowed(s) == flag[s] /\ old[s]
ShouldDisconnect_Never(s) == n[s] < 0 /\ flag[s] /\ old[s]

ShouldDisconnect(s) == n[s] = 0 /\ flag[s] /\ old[s]

-----------------------------------------------------------------------------
(* Borrowing, using and returning a sender.                                *)

Ask(w, d) ==
  /\ pc[w] = "off"
  /\ main # "off"
  /\ Count("ask")
  /\ pc' = [pc EXCEPT ![w] = "ask"]
  /\ want' = [want EXCEPT ![w] = d]
  /\ UNCHANGED <<client, cur, senders, ghosts>>

(* _borrow_exported_sender: a new sender, the old one connected again, or  *)
(* the old one as it is. *)
Borrow(w) ==
  LET s == table[want[w]] IN
  /\ pc[w] = "ask"
  /\ lock = Free
  /\ \/ /\ s = 0
        /\ pc' = [pc EXCEPT ![w] = "create"]
        /\ lock' = w
        /\ UNCHANGED <<cur, states>>
     \/ /\ s # 0 /\ ~flag[s]
        /\ pc' = [pc EXCEPT ![w] = "connect"]
        /\ lock' = w
        /\ UNCHANGED <<cur, states>>
     \/ /\ s # 0 /\ flag[s]
        /\ AddBorrow(s)
        /\ cur' = [cur EXCEPT ![w] = s]
        /\ pc' = [pc EXCEPT ![w] = "use"]
        /\ UNCHANGED lock
  /\ UNCHANGED <<main, keep, user, closing, want, table, center, made, live, count,
                 ghosts>>

(* _create_exported_sender: its connection is open, and the client is to   *)
(* export its authorization; if it is disconnected the request raises.  No *)
(* more senders are made than were asked for. *)
Created(w) ==
  /\ pc[w] = "create"
  /\ made < MaxAsks
  /\ made' = made + 1
  /\ center' = [center EXCEPT ![made + 1] = want[w]]
  /\ live' = [live EXCEPT ![made + 1] = TRUE]
  /\ cur' = [cur EXCEPT ![w] = made + 1]
  /\ pc' = [pc EXCEPT ![w] = IF main = "off" THEN "doomed" ELSE "queued"]
  /\ UNCHANGED <<client, want, table, states, count, ghosts>>

(* The send loop of the client takes the request, which is pending then... *)
Sent(w) ==
  /\ pc[w] = "queued"
  /\ main \in {"up", "broken"}
  /\ pc' = [pc EXCEPT ![w] = "sent"]
  /\ UNCHANGED <<client, want, cur, senders, count, ghosts>>

(* ... it is answered, and the new sender is to import the authorization,  *)
(* over its own link... *)
Exported(w) ==
  /\ pc[w] = "sent"
  /\ main = "up"
  /\ pc' = [pc EXCEPT ![w] = "import"]
  /\ UNCHANGED <<client, want, cur, senders, count, ghosts>>

(* ... which it has: now it is one of the borrowed senders. *)
Imported(w) ==
  /\ pc[w] = "import"
  /\ table' = [table EXCEPT ![want[w]] = cur[w]]
  /\ AddBorrow(cur[w])
  /\ pc' = [pc EXCEPT ![w] = "use"]
  /\ lock' = Free
  /\ UNCHANGED <<main, keep, user, closing, want, cur, center, made, live, count,
                 ghosts>>

(* Mutant: the lock is not released when the borrowing raises. *)
ReleaseOnError_Never == UNCHANGED lock

(* async with *)
ReleaseOnError == lock' = Free

(* The borrowing raises. *)
Raise(w) ==
  /\ pc' = [pc EXCEPT ![w] = "off"]
  /\ cur' = [cur EXCEPT ![w] = 0]
  /\ ReleaseOnError
  /\ UNCHANGED <<main, keep, user, closing, want, senders>>

(* A request to a client that is disconnected, or pending when it was. *)
ExportCancelled(w) ==
  /\ pc[w] = "doomed"
  /\ orphans' = orphans \cup {cur[w]}
  /\ Raise(w)
  /\ UNCHANGED <<count, left, spoiled>>

(* No connection, or the export or the import is answered with an error, or *)
(* the link of the new sender fails. *)
BorrowFails(w) ==
  /\ pc[w] \in {"create", "connect", "sent", "import"}
  /\ Count("fail")
  /\ orphans' = IF pc[w] \in {"sent", "import"} THEN orphans \cup {cur[w]} ELSE orphans
  /\ Raise(w)
  /\ UNCHANGED <<left, spoiled>>

(* The sender of an idle state is connected again. *)
Reconnected(w) ==
  LET s == table[want[w]] IN
  /\ pc[w] = "connect"
  /\ live' = [live EXCEPT ![s] = TRUE]
  /\ spoiled' = spoiled \ {s}
  /\ AddBorrow(s)
  /\ cur' = [cur EXCEPT ![w] = s]
  /\ pc' = [pc EXCEPT ![w] = "use"]
  /\ lock' = Free
  /\ UNCHANGED <<main, keep, user, closing, want, table, center, made, count, left,
                 orphans>>

(* FileMigrateError: another sender is borrowed, the first one forgotten.  *)
Migrate(w, d) ==
  /\ pc[w] = "use"
  /\ w \notin Careful
  /\ live[cur[w]]
  /\ d # center[cur[w]]
  /\ Count("ask")
  /\ left' = [left EXCEPT ![cur[w]] = @ + 1]
  /\ pc' = [pc EXCEPT ![w] = "ask"]
  /\ want' = [want EXCEPT ![w] = d]
  /\ cur' = [cur EXCEPT ![w] = 0]
  /\ UNCHANGED <<client, senders, orphans, spoiled>>

Finish(w) ==
  /\ pc[w] = "use"
  /\ live[cur[w]]
  /\ pc' = [pc EXCEPT ![w] = "back"]
  /\ UNCHANGED <<client, want, cur, senders, count, ghosts>>

(* A request raises: a download ends without returning its sender.         *)
GiveUp(w) ==
  \/ /\ w \in Careful
     /\ pc' = [pc EXCEPT ![w] = "back"]
     /\ UNCHANGED <<cur, left>>
  \/ /\ w \notin Careful
     /\ pc' = [pc EXCEPT ![w] = "off"]
     /\ cur' = [cur EXCEPT ![w] = 0]
     /\ left' = [left EXCEPT ![cur[w]] = @ + 1]

SenderIsDead(w) ==
  /\ pc[w] = "use"
  /\ ~live[cur[w]]
  /\ GiveUp(w)
  /\ UNCHANGED <<client, want, senders, count, orphans, spoiled>>

RequestFails(w) ==
  /\ pc[w] = "use"
  /\ live[cur[w]]
  /\ Count("fail")
  /\ GiveUp(w)
  /\ UNCHANGED <<client, want, senders, orphans, spoiled>>

(* _return_exported_sender looks the state up by data center; if there is  *)
(* none it raises a KeyError. *)
Return(w) ==
  LET s == table[center[cur[w]]] IN
  /\ pc[w] = "back"
  /\ lock = Free
  /\ IF s = 0 THEN UNCHANGED states ELSE AddReturn(s)
  /\ pc' = [pc EXCEPT ![w] = "off"]
  /\ cur' = [cur EXCEPT ![w] = 0]
  /\ UNCHANGED <<client, want, table, center, made, live, count, ghosts>>

-----------------------------------------------------------------------------
(* The keepalive loop: every minute it cleans up, then it pings.           *)

Minute ==
  /\ keep = "sleep"
  /\ main # "off"
  /\ keep' = "ask"
  /\ UNCHANGED <<main, user, lock, closing, workers, senders, count, ghosts>>

HasTurn == \/ keep = "ask" /\ lock = Free
           \/ keep = "scan"

InTable == {table[d] : d \in Centers} \ {0}

(* _clean_exported_senders finds one to disconnect... *)
Clean(s) ==
  /\ HasTurn
  /\ s \in InTable
  /\ ShouldDisconnect(s)
  /\ keep' = "close"
  /\ lock' = Keeper
  /\ closing' = s
  /\ UNCHANGED <<main, user, workers, senders, count, ghosts>>

(* ... which has disconnected... *)
MarkDisconnected ==
  /\ keep = "close"
  /\ live' = [live EXCEPT ![closing] = FALSE]
  /\ flag' = [flag EXCEPT ![closing] = FALSE]
  /\ keep' = "scan"
  /\ UNCHANGED <<main, user, lock, closing, workers, table, center, made, n, old,
                 count, ghosts>>

(* ... or finds none: it pings, and a ping without pong makes the sender   *)
(* reconnect (module Sender; two rounds of the loop are one here). *)
Cleaned ==
  /\ HasTurn
  /\ \A s \in InTable : ~ShouldDisconnect(s)
  /\ keep' = "sleep"
  /\ lock' = Free
  /\ main' = IF main = "broken" THEN "down" ELSE main
  /\ UNCHANGED <<user, closing, workers, senders, count, ghosts>>

-----------------------------------------------------------------------------
(* The client itself.                                                      *)

Drop ==
  /\ main = "up"
  /\ Count("drop")
  /\ main' = "broken"
  /\ UNCHANGED <<keep, user, lock, closing, workers, senders, ghosts>>

(* The receive loop sees the end of the stream, and reconnects.            *)
Notice ==
  /\ Notices
  /\ main = "broken"
  /\ main' = "down"
  /\ UNCHANGED <<keep, user, lock, closing, workers, senders, count, ghosts>>

(* It has reconnected: what was pending is queued again.  (That it gives   *)
(* up after several attempts is left to module Sender.) *)
Reopened ==
  /\ main = "down"
  /\ main' = "up"
  /\ pc' = [w \in Workers |-> IF pc[w] = "sent" THEN "queued" ELSE pc[w]]
  /\ UNCHANGED <<keep, user, lock, closing, want, cur, senders, count, ghosts>>

(* _disconnect: the sender cancels what is pending, and leaves what is     *)
(* queued; then the keepalive loop is cancelled, wherever it is. *)
DisconnectMain ==
  /\ pc' = [w \in Workers |-> IF pc[w] = "sent" THEN "doomed" ELSE pc[w]]
  /\ lock' = IF lock = Keeper THEN Free ELSE lock
  /\ IF keep = "close"
     THEN /\ live' = [live EXCEPT ![closing] = FALSE]
          /\ spoiled' = spoiled \cup {closing}
     ELSE UNCHANGED <<live, spoiled>>
  /\ UNCHANGED <<closing, want, cur, table, center, made, states, left, orphans>>

(* disconnect() *)
Disconnect ==
  /\ main # "off"
  /\ user = "off"
  /\ Count("disconnect")
  /\ DisconnectMain
  /\ main' = "off"
  /\ keep' = "off"
  /\ user' = "ask"

(* Its second half: every sender in the table is disconnected... *)
TakeLock ==
  /\ user = "ask"
  /\ lock = Free
  /\ lock' = User
  /\ user' = "close"
  /\ UNCHANGED <<main, keep, closing, workers, senders, count, ghosts>>

(* Mutant: only those that nobody borrows. *)
MayClose_Idle(s) == flag[s] /\ n[s] = 0

MayClose(s) == flag[s]

Close(s) ==
  /\ user = "close"
  /\ s \in InTable
  /\ MayClose(s)
  /\ live' = [live EXCEPT ![s] = FALSE]
  /\ flag' = [flag EXCEPT ![s] = FALSE]
  /\ spoiled' = spoiled \cup {s}
  /\ UNCHANGED <<client, workers, table, center, made, n, old, count, left, orphans>>

(* ... and the table is cleared. *)
Clear ==
  /\ user = "close"
  /\ \A s \in InTable : ~MayClose(s)
  /\ table' = [d \in Centers |-> 0]
  /\ lock' = Free
  /\ user' = "off"
  /\ UNCHANGED <<main, keep, closing, workers, center, made, states, live, count,
                 ghosts>>

(* connect() *)
Connect ==
  /\ main = "off"
  /\ user = "off"
  /\ Patient => \A w \in Workers : pc[w] = "off"
  /\ Count("connect")
  /\ main' = "up"
  /\ keep' = "sleep"
  /\ UNCHANGED <<user, lock, closing, workers, senders, ghosts>>

(* _switch_dc *)
SwitchDC ==
  /\ main # "off"
  /\ Count("switch")
  /\ DisconnectMain
  /\ main' = "up"
  /\ keep' = "sleep"
  /\ UNCHANGED user

(* A minute passes since the sender was last returned. *)
Age(s) ==
  /\ n[s] = 0
  /\ ~old[s]
  /\ old' = [old EXCEPT ![s] = TRUE]
  /\ UNCHANGED <<client, workers, table, center, made, n, flag, live, count, ghosts>>

-----------------------------------------------------------------------------
Init ==
  /\ main = "up"
  /\ keep = "sleep"
  /\ user = "off"
  /\ lock = Free
  /\ pc = [w \in Workers |-> "off"]
  /\ want = [w \in Workers |-> AnyCenter]
  /\ cur = [w \in Workers |-> 0]
  /\ table = [d \in Centers |-> 0]
  /\ center = [s \in Senders |-> AnyCenter]
  /\ made = 0
  /\ n = [s \in Senders |-> 0]
  /\ old = [s \in Senders |-> TRUE]
  /\ flag = [s \in Senders |-> FALSE]
  /\ live = [s \in Senders |-> FALSE]
  /\ closing = 0
  /\ count = [b \in DOMAIN Bound |-> 0]
  /\ left = [s \in Senders |-> 0]
  /\ orphans = {}
  /\ spoiled = {}

Borrowing(w) ==
  \/ Borrow(w) \/ Created(w) \/ Sent(w) \/ Exported(w) \/ Imported(w)
  \/ Reconnected(w) \/ ExportCancelled(w)

Using(w) == Finish(w) \/ SenderIsDead(w) \/ RequestFails(w)

Working(w) ==
  \/ Borrowing(w) \/ BorrowFails(w) \/ Using(w) \/ Return(w)
  \/ \E d \in Centers : Ask(w, d) \/ Migrate(w, d)

CleanUp == (\E s \in Senders : Clean(s)) \/ MarkDisconnected \/ Cleaned

Closing == TakeLock \/ (\E s \in Senders : Close(s)) \/ Clear

Next ==
  \/ \E w \in Workers : Working(w)
  \/ Minute \/ CleanUp
  \/ Drop \/ Notice \/ Reopened
  \/ Disconnect \/ Closing \/ Connect \/ SwitchDC
  \/ \E s \in Senders : Age(s)

Spec == Init /\ [][Next]_vars

(* Who waits for the lock gets it (it is first in, first out), connections *)
(* are made, requests answered while the link of the client is in order,   *)
(* and time passes. *)
FairSpec ==
  /\ Spec
  /\ \A w \in Workers : SF_vars(Borrowing(w)) /\ WF_vars(Using(w)) /\ SF_vars(Return(w))
  /\ WF_vars(Minute) /\ SF_vars(CleanUp) /\ SF_vars(Closing)
  /\ WF_vars(Notice) /\ WF_vars(Reopened)
  /\ \A s \in Senders : WF_vars(Age(s))

-----------------------------------------------------------------------------
(* Properties.                                                             *)

(* Where a worker holds the lock. *)
Locked(w) == pc[w] \in {"create", "queued", "sent", "doomed", "import", "connect"}

ClientTypes ==
  /\ main \in {"off", "up", "broken", "down"}
  /\ keep \in {"off", "sleep", "ask", "scan", "close"}
  /\ user \in {"off", "ask", "close"}
  /\ closing \in 0..made
  /\ count \in [DOMAIN Bound -> Nat]

WorkerTypes ==
  /\ pc \in [Workers -> {"off", "ask", "create", "queued", "sent", "doomed",
                         "import", "connect", "use", "back"}]
  /\ want \in [Workers -> Centers]
  /\ cur \in [Workers -> 0..made]

SenderTypes ==
  /\ table \in [Centers -> 0..made]
  /\ center \in [Senders -> Centers]
  /\ made \in 0..MaxAsks
  /\ n \in [Senders -> Int]
  /\ left \in [Senders -> Nat]
  /\ orphans \subseteq 0..made
  /\ spoiled \subseteq 0..made

FlagTypes ==
  /\ old \in [Senders -> BOOLEAN]
  /\ flag \in [Senders -> BOOLEAN]
  /\ live \in [Senders -> BOOLEAN]

(* The lock excludes: who is in a locked section is the holder, and the    *)
(* lock is free when nobody is.  The keepalive loop of a disconnected       *)
(* client does not run. *)
Exclusion ==
  /\ lock \in Workers \cup {Keeper, User, Free}
  /\ \A w \in Workers : Locked(w) <=> lock = w
  /\ keep \in {"scan", "close"} <=> lock = Keeper
  /\ user = "close" <=> lock = User
  /\ main = "off" => keep = "off"

(* Types, and that the lock excludes. *)
TypeOK == ClientTypes /\ WorkerTypes /\ SenderTypes /\ FlagTypes /\ Exclusion

(* A sender that somebody uses is connected, unless the user disconnected  *)
(* the client or a clean-up was cancelled halfway: it is never cleaned up  *)
(* under a borrower. *)
NotPulled ==
  \A w \in Workers : pc[w] = "use" /\ cur[w] \notin spoiled => live[cur[w]]

Holders(s) == {w \in Workers : cur[w] = s /\ pc[w] \in {"use", "back"}}

(* The count of a state is the number of its borrows that are not returned. *)
Counted == \A s \in InTable : n[s] = Cardinality(Holders(s)) + left[s]

(* After disconnect() no connection is left, but for the senders whose     *)
(* authorization failed. *)
AllClosed ==
  main = "off" /\ user = "off" /\ (\A w \in Workers : pc[w] = "off")
    => \A s \in Senders : live[s] => s \in orphans

(* A disconnect() came while an export was queued: nothing settles it, its *)
(* worker keeps the lock, and the disconnect() waits for that for ever.    *)
Hung == user = "ask" /\ \E w \in Workers : pc[w] = "queued"

(* Unless that happens, whoever asks for a sender gets one, or an error... *)
Served ==
  \A w \in Workers : (pc[w] = "ask" \/ Locked(w)) ~> (pc[w] \in {"use", "off"} \/ Hung)

(* ... and a sender that everybody returned is disconnected in the end.    *)
IdleIsClosed ==
  \A s \in Senders :
    (s \in InTable /\ n[s] = 0) ~> ((s \in InTable /\ n[s] = 0 => ~live[s]) \/ Hung)
=============================================================================
