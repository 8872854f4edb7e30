----------------------- MODULE ExportedSendersProofs -----------------------
(***************************************************************************)
(* Proofs about ExportedSenders, for any number of tasks, data centers and *)
(* senders.                                                                *)
(***************************************************************************)
EXTENDS ExportedSenders, FiniteSetTheorems, TLAPS

-----------------------------------------------------------------------------
(* Types, and the exclusion of the lock.                                   *)

LEMMA Update ==
  ASSUME NEW D, NEW S, NEW f \in [D -> S], NEW x, NEW y, x \in D => y \in S
  PROVE  [f EXCEPT ![x] = y] \in [D -> S]
OBVIOUS

(* Counting up and down at a sender, one that exists or not.               *)
LEMMA CountUpDown ==
  ASSUME NEW f \in [Senders -> Int], NEW s
  PROVE  /\ [f EXCEPT ![s] = @ + 1] \in [Senders -> Int]
         /\ [f EXCEPT ![s] = @ - 1] \in [Senders -> Int]
<1>1. s \in Senders => f[s] + 1 \in Int /\ f[s] - 1 \in Int
  BY SMT
<1> QED BY <1>1, Update, Zenon

LEMMA CountUp ==
  ASSUME NEW f \in [Senders -> Nat], NEW s
  PROVE  [f EXCEPT ![s] = @ + 1] \in [Senders -> Nat]
<1>1. s \in Senders => f[s] + 1 \in Nat
  BY SMT
<1> QED BY <1>1, Update, Zenon

LEMMA InitTypeOK == Init => TypeOK
BY NamesAssumption, BoundsAssumption
   DEF Init, TypeOK, ClientTypes, WorkerTypes, SenderTypes, FlagTypes, Exclusion,
       Locked, AnyCenter, Senders, Bound

LEMMA CountType ==
  ASSUME TypeOK, NEW what \in DOMAIN Bound, Count(what)
  PROVE  count' \in [DOMAIN Bound -> Nat]
BY DEF TypeOK, ClientTypes, Count

(* A worker that borrows, uses or returns a sender. *)
LEMMA WorkingTypeOK ==
  ASSUME TypeOK, NEW w \in Workers, Working(w)
  PROVE  TypeOK'
<1> USE NamesAssumption, BoundsAssumption
<1>1. ASSUME NEW d \in Centers, Ask(w, d) PROVE TypeOK'
  <2>1. count' \in [DOMAIN Bound -> Nat]
    BY <1>1, CountType DEF Ask, Bound
  <2>2. ClientTypes'
    BY <1>1, <2>1 DEF Ask, client, workers, senders, states, ghosts,
       TypeOK, ClientTypes, SenderTypes
  <2>3. WorkerTypes'
    BY <1>1 DEF Ask, client, workers, senders, states, ghosts,
       TypeOK, WorkerTypes, SenderTypes
  <2>4. SenderTypes'
    BY <1>1 DEF Ask, client, workers, senders, states, ghosts,
       TypeOK, ClientTypes, WorkerTypes, SenderTypes
  <2>5. FlagTypes'
    BY <1>1 DEF Ask, client, workers, senders, states, ghosts,
       TypeOK, FlagTypes
  <2>6. Exclusion'
    BY <1>1 DEF Ask, client, workers, senders, states, ghosts,
       TypeOK, ClientTypes, WorkerTypes, Exclusion, Locked
  <2> QED BY <2>2, <2>3, <2>4, <2>5, <2>6 DEF TypeOK
<1>2. CASE Borrow(w)
  <2>1. ClientTypes'
    BY <1>2 DEF Borrow, AddBorrow, client, workers, senders, states, ghosts,
       TypeOK, ClientTypes, SenderTypes
  <2>2. WorkerTypes'
    BY <1>2 DEF Borrow, AddBorrow, client, workers, senders, states, ghosts,
       TypeOK, WorkerTypes, SenderTypes
  <2>3. SenderTypes'
    BY <1>2, CountUpDown DEF Borrow, AddBorrow, client, workers, senders, states, ghosts,
       TypeOK, ClientTypes, WorkerTypes, SenderTypes
  <2>4. FlagTypes'
    BY <1>2 DEF Borrow, AddBorrow, client, workers, senders, states, ghosts,
       TypeOK, FlagTypes
  <2>5. Exclusion'
    BY <1>2 DEF Borrow, AddBorrow, client, workers, senders, states, ghosts,
       TypeOK, ClientTypes, WorkerTypes, Exclusion, Locked
  <2> QED BY <2>1, <2>2, <2>3, <2>4, <2>5 DEF TypeOK
<1>3. CASE Created(w)
  <2>1. ClientTypes'
    BY <1>3 DEF Created, client, workers, senders, states, ghosts,
       TypeOK, ClientTypes, SenderTypes
  <2>2. WorkerTypes'
    BY <1>3 DEF Created, client, workers, senders, states, ghosts,
       TypeOK, WorkerTypes, SenderTypes
  <2>3. SenderTypes'
    <3>1. made \in Nat /\ made' = made + 1 /\ made' \in 0..MaxAsks
      BY <1>3 DEF Created, TypeOK, SenderTypes
    <3>2. table' \in [Centers -> 0..made']
      BY <1>3, <3>1 DEF Created, TypeOK, SenderTypes
    <3>3. center' \in [Senders -> Centers]
      BY <1>3 DEF Created, TypeOK, SenderTypes, WorkerTypes
    <3> QED
      BY <1>3, <3>1, <3>2, <3>3 DEF Created, states, ghosts, TypeOK, SenderTypes
  <2>4. FlagTypes'
    BY <1>3 DEF Created, client, workers, senders, states, ghosts,
       TypeOK, FlagTypes
  <2>5. Exclusion'
    BY <1>3 DEF Created, client, workers, senders, states, ghosts,
       TypeOK, ClientTypes, WorkerTypes, Exclusion, Locked
  <2> QED BY <2>1, <2>2, <2>3, <2>4, <2>5 DEF TypeOK
<1>4. CASE Imported(w)
  <2>1. ClientTypes'
    BY <1>4 DEF Imported, AddBorrow, client, workers, senders, states, ghosts,
       TypeOK, ClientTypes, SenderTypes
  <2>2. WorkerTypes'
    BY <1>4 DEF Imported, AddBorrow, client, workers, senders, states, ghosts,
       TypeOK, WorkerTypes, SenderTypes
  <2>3. SenderTypes'
    BY <1>4, CountUpDown DEF Imported, AddBorrow, client, workers, senders, states, ghosts,
       TypeOK, ClientTypes, WorkerTypes, SenderTypes
  <2>4. FlagTypes'
    BY <1>4 DEF Imported, AddBorrow, client, workers, senders, states, ghosts,
       TypeOK, FlagTypes
  <2>5. Exclusion'
    BY <1>4 DEF Imported, AddBorrow, client, workers, senders, states, ghosts,
       TypeOK, ClientTypes, WorkerTypes, Exclusion, Locked
  <2> QED BY <2>1, <2>2, <2>3, <2>4, <2>5 DEF TypeOK
<1>5. CASE ExportCancelled(w)
  <2>1. ClientTypes'
    BY <1>5 DEF ExportCancelled, Raise, ReleaseOnError, client, workers, senders, states, ghosts,
       TypeOK, ClientTypes, SenderTypes
  <2>2. WorkerTypes'
    BY <1>5 DEF ExportCancelled, Raise, ReleaseOnError, client, workers, senders, states, ghosts,
       TypeOK, WorkerTypes, SenderTypes
  <2>3. SenderTypes'
    BY <1>5 DEF ExportCancelled, Raise, ReleaseOnError, client, workers, senders, states, ghosts,
       TypeOK, ClientTypes, WorkerTypes, SenderTypes
  <2>4. FlagTypes'
    BY <1>5 DEF ExportCancelled, Raise, ReleaseOnError, client, workers, senders, states, ghosts,
       TypeOK, FlagTypes
  <2>5. Exclusion'
    BY <1>5 DEF ExportCancelled, Raise, ReleaseOnError, client, workers, senders, states, ghosts,
       TypeOK, ClientTypes, WorkerTypes, Exclusion, Locked
  <2> QED BY <2>1, <2>2, <2>3, <2>4, <2>5 DEF TypeOK
<1>6. CASE BorrowFails(w)
  <2>1. count' \in [DOMAIN Bound -> Nat]
    BY <1>6, CountType DEF BorrowFails, Bound
  <2>2. ClientTypes'
    BY <1>6, <2>1 DEF BorrowFails, Raise, ReleaseOnError, client, workers, senders, states, ghosts,
       TypeOK, ClientTypes, SenderTypes
  <2>3. WorkerTypes'
    BY <1>6 DEF BorrowFails, Raise, ReleaseOnError, client, workers, senders, states, ghosts,
       TypeOK, WorkerTypes, SenderTypes
  <2>4. SenderTypes'
    BY <1>6 DEF BorrowFails, Raise, ReleaseOnError, client, workers, senders, states, ghosts,
       TypeOK, ClientTypes, WorkerTypes, SenderTypes
  <2>5. FlagTypes'
    BY <1>6 DEF BorrowFails, Raise, ReleaseOnError, client, workers, senders, states, ghosts,
       TypeOK, FlagTypes
  <2>6. Exclusion'
    BY <1>6 DEF BorrowFails, Raise, ReleaseOnError, client, workers, senders, states, ghosts,
       TypeOK, ClientTypes, WorkerTypes, Exclusion, Locked
  <2> QED BY <2>2, <2>3, <2>4, <2>5, <2>6 DEF TypeOK
<1>7. CASE Reconnected(w)
  <2>1. ClientTypes'
    BY <1>7 DEF Reconnected, AddBorrow, client, workers, senders, states, ghosts,
       TypeOK, ClientTypes, SenderTypes
  <2>2. WorkerTypes'
    BY <1>7 DEF Reconnected, AddBorrow, client, workers, senders, states, ghosts,
       TypeOK, WorkerTypes, SenderTypes
  <2>3. SenderTypes'
    BY <1>7, CountUpDown DEF Reconnected, AddBorrow, client, workers, senders, states, ghosts,
       TypeOK, ClientTypes, WorkerTypes, SenderTypes
  <2>4. FlagTypes'
    BY <1>7 DEF Reconnected, AddBorrow, client, workers, senders, states, ghosts,
       TypeOK, FlagTypes
  <2>5. Exclusion'
    BY <1>7 DEF Reconnected, AddBorrow, client, workers, senders, states, ghosts,
       TypeOK, ClientTypes, WorkerTypes, Exclusion, Locked
  <2> QED BY <2>1, <2>2, <2>3, <2>4, <2>5 DEF TypeOK
<1>8. ASSUME NEW d \in Centers, Migrate(w, d) PROVE TypeOK'
  <2>1. count' \in [DOMAIN Bound -> Nat]
    BY <1>8, CountType DEF Migrate, Bound
  <2>2. ClientTypes'
    BY <1>8, <2>1 DEF Migrate, client, workers, senders, states, ghosts,
       TypeOK, ClientTypes, SenderTypes
  <2>3. WorkerTypes'
    BY <1>8 DEF Migrate, client, workers, senders, states, ghosts,
       TypeOK, WorkerTypes, SenderTypes
  <2>4. SenderTypes'
    BY <1>8, CountUp DEF Migrate, client, workers, senders, states, ghosts,
       TypeOK, ClientTypes, WorkerTypes, SenderTypes
  <2>5. FlagTypes'
    BY <1>8 DEF Migrate, client, workers, senders, states, ghosts,
       TypeOK, FlagTypes
  <2>6. Exclusion'
    BY <1>8 DEF Migrate, client, workers, senders, states, ghosts,
       TypeOK, ClientTypes, WorkerTypes, Exclusion, Locked
  <2> QED BY <2>2, <2>3, <2>4, <2>5, <2>6 DEF TypeOK
<1>9. CASE Finish(w)
  <2>1. ClientTypes'
    BY <1>9 DEF Finish, client, workers, senders, states, ghosts,
       TypeOK, ClientTypes, SenderTypes
  <2>2. WorkerTypes'
    BY <1>9 DEF Finish, client, workers, senders, states, ghosts,
       TypeOK, WorkerTypes, SenderTypes
  <2>3. SenderTypes'
    BY <1>9 DEF Finish, client, workers, senders, states, ghosts,
       TypeOK, ClientTypes, WorkerTypes, SenderTypes
  <2>4. FlagTypes'
    BY <1>9 DEF Finish, client, workers, senders, states, ghosts,
       TypeOK, FlagTypes
  <2>5. Exclusion'
    BY <1>9 DEF Finish, client, workers, senders, states, ghosts,
       TypeOK, ClientTypes, WorkerTypes, Exclusion, Locked
  <2> QED BY <2>1, <2>2, <2>3, <2>4, <2>5 DEF TypeOK
<1>10. CASE SenderIsDead(w)
  <2>1. ClientTypes'
    BY <1>10 DEF SenderIsDead, GiveUp, client, workers, senders, states, ghosts,
       TypeOK, ClientTypes, SenderTypes
  <2>2. WorkerTypes'
    BY <1>10 DEF SenderIsDead, GiveUp, client, workers, senders, states, ghosts,
       TypeOK, WorkerTypes, SenderTypes
  <2>3. SenderTypes'
    BY <1>10, CountUp DEF SenderIsDead, GiveUp, client, workers, senders, states, ghosts,
       TypeOK, ClientTypes, WorkerTypes, SenderTypes
  <2>4. FlagTypes'
    BY <1>10 DEF SenderIsDead, GiveUp, client, workers, senders, states, ghosts,
       TypeOK, FlagTypes
  <2>5. Exclusion'
    BY <1>10 DEF SenderIsDead, GiveUp, client, workers, senders, states, ghosts,
       TypeOK, ClientTypes, WorkerTypes, Exclusion, Locked
  <2> QED BY <2>1, <2>2, <2>3, <2>4, <2>5 DEF TypeOK
<1>11. CASE RequestFails(w)
  <2>1. count' \in [DOMAIN Bound -> Nat]
    BY <1>11, CountType DEF RequestFails, Bound
  <2>2. ClientTypes'
    BY <1>11, <2>1 DEF RequestFails, GiveUp, client, workers, senders, states, ghosts,
       TypeOK, ClientTypes, SenderTypes
  <2>3. WorkerTypes'
    BY <1>11 DEF RequestFails, GiveUp, client, workers, senders, states, ghosts,
       TypeOK, WorkerTypes, SenderTypes
  <2>4. SenderTypes'
    BY <1>11, CountUp DEF RequestFails, GiveUp, client, workers, senders, states, ghosts,
       TypeOK, ClientTypes, WorkerTypes, SenderTypes
  <2>5. FlagTypes'
    BY <1>11 DEF RequestFails, GiveUp, client, workers, senders, states, ghosts,
       TypeOK, FlagTypes
  <2>6. Exclusion'
    BY <1>11 DEF RequestFails, GiveUp, client, workers, senders, states, ghosts,
       TypeOK, ClientTypes, WorkerTypes, Exclusion, Locked
  <2> QED BY <2>2, <2>3, <2>4, <2>5, <2>6 DEF TypeOK
<1>12. CASE Return(w)
  <2>1. ClientTypes'
    BY <1>12 DEF Return, AddReturn, client, workers, senders, states, ghosts,
       TypeOK, ClientTypes, SenderTypes
  <2>2. WorkerTypes'
    BY <1>12 DEF Return, AddReturn, client, workers, senders, states, ghosts,
       TypeOK, WorkerTypes, SenderTypes
  <2>3. SenderTypes'
    <3>1. n' \in [Senders -> Int]
      <4>1. CASE table[center[cur[w]]] = 0
        BY <1>12, <4>1 DEF Return, states, TypeOK, SenderTypes
      <4>2. CASE table[center[cur[w]]] # 0
        BY <1>12, <4>2, CountUpDown DEF Return, AddReturn, TypeOK, SenderTypes
      <4> QED BY <4>1, <4>2
    <3> QED
      BY <1>12, <3>1 DEF Return, client, workers, senders, ghosts, TypeOK, SenderTypes
  <2>4. FlagTypes'
    BY <1>12 DEF Return, AddReturn, client, workers, senders, states, ghosts,
       TypeOK, FlagTypes
  <2>5. Exclusion'
    BY <1>12 DEF Return, AddReturn, client, workers, senders, states, ghosts,
       TypeOK, ClientTypes, WorkerTypes, Exclusion, Locked
  <2> QED BY <2>1, <2>2, <2>3, <2>4, <2>5 DEF TypeOK
<1>13. CASE Sent(w)
  <2>1. ClientTypes'
    BY <1>13 DEF Sent, client, workers, senders, states, ghosts,
       TypeOK, ClientTypes, SenderTypes
  <2>2. WorkerTypes'
    BY <1>13 DEF Sent, client, workers, senders, states, ghosts,
       TypeOK, WorkerTypes, SenderTypes
  <2>3. SenderTypes'
    BY <1>13 DEF Sent, client, workers, senders, states, ghosts,
       TypeOK, ClientTypes, WorkerTypes, SenderTypes
  <2>4. FlagTypes'
    BY <1>13 DEF Sent, client, workers, senders, states, ghosts,
       TypeOK, FlagTypes
  <2>5. Exclusion'
    BY <1>13 DEF Sent, client, workers, senders, states, ghosts,
       TypeOK, ClientTypes, WorkerTypes, Exclusion, Locked
  <2> QED BY <2>1, <2>2, <2>3, <2>4, <2>5 DEF TypeOK
<1>14. CASE Exported(w)
  <2>1. ClientTypes'
    BY <1>14 DEF Exported, client, workers, senders, states, ghosts,
       TypeOK, ClientTypes, SenderTypes
  <2>2. WorkerTypes'
    BY <1>14 DEF Exported, client, workers, senders, states, ghosts,
       TypeOK, WorkerTypes, SenderTypes
  <2>3. SenderTypes'
    BY <1>14 DEF Exported, client, workers, senders, states, ghosts,
       TypeOK, ClientTypes, WorkerTypes, SenderTypes
  <2>4. FlagTypes'
    BY <1>14 DEF Exported, client, workers, senders, states, ghosts,
       TypeOK, FlagTypes
  <2>5. Exclusion'
    BY <1>14 DEF Exported, client, workers, senders, states, ghosts,
       TypeOK, ClientTypes, WorkerTypes, Exclusion, Locked
  <2> QED BY <2>1, <2>2, <2>3, <2>4, <2>5 DEF TypeOK
<1> QED
  BY <1>1, <1>2, <1>3, <1>4, <1>5, <1>6, <1>7, <1>8, <1>9, <1>10, <1>11, <1>12,
     <1>13, <1>14
     DEF Working, Borrowing, Using

(* The keepalive loop and the client itself. *)
ClientStep ==
  \/ Minute \/ CleanUp \/ Drop \/ Notice \/ Reopened
  \/ Disconnect \/ Closing \/ Connect \/ SwitchDC
  \/ \E s \in Senders : Age(s)

LEMMA ClientTypeOK ==
  ASSUME TypeOK, ClientStep
  PROVE  TypeOK'
<1> USE NamesAssumption, BoundsAssumption
<1>1. CASE Minute
  <2>1. ClientTypes'
    BY <1>1 DEF Minute, client, workers, senders, states, ghosts,
       TypeOK, ClientTypes, SenderTypes
  <2>2. WorkerTypes'
    BY <1>1 DEF Minute, client, workers, senders, states, ghosts,
       TypeOK, WorkerTypes, SenderTypes
  <2>3. SenderTypes'
    BY <1>1 DEF Minute, client, workers, senders, states, ghosts,
       TypeOK, ClientTypes, WorkerTypes, SenderTypes
  <2>4. FlagTypes'
    BY <1>1 DEF Minute, client, workers, senders, states, ghosts,
       TypeOK, FlagTypes
  <2>5. Exclusion'
    BY <1>1 DEF Minute, client, workers, senders, states, ghosts,
       TypeOK, ClientTypes, WorkerTypes, Exclusion, Locked
  <2> QED BY <2>1, <2>2, <2>3, <2>4, <2>5 DEF TypeOK
<1>2. ASSUME NEW s \in Senders, Clean(s) PROVE TypeOK'
  <2>1. ClientTypes'
    BY <1>2 DEF Clean, HasTurn, InTable, client, workers, senders, states, ghosts,
       TypeOK, ClientTypes, SenderTypes
  <2>2. WorkerTypes'
    BY <1>2 DEF Clean, HasTurn, InTable, client, workers, senders, states, ghosts,
       TypeOK, WorkerTypes, SenderTypes
  <2>3. SenderTypes'
    BY <1>2 DEF Clean, HasTurn, InTable, client, workers, senders, states, ghosts,
       TypeOK, ClientTypes, WorkerTypes, SenderTypes
  <2>4. FlagTypes'
    BY <1>2 DEF Clean, HasTurn, InTable, client, workers, senders, states, ghosts,
       TypeOK, FlagTypes
  <2>5. Exclusion'
    BY <1>2 DEF Clean, HasTurn, InTable, client, workers, senders, states, ghosts,
       TypeOK, ClientTypes, WorkerTypes, Exclusion, Locked
  <2> QED BY <2>1, <2>2, <2>3, <2>4, <2>5 DEF TypeOK
<1>3. CASE MarkDisconnected
  <2>1. ClientTypes'
    BY <1>3 DEF MarkDisconnected, client, workers, senders, states, ghosts,
       TypeOK, ClientTypes, SenderTypes
  <2>2. WorkerTypes'
    BY <1>3 DEF MarkDisconnected, client, workers, senders, states, ghosts,
       TypeOK, WorkerTypes, SenderTypes
  <2>3. SenderTypes'
    BY <1>3 DEF MarkDisconnected, client, workers, senders, states, ghosts,
       TypeOK, ClientTypes, WorkerTypes, SenderTypes
  <2>4. FlagTypes'
    BY <1>3 DEF MarkDisconnected, client, workers, senders, states, ghosts,
       TypeOK, FlagTypes
  <2>5. Exclusion'
    BY <1>3 DEF MarkDisconnected, client, workers, senders, states, ghosts,
       TypeOK, ClientTypes, WorkerTypes, Exclusion, Locked
  <2> QED BY <2>1, <2>2, <2>3, <2>4, <2>5 DEF TypeOK
<1>4. CASE Cleaned
  <2>1. ClientTypes'
    BY <1>4 DEF Cleaned, HasTurn, client, workers, senders, states, ghosts,
       TypeOK, ClientTypes, SenderTypes
  <2>2. WorkerTypes'
    BY <1>4 DEF Cleaned, HasTurn, client, workers, senders, states, ghosts,
       TypeOK, WorkerTypes, SenderTypes
  <2>3. SenderTypes'
    BY <1>4 DEF Cleaned, HasTurn, client, workers, senders, states, ghosts,
       TypeOK, ClientTypes, WorkerTypes, SenderTypes
  <2>4. FlagTypes'
    BY <1>4 DEF Cleaned, HasTurn, client, workers, senders, states, ghosts,
       TypeOK, FlagTypes
  <2>5. Exclusion'
    BY <1>4 DEF Cleaned, HasTurn, client, workers, senders, states, ghosts,
       TypeOK, ClientTypes, WorkerTypes, Exclusion, Locked
  <2> QED BY <2>1, <2>2, <2>3, <2>4, <2>5 DEF TypeOK
<1>5. CASE Drop
  <2>1. count' \in [DOMAIN Bound -> Nat]
    BY <1>5, CountType DEF Drop, Bound
  <2>2. ClientTypes'
    BY <1>5, <2>1 DEF Drop, client, workers, senders, states, ghosts,
       TypeOK, ClientTypes, SenderTypes
  <2>3. WorkerTypes'
    BY <1>5 DEF Drop, client, workers, senders, states, ghosts,
       TypeOK, WorkerTypes, SenderTypes
  <2>4. SenderTypes'
    BY <1>5 DEF Drop, client, workers, senders, states, ghosts,
       TypeOK, ClientTypes, WorkerTypes, SenderTypes
  <2>5. FlagTypes'
    BY <1>5 DEF Drop, client, workers, senders, states, ghosts,
       TypeOK, FlagTypes
  <2>6. Exclusion'
    BY <1>5 DEF Drop, client, workers, senders, states, ghosts,
       TypeOK, ClientTypes, WorkerTypes, Exclusion, Locked
  <2> QED BY <2>2, <2>3, <2>4, <2>5, <2>6 DEF TypeOK
<1>6. CASE Notice
  <2>1. ClientTypes'
    BY <1>6 DEF Notice, client, workers, senders, states, ghosts,
       TypeOK, ClientTypes, SenderTypes
  <2>2. WorkerTypes'
    BY <1>6 DEF Notice, client, workers, senders, states, ghosts,
       TypeOK, WorkerTypes, SenderTypes
  <2>3. SenderTypes'
    BY <1>6 DEF Notice, client, workers, senders, states, ghosts,
       TypeOK, ClientTypes, WorkerTypes, SenderTypes
  <2>4. FlagTypes'
    BY <1>6 DEF Notice, client, workers, senders, states, ghosts,
       TypeOK, FlagTypes
  <2>5. Exclusion'
    BY <1>6 DEF Notice, client, workers, senders, states, ghosts,
       TypeOK, ClientTypes, WorkerTypes, Exclusion, Locked
  <2> QED BY <2>1, <2>2, <2>3, <2>4, <2>5 DEF TypeOK
<1>7. CASE Disconnect
  <2>1. count' \in [DOMAIN Bound -> Nat]
    BY <1>7, CountType DEF Disconnect, Bound
  <2>2. ClientTypes'
    BY <1>7, <2>1 DEF Disconnect, DisconnectMain, client, workers, senders, states, ghosts,
       TypeOK, ClientTypes, SenderTypes
  <2>3. WorkerTypes'
    BY <1>7 DEF Disconnect, DisconnectMain, client, workers, senders, states, ghosts,
       TypeOK, WorkerTypes, SenderTypes
  <2>4. SenderTypes'
    BY <1>7 DEF Disconnect, DisconnectMain, client, workers, senders, states, ghosts,
       TypeOK, ClientTypes, WorkerTypes, SenderTypes
  <2>5. FlagTypes'
    BY <1>7 DEF Disconnect, DisconnectMain, client, workers, senders, states, ghosts,
       TypeOK, FlagTypes
  <2>6. Exclusion'
    BY <1>7 DEF Disconnect, DisconnectMain, client, workers, senders, states, ghosts,
       TypeOK, ClientTypes, WorkerTypes, Exclusion, Locked
  <2> QED BY <2>2, <2>3, <2>4, <2>5, <2>6 DEF TypeOK
<1>8. CASE TakeLock
  <2>1. ClientTypes'
    BY <1>8 DEF TakeLock, client, workers, senders, states, ghosts,
       TypeOK, ClientTypes, SenderTypes
  <2>2. WorkerTypes'
    BY <1>8 DEF TakeLock, client, workers, senders, states, ghosts,
       TypeOK, WorkerTypes, SenderTypes
  <2>3. SenderTypes'
    BY <1>8 DEF TakeLock, client, workers, senders, states, ghosts,
       TypeOK, ClientTypes, WorkerTypes, SenderTypes
  <2>4. FlagTypes'
    BY <1>8 DEF TakeLock, client, workers, senders, states, ghosts,
       TypeOK, FlagTypes
  <2>5. Exclusion'
    BY <1>8 DEF TakeLock, client, workers, senders, states, ghosts,
       TypeOK, ClientTypes, WorkerTypes, Exclusion, Locked
  <2> QED BY <2>1, <2>2, <2>3, <2>4, <2>5 DEF TypeOK
<1>9. ASSUME NEW s \in Senders, Close(s) PROVE TypeOK'
  <2>1. ClientTypes'
    BY <1>9 DEF Close, client, workers, senders, states, ghosts,
       TypeOK, ClientTypes, SenderTypes
  <2>2. WorkerTypes'
    BY <1>9 DEF Close, client, workers, senders, states, ghosts,
       TypeOK, WorkerTypes, SenderTypes
  <2>3. SenderTypes'
    <3>1. s \in 0..made
      BY <1>9 DEF Close, InTable, TypeOK, SenderTypes
    <3> QED
      BY <1>9, <3>1 DEF Close, client, workers, senders, states, ghosts,
         TypeOK, SenderTypes
  <2>4. FlagTypes'
    BY <1>9 DEF Close, client, workers, senders, states, ghosts,
       TypeOK, FlagTypes
  <2>5. Exclusion'
    BY <1>9 DEF Close, client, workers, senders, states, ghosts,
       TypeOK, ClientTypes, WorkerTypes, Exclusion, Locked
  <2> QED BY <2>1, <2>2, <2>3, <2>4, <2>5 DEF TypeOK
<1>10. CASE Clear
  <2>1. ClientTypes'
    BY <1>10 DEF Clear, client, workers, senders, states, ghosts,
       TypeOK, ClientTypes, SenderTypes
  <2>2. WorkerTypes'
    BY <1>10 DEF Clear, client, workers, senders, states, ghosts,
       TypeOK, WorkerTypes, SenderTypes
  <2>3. SenderTypes'
    BY <1>10 DEF Clear, client, workers, senders, states, ghosts,
       TypeOK, ClientTypes, WorkerTypes, SenderTypes
  <2>4. FlagTypes'
    BY <1>10 DEF Clear, client, workers, senders, states, ghosts,
       TypeOK, FlagTypes
  <2>5. Exclusion'
    BY <1>10 DEF Clear, client, workers, senders, states, ghosts,
       TypeOK, ClientTypes, WorkerTypes, Exclusion, Locked
  <2> QED BY <2>1, <2>2, <2>3, <2>4, <2>5 DEF TypeOK
<1>11. CASE Connect
  <2>1. count' \in [DOMAIN Bound -> Nat]
    BY <1>11, CountType DEF Connect, Bound
  <2>2. ClientTypes'
    BY <1>11, <2>1 DEF Connect, client, workers, senders, states, ghosts,
       TypeOK, ClientTypes, SenderTypes
  <2>3. WorkerTypes'
    BY <1>11 DEF Connect, client, workers, senders, states, ghosts,
       TypeOK, WorkerTypes, SenderTypes
  <2>4. SenderTypes'
    BY <1>11 DEF Connect, client, workers, senders, states, ghosts,
       TypeOK, ClientTypes, WorkerTypes, SenderTypes
  <2>5. FlagTypes'
    BY <1>11 DEF Connect, client, workers, senders, states, ghosts,
       TypeOK, FlagTypes
  <2>6. Exclusion'
    BY <1>11 DEF Connect, client, workers, senders, states, ghosts,
       TypeOK, ClientTypes, WorkerTypes, Exclusion, Locked
  <2> QED BY <2>2, <2>3, <2>4, <2>5, <2>6 DEF TypeOK
<1>12. CASE SwitchDC
  <2>1. count' \in [DOMAIN Bound -> Nat]
    BY <1>12, CountType DEF SwitchDC, Bound
  <2>2. ClientTypes'
    BY <1>12, <2>1 DEF SwitchDC, DisconnectMain, client, workers, senders, states, ghosts,
       TypeOK, ClientTypes, SenderTypes
  <2>3. WorkerTypes'
    BY <1>12 DEF SwitchDC, DisconnectMain, client, workers, senders, states, ghosts,
       TypeOK, WorkerTypes, SenderTypes
  <2>4. SenderTypes'
    BY <1>12 DEF SwitchDC, DisconnectMain, client, workers, senders, states, ghosts,
       TypeOK, ClientTypes, WorkerTypes, SenderTypes
  <2>5. FlagTypes'
    BY <1>12 DEF SwitchDC, DisconnectMain, client, workers, senders, states, ghosts,
       TypeOK, FlagTypes
  <2>6. Exclusion'
    BY <1>12 DEF SwitchDC, DisconnectMain, client, workers, senders, states, ghosts,
       TypeOK, ClientTypes, WorkerTypes, Exclusion, Locked
  <2> QED BY <2>2, <2>3, <2>4, <2>5, <2>6 DEF TypeOK
<1>13. ASSUME NEW s \in Senders, Age(s) PROVE TypeOK'
  <2>1. ClientTypes'
    BY <1>13 DEF Age, client, workers, senders, states, ghosts,
       TypeOK, ClientTypes, SenderTypes
  <2>2. WorkerTypes'
    BY <1>13 DEF Age, client, workers, senders, states, ghosts,
       TypeOK, WorkerTypes, SenderTypes
  <2>3. SenderTypes'
    BY <1>13 DEF Age, client, workers, senders, states, ghosts,
       TypeOK, ClientTypes, WorkerTypes, SenderTypes
  <2>4. FlagTypes'
    BY <1>13 DEF Age, client, workers, senders, states, ghosts,
       TypeOK, FlagTypes
  <2>5. Exclusion'
    BY <1>13 DEF Age, client, workers, senders, states, ghosts,
       TypeOK, ClientTypes, WorkerTypes, Exclusion, Locked
  <2> QED BY <2>1, <2>2, <2>3, <2>4, <2>5 DEF TypeOK
<1>14. CASE Reopened
  <2>1. ClientTypes'
    BY <1>14 DEF Reopened, client, workers, senders, states, ghosts,
       TypeOK, ClientTypes, SenderTypes
  <2>2. WorkerTypes'
    BY <1>14 DEF Reopened, client, workers, senders, states, ghosts,
       TypeOK, WorkerTypes, SenderTypes
  <2>3. SenderTypes'
    BY <1>14 DEF Reopened, client, workers, senders, states, ghosts,
       TypeOK, ClientTypes, WorkerTypes, SenderTypes
  <2>4. FlagTypes'
    BY <1>14 DEF Reopened, client, workers, senders, states, ghosts,
       TypeOK, FlagTypes
  <2>5. Exclusion'
    BY <1>14 DEF Reopened, client, workers, senders, states, ghosts,
       TypeOK, ClientTypes, WorkerTypes, Exclusion, Locked
  <2> QED BY <2>1, <2>2, <2>3, <2>4, <2>5 DEF TypeOK
<1> QED
  BY <1>1, <1>2, <1>3, <1>4, <1>5, <1>6, <1>7, <1>8, <1>9, <1>10, <1>11, <1>12, <1>13,
     <1>14
     DEF ClientStep, CleanUp, Closing

LEMMA StepTypeOK == TypeOK /\ [Next]_vars => TypeOK'
<1> SUFFICES ASSUME TypeOK, [Next]_vars PROVE TypeOK'
  OBVIOUS
<1>1. CASE UNCHANGED vars
  BY <1>1 DEF TypeOK, ClientTypes, WorkerTypes, SenderTypes, FlagTypes, Exclusion,
     Locked, vars, client, workers, senders, states, ghosts
<1> QED BY <1>1, WorkingTypeOK, ClientTypeOK DEF Next, ClientStep

(* The types are kept, and the lock excludes: while a task opens a         *)
(* connection for another data center, or exports an authorization, no     *)
(* other task, clean-up or disconnect() touches the borrowed senders. *)
THEOREM Typed == Spec => []TypeOK
<1>1. Init => TypeOK
  BY InitTypeOK
<1> QED BY <1>1, StepTypeOK, PTL DEF Spec

-----------------------------------------------------------------------------
(* The inductive invariant, part by part.                                  *)

(* The table leads to senders of the right data center.                    *)
TableOK == \A d \in Centers : table[d] # 0 => center[table[d]] = d

(* What a sender that is not made yet has been through: nothing.           *)
FreshOK == \A s \in Senders : s > made => n[s] = 0 /\ left[s] = 0 /\ ~live[s]

Making(w) == pc[w] \in {"create", "queued", "sent", "doomed", "import"}
Waiting(w) == pc[w] \in {"queued", "sent", "doomed", "import"}
Holding(w) == pc[w] \in {"use", "back"}

(* While a sender waits for its authorization the table has none for its   *)
(* data center, and nobody else has it. *)
NewOK ==
  \A w \in Workers :
    /\ Making(w) => table[want[w]] = 0
    /\ Waiting(w) =>
         /\ center[cur[w]] = want[w]
         /\ n[cur[w]] = 0 /\ left[cur[w]] = 0 /\ live[cur[w]]
         /\ \A x \in Workers : Holding(x) => cur[x] # cur[w]

(* Who connects, waits or holds has something to connect, to wait for, to  *)
(* hold. *)
HaveOK ==
  \A w \in Workers : /\ pc[w] = "connect" => table[want[w]] # 0
                     /\ Waiting(w) \/ Holding(w) => cur[w] # 0

(* A borrowed sender is the one in the table, or the client is             *)
(* disconnected and the table is empty. *)
HeldOK ==
  \A w \in Workers : Holding(w) =>
    \/ table[center[cur[w]]] = cur[w]
    \/ main = "off" /\ user = "off" /\ table[center[cur[w]]] = 0

(* A sender of the table is connected if and only if its state says so,    *)
(* unless a disconnect or a cancelled clean-up came between. *)
FlagOK ==
  \A s \in InTable :
    /\ flag[s] /\ s \notin spoiled => live[s]
    /\ live[s] => flag[s]

(* What is being cleaned up is borrowed by nobody.                         *)
CleanOK == keep = "close" => closing \in InTable /\ n[closing] = 0

(* After disconnect() the table is empty, and stays so: no sender waits    *)
(* for an authorization that could still come. *)
Promising(w) == pc[w] \in {"queued", "sent", "import"}

DownOK ==
  /\ user # "off" => main = "off"
  /\ main = "off" /\ user = "off" => /\ \A d \in Centers : table[d] = 0
                                    /\ \A w \in Workers : ~Promising(w)

(* Every connected sender is accounted for.                                *)
LiveOK ==
  \A s \in Senders : live[s] =>
    \/ s \in orphans
    \/ s \in InTable
    \/ \E w \in Workers : Waiting(w) /\ cur[w] = s

-----------------------------------------------------------------------------
(* Who changes what.                                                       *)

(* The table. *)
LEMMA TableFrame ==
  ASSUME [Next]_vars, ~Clear, \A w \in Workers : ~Imported(w)
  PROVE  table' = table
BY DEF Next, vars, client, workers, senders, states, ghosts, Working, Borrowing, Using,
       CleanUp, Closing, Ask, Borrow, Created, Sent, Exported, Imported, ExportCancelled, BorrowFails,
       Raise, Reconnected, Migrate, Finish, SenderIsDead, RequestFails, GiveUp, Return,
       Minute, Clean, MarkDisconnected, Cleaned, Drop, Notice, Reopened, Disconnect,
       DisconnectMain, TakeLock, Close, Clear, Connect, SwitchDC, Age

(* The senders. *)
LEMMA CenterFrame ==
  ASSUME [Next]_vars, \A w \in Workers : ~Created(w)
  PROVE  center' = center /\ made' = made
BY DEF Next, vars, client, workers, senders, states, ghosts, Working, Borrowing, Using,
       CleanUp, Closing, Ask, Borrow, Created, Sent, Exported, Imported, ExportCancelled, BorrowFails,
       Raise, Reconnected, Migrate, Finish, SenderIsDead, RequestFails, GiveUp, Return,
       Minute, Clean, MarkDisconnected, Cleaned, Drop, Notice, Reopened, Disconnect,
       DisconnectMain, TakeLock, Close, Clear, Connect, SwitchDC, Age

(* The counts. *)
LEMMA CountFrame ==
  ASSUME [Next]_vars, \A w \in Workers : ~Borrow(w) /\ ~Imported(w) /\ ~Reconnected(w) /\ ~Return(w)
  PROVE  n' = n
BY DEF Next, vars, client, workers, senders, states, ghosts, Working, Borrowing, Using,
       CleanUp, Closing, Ask, Borrow, Created, Sent, Exported, Imported, ExportCancelled, BorrowFails,
       Raise, Reconnected, Migrate, Finish, SenderIsDead, RequestFails, GiveUp, Return,
       Minute, Clean, MarkDisconnected, Cleaned, Drop, Notice, Reopened, Disconnect,
       DisconnectMain, TakeLock, Close, Clear, Connect, SwitchDC, Age

(* The borrows left. *)
LEMMA LeftFrame ==
  ASSUME [Next]_vars, \A w \in Workers : (\A d \in Centers : ~Migrate(w, d)) /\ ~SenderIsDead(w) /\ ~RequestFails(w)
  PROVE  left' = left
BY DEF Next, vars, client, workers, senders, states, ghosts, Working, Borrowing, Using,
       CleanUp, Closing, Ask, Borrow, Created, Sent, Exported, Imported, ExportCancelled, BorrowFails,
       Raise, Reconnected, Migrate, Finish, SenderIsDead, RequestFails, GiveUp, Return,
       Minute, Clean, MarkDisconnected, Cleaned, Drop, Notice, Reopened, Disconnect,
       DisconnectMain, TakeLock, Close, Clear, Connect, SwitchDC, Age

(* The connections. *)
LEMMA LiveFrame ==
  ASSUME [Next]_vars, \A w \in Workers : ~Created(w) /\ ~Reconnected(w),
         ~MarkDisconnected, ~Disconnect, ~SwitchDC, \A s \in Senders : ~Close(s)
  PROVE  live' = live /\ spoiled' = spoiled
BY DEF Next, vars, client, workers, senders, states, ghosts, Working, Borrowing, Using,
       CleanUp, Closing, Ask, Borrow, Created, Sent, Exported, Imported, ExportCancelled, BorrowFails,
       Raise, Reconnected, Migrate, Finish, SenderIsDead, RequestFails, GiveUp, Return,
       Minute, Clean, MarkDisconnected, Cleaned, Drop, Notice, Reopened, Disconnect,
       DisconnectMain, TakeLock, Close, Clear, Connect, SwitchDC, Age

(* The flags. *)
LEMMA FlagFrame ==
  ASSUME [Next]_vars, \A w \in Workers : ~Borrow(w) /\ ~Imported(w) /\ ~Reconnected(w),
         ~MarkDisconnected, \A s \in Senders : ~Close(s)
  PROVE  flag' = flag
BY DEF Next, vars, client, workers, senders, states, ghosts, Working, Borrowing, Using,
       CleanUp, Closing, Ask, Borrow, Created, Sent, Exported, Imported, ExportCancelled, BorrowFails,
       Raise, Reconnected, Migrate, Finish, SenderIsDead, RequestFails, GiveUp, Return,
       AddReturn,
       Minute, Clean, MarkDisconnected, Cleaned, Drop, Notice, Reopened, Disconnect,
       DisconnectMain, TakeLock, Close, Clear, Connect, SwitchDC, Age

(* The senders without authorization. *)
LEMMA OrphanFrame ==
  ASSUME [Next]_vars, \A w \in Workers : ~ExportCancelled(w) /\ ~BorrowFails(w)
  PROVE  orphans' = orphans
BY DEF Next, vars, client, workers, senders, states, ghosts, Working, Borrowing, Using,
       CleanUp, Closing, Ask, Borrow, Created, Sent, Exported, Imported, ExportCancelled, BorrowFails,
       Raise, Reconnected, Migrate, Finish, SenderIsDead, RequestFails, GiveUp, Return,
       Minute, Clean, MarkDisconnected, Cleaned, Drop, Notice, Reopened, Disconnect,
       DisconnectMain, TakeLock, Close, Clear, Connect, SwitchDC, Age

(* A worker, but for the authorization that is cancelled.                  *)
LEMMA WorkerFrame ==
  ASSUME TypeOK, [Next]_vars, NEW x \in Workers, ~Working(x)
  PROVE  /\ cur'[x] = cur[x] /\ want'[x] = want[x]
         /\ pc'[x] = pc[x] \/ (pc[x] = "sent" /\ pc'[x] \in {"doomed", "queued"})
<1>1. ASSUME NEW w \in Workers, w # x, Working(w)
      PROVE  cur'[x] = cur[x] /\ want'[x] = want[x] /\ pc'[x] = pc[x]
  BY <1>1
     DEF TypeOK, WorkerTypes, Working, Borrowing, Using, Ask, Borrow, Created, Sent, Exported, Imported,
         ExportCancelled, BorrowFails, Raise, Reconnected, Migrate, Finish, SenderIsDead,
         RequestFails, GiveUp, Return
<1>2. CASE ClientStep
  BY <1>2
     DEF TypeOK, WorkerTypes, ClientStep, CleanUp, Closing, workers, Minute, Clean,
         MarkDisconnected, Cleaned, Drop, Notice, Reopened, Disconnect, DisconnectMain, TakeLock,
         Close, Clear, Connect, SwitchDC, Age
<1>3. CASE UNCHANGED vars
  BY <1>3 DEF vars, workers
<1> QED BY <1>1, <1>2, <1>3 DEF Next, ClientStep

(* While a worker holds the lock, the rest of the world leaves the senders *)
(* alone. *)
LEMMA LockedFrame ==
  ASSUME TypeOK, [Next]_vars, NEW x \in Workers, lock = x, ~Working(x)
  PROVE  /\ table' = table /\ center' = center /\ made' = made /\ n' = n
         /\ live' = live /\ flag' = flag
         /\ \A y \in Workers : Holding(y)' => Holding(y) /\ cur'[y] = cur[y]
<1> USE NamesAssumption
<1>1. lock # Free /\ lock # Keeper /\ lock # User
  OBVIOUS
<1>2. \A w \in Workers : pc[w] \in {"create", "queued", "sent", "doomed", "import", "connect"} => w = x
  BY DEF TypeOK, Exclusion, Locked
<1>3. \A w \in Workers : /\ ~Borrow(w) /\ ~Created(w) /\ ~Imported(w) /\ ~Reconnected(w)
                         /\ ~ExportCancelled(w) /\ ~BorrowFails(w) /\ ~Return(w)
  <2> SUFFICES ASSUME NEW w \in Workers
               PROVE  /\ ~Borrow(w) /\ ~Created(w) /\ ~Imported(w) /\ ~Reconnected(w)
                      /\ ~ExportCancelled(w) /\ ~BorrowFails(w) /\ ~Return(w)
    OBVIOUS
  <2>1. CASE w = x
    BY <2>1 DEF Working, Borrowing
  <2>2. CASE w # x
    BY <1>1, <1>2, <2>2 DEF Borrow, Created, Sent, Exported, Imported, Reconnected, ExportCancelled,
       BorrowFails, Return
  <2> QED BY <2>1, <2>2
<1>4. ~Clear /\ (\A s \in Senders : ~Close(s)) /\ ~MarkDisconnected /\ keep # "close"
  BY <1>1 DEF TypeOK, Exclusion, Clear, Close, MarkDisconnected
<1>5. table' = table /\ center' = center /\ made' = made /\ n' = n /\ flag' = flag
  BY <1>3, <1>4, TableFrame, CenterFrame, CountFrame, FlagFrame
<1>6. live' = live
  <2>1. CASE Disconnect \/ SwitchDC
    BY <1>4, <2>1 DEF Disconnect, SwitchDC, DisconnectMain
  <2>2. CASE ~Disconnect /\ ~SwitchDC
    BY <1>3, <1>4, <2>2, LiveFrame
  <2> QED BY <2>1, <2>2
<1>7. ASSUME NEW y \in Workers, Holding(y)' PROVE Holding(y) /\ cur'[y] = cur[y]
  <2>1. CASE Working(y)
    BY <1>3, <1>7, <2>1 DEF Holding, Working, Borrowing, Using, Ask, Sent, Exported, Migrate, Finish,
       SenderIsDead, RequestFails, GiveUp, TypeOK, WorkerTypes
  <2>2. CASE ~Working(y)
    BY <1>7, <2>2, WorkerFrame DEF Holding
  <2> QED BY <2>1, <2>2
<1> QED BY <1>5, <1>6, <1>7

(* So while the clean-up or disconnect() does. *)
LEMMA CleaningFrame ==
  ASSUME TypeOK, [Next]_vars, lock = Keeper
  PROVE  table' = table /\ n' = n
<1> USE NamesAssumption
<1>1. \A w \in Workers : pc[w] \notin {"create", "queued", "sent", "doomed", "import", "connect"}
  BY DEF TypeOK, Exclusion, Locked
<1>2. \A w \in Workers : ~Borrow(w) /\ ~Imported(w) /\ ~Reconnected(w) /\ ~Return(w)
  BY <1>1 DEF Borrow, Imported, Reconnected, Return
<1>3. ~Clear
  BY DEF TypeOK, Exclusion, Clear
<1> QED BY <1>2, <1>3, TableFrame, CountFrame

-----------------------------------------------------------------------------
(* Each part is kept.                                                      *)

LEMMA InTableType ==
  ASSUME TypeOK
  PROVE  /\ InTable \subseteq 1..made /\ 1..made \subseteq Senders
         /\ made \in Nat
         /\ \A d \in Centers : table[d] # 0 => table[d] \in InTable
<1>1. made \in 0..MaxAsks /\ table \in [Centers -> 0..made]
  BY DEF TypeOK, SenderTypes
<1> QED BY <1>1, BoundsAssumption DEF InTable, Senders

LEMMA KeepTable ==
  ASSUME TypeOK, TableOK, NewOK, [Next]_vars
  PROVE  TableOK'
<1>1. ASSUME NEW w \in Workers, Imported(w) PROVE TableOK'
  BY <1>1 DEF TypeOK, SenderTypes, WorkerTypes, TableOK, NewOK, Waiting, Imported
<1>2. CASE Clear
  BY <1>2 DEF Clear, TableOK
<1>3. ASSUME NEW w \in Workers, Created(w) PROVE TableOK'
  <2>1. \A s \in 1..made : center'[s] = center[s]
    BY <1>3, InTableType DEF Created, TypeOK, SenderTypes
  <2> QED
    BY <1>3, <2>1, InTableType DEF Created, TableOK, TypeOK, SenderTypes
<1> QED BY <1>1, <1>2, <1>3, TableFrame, CenterFrame DEF TableOK

LEMMA KeepDown ==
  ASSUME TypeOK, DownOK, [Next]_vars
  PROVE  DownOK'
<1>1. ASSUME NEW w \in Workers, Working(w) PROVE DownOK'
  <2>1. main' = main /\ user' = user
    BY <1>1 DEF Working, Borrowing, Using, client, Ask, Borrow, Created,
       Sent, Exported, Imported, ExportCancelled, BorrowFails, Raise, Reconnected, Migrate,
       Finish, SenderIsDead, RequestFails, Return
  <2>2. CASE main = "off" /\ user = "off"
    <3>1. table' = table
      BY <1>1, <2>2 DEF DownOK, Promising, Working, Borrowing, Using, senders, Ask, Borrow,
         Created, Sent, Exported, Imported, ExportCancelled, BorrowFails, Raise,
         Reconnected, Migrate, Finish, SenderIsDead, RequestFails, Return
    <3>2. ASSUME NEW x \in Workers PROVE ~Promising(x)'
      BY <1>1, <2>2 DEF DownOK, Promising, TypeOK, WorkerTypes, Working, Borrowing, Using,
         Ask, Borrow, Created, Sent, Exported, Imported, ExportCancelled, BorrowFails,
         Raise, Reconnected, Migrate, Finish, SenderIsDead, RequestFails, GiveUp, Return
    <3> QED BY <2>1, <2>2, <3>1, <3>2 DEF DownOK
  <2> QED BY <2>1, <2>2 DEF DownOK
<1>2. CASE ClientStep
  <2>1. CASE Clear
    <3>1. \A w \in Workers : ~Promising(w)
      BY <2>1, NamesAssumption DEF Clear, TypeOK, Exclusion, Locked, Promising
    <3> QED BY <2>1, <3>1 DEF Clear, workers, DownOK, Promising
  <2>2. CASE Disconnect \/ SwitchDC \/ Connect \/ Reopened \/ Drop \/ Notice
    BY <2>2, NamesAssumption
       DEF DownOK, Disconnect, SwitchDC, Connect, Reopened, Drop, Notice, Promising
  <2>3. CASE Minute \/ CleanUp \/ TakeLock \/ (\E s \in Senders : Close(s) \/ Age(s))
    BY <2>3 DEF DownOK, Promising, CleanUp, client, workers, senders, Minute, Clean,
       MarkDisconnected, Cleaned, TakeLock, Close, Age
  <2> QED BY <1>2, <2>1, <2>2, <2>3 DEF ClientStep, Closing
<1>3. CASE UNCHANGED vars
  BY <1>3 DEF vars, client, workers, senders, DownOK, Promising
<1> QED BY <1>1, <1>2, <1>3 DEF Next, ClientStep

LEMMA KeepHave ==
  ASSUME TypeOK, HaveOK, [Next]_vars
  PROVE  HaveOK'
<1> USE NamesAssumption
<1> SUFFICES ASSUME NEW x \in Workers
             PROVE  /\ pc'[x] = "connect" => table'[want'[x]] # 0
                    /\ Waiting(x)' \/ Holding(x)' => cur'[x] # 0
  BY DEF HaveOK
<1>1. CASE Working(x)
  <2>1. CASE Borrow(x)
    BY <2>1 DEF Borrow, Waiting, Holding, TypeOK, WorkerTypes
  <2>2. CASE Created(x)
    BY <2>2, InTableType DEF Created, Waiting, Holding, TypeOK, WorkerTypes
  <2>3. CASE Imported(x)
    BY <2>3 DEF HaveOK, Imported, Waiting, Holding, TypeOK, WorkerTypes
  <2>4. CASE ExportCancelled(x) \/ BorrowFails(x)
    BY <2>4 DEF ExportCancelled, BorrowFails, Raise, Waiting, Holding, TypeOK, WorkerTypes
  <2>5. CASE Reconnected(x)
    BY <2>5 DEF HaveOK, Reconnected, Waiting, Holding, TypeOK, WorkerTypes
  <2>6. CASE Using(x)
    BY <2>6 DEF HaveOK, Using, Finish, SenderIsDead, RequestFails, GiveUp, Waiting,
       Holding, TypeOK, WorkerTypes
  <2>7. CASE Return(x)
    BY <2>7 DEF Return, Waiting, Holding, TypeOK, WorkerTypes
  <2>8. ASSUME NEW d \in Centers, Ask(x, d) \/ Migrate(x, d)
        PROVE  pc'[x] = "ask"
    BY <2>8 DEF Ask, Migrate, TypeOK, WorkerTypes
  <2>9. CASE Sent(x) \/ Exported(x)
    BY <2>9 DEF HaveOK, Sent, Exported, Waiting, Holding, TypeOK, WorkerTypes
  <2> QED
    BY <1>1, <2>1, <2>2, <2>3, <2>4, <2>5, <2>6, <2>7, <2>8, <2>9
       DEF Working, Borrowing, Waiting, Holding
<1>2. CASE ~Working(x)
  <2>1. /\ cur'[x] = cur[x] /\ want'[x] = want[x]
        /\ pc'[x] = pc[x] \/ (pc[x] = "sent" /\ pc'[x] \in {"doomed", "queued"})
    BY <1>2, WorkerFrame
  <2>2. pc'[x] = "connect" => table'[want'[x]] # 0
    <3>1. pc[x] = "connect" => lock = x
      BY DEF TypeOK, Exclusion, Locked
    <3> QED BY <1>2, <2>1, <3>1, LockedFrame DEF HaveOK
  <2> QED BY <2>1, <2>2 DEF HaveOK, Waiting, Holding
<1> QED BY <1>1, <1>2

LEMMA KeepFresh ==
  ASSUME TypeOK, HaveOK, FreshOK, [Next]_vars
  PROVE  FreshOK'
<1> SUFFICES ASSUME NEW s \in Senders, s > made'
             PROVE  n'[s] = 0 /\ left'[s] = 0 /\ ~live'[s]
  BY DEF FreshOK
<1>1. made \in Nat /\ made' \in Nat /\ made <= made' /\ s \in Nat /\ s > made
  <2>1. CASE \E w \in Workers : Created(w)
    BY <2>1, InTableType, BoundsAssumption DEF Created, Senders
  <2>2. CASE \A w \in Workers : ~Created(w)
    BY <2>2, InTableType, CenterFrame, BoundsAssumption DEF Senders
  <2> QED BY <2>1, <2>2
<1>2. n[s] = 0 /\ left[s] = 0 /\ ~live[s]
  BY <1>1 DEF FreshOK
<1>3. /\ \A w \in Workers : cur[w] # s
      /\ \A d \in Centers : table[d] # s
      /\ closing # s
  BY <1>1 DEF TypeOK, WorkerTypes, SenderTypes, ClientTypes
<1>4. n'[s] = 0
  <2>1. ASSUME NEW w \in Workers, Borrow(w) \/ Imported(w) \/ Reconnected(w)
        PROVE  n'[s] = n[s]
    BY <1>3, <2>1 DEF Borrow, Imported, Reconnected, AddBorrow, states, TypeOK,
       SenderTypes, WorkerTypes
  <2>2. ASSUME NEW w \in Workers, Return(w)
        PROVE  n'[s] = n[s]
    <3>1. center[cur[w]] \in Centers
      BY <2>2, InTableType DEF Return, HaveOK, Holding, TypeOK, SenderTypes, WorkerTypes
    <3> QED
      BY <1>3, <2>2, <3>1 DEF Return, AddReturn, states, TypeOK, SenderTypes
  <2> QED BY <1>2, <2>1, <2>2, CountFrame
<1>5. left'[s] = 0
  <2>1. ASSUME NEW w \in Workers, SenderIsDead(w) \/ RequestFails(w)
        PROVE  left'[s] = left[s]
    BY <1>3, <2>1 DEF SenderIsDead, RequestFails, GiveUp, TypeOK, SenderTypes
  <2>2. ASSUME NEW w \in Workers, NEW d \in Centers, Migrate(w, d)
        PROVE  left'[s] = left[s]
    BY <1>3, <2>2 DEF Migrate, TypeOK, SenderTypes
  <2> QED BY <1>2, <2>1, <2>2, LeftFrame
<1>6. ~live'[s]
  <2>1. ASSUME NEW w \in Workers, Created(w)
        PROVE  ~live'[s]
    BY <1>1, <1>2, <2>1 DEF Created, TypeOK, FlagTypes
  <2>2. ASSUME NEW w \in Workers, Reconnected(w)
        PROVE  ~live'[s]
    BY <1>2, <1>3, <2>2 DEF Reconnected, TypeOK, FlagTypes, WorkerTypes
  <2>3. CASE MarkDisconnected \/ Disconnect \/ SwitchDC
    BY <1>2, <2>3 DEF MarkDisconnected, Disconnect, SwitchDC, DisconnectMain, TypeOK,
       FlagTypes
  <2>4. ASSUME NEW r \in Senders, Close(r)
        PROVE  ~live'[s]
    BY <1>2, <2>4 DEF Close, TypeOK, FlagTypes
  <2> QED BY <1>2, <2>1, <2>2, <2>3, <2>4, LiveFrame
<1> QED BY <1>4, <1>5, <1>6

LEMMA KeepNew ==
  ASSUME TypeOK, TableOK, FreshOK, HaveOK, NewOK, [Next]_vars
  PROVE  NewOK'
<1> USE NamesAssumption
<1> SUFFICES ASSUME NEW x \in Workers
             PROVE  /\ Making(x)' => table'[want'[x]] = 0
                    /\ Waiting(x)' =>
                         /\ center'[cur'[x]] = want'[x]
                         /\ n'[cur'[x]] = 0 /\ left'[cur'[x]] = 0 /\ live'[cur'[x]]
                         /\ \A y \in Workers : Holding(y)' => cur'[y] # cur'[x]
  BY DEF NewOK
<1>1. CASE Borrow(x)
  BY <1>1 DEF Borrow, Making, Waiting, TypeOK, WorkerTypes
<1>2. CASE Created(x)
  <2>1. /\ made + 1 \in Senders /\ cur'[x] = made + 1 /\ want' = want /\ table' = table
        /\ n' = n /\ left' = left
    BY <1>2, InTableType, BoundsAssumption
       DEF Created, states, ghosts, Senders, TypeOK, WorkerTypes
  <2>2. n[made + 1] = 0 /\ left[made + 1] = 0
    BY <2>1, InTableType DEF FreshOK
  <2>3. center'[made + 1] = want[x] /\ live'[made + 1]
    BY <1>2, <2>1 DEF Created, TypeOK, SenderTypes, FlagTypes
  <2>4. \A y \in Workers : Holding(y)' => cur'[y] # made + 1
    BY <1>2, InTableType DEF Created, Holding, TypeOK, WorkerTypes
  <2>5. table[want[x]] = 0
    BY <1>2 DEF NewOK, Making, Created
  <2> QED BY <2>1, <2>2, <2>3, <2>4, <2>5
<1>3. CASE Working(x) /\ ~Borrow(x) /\ ~Created(x) /\ ~Sent(x) /\ ~Exported(x)
  <2>1. ~Making(x)'
    BY <1>3 DEF Working, Borrowing, Using, Ask, Imported, ExportCancelled, BorrowFails,
       Raise, Reconnected, Migrate, Finish, SenderIsDead, RequestFails, GiveUp, Return,
       Making, TypeOK, WorkerTypes
  <2> QED BY <2>1 DEF Making, Waiting
<1>4. CASE ~Working(x)
  <2>1. /\ cur'[x] = cur[x] /\ want'[x] = want[x]
        /\ Making(x)' => Making(x)
        /\ Waiting(x)' => Waiting(x)
    BY <1>4, WorkerFrame DEF Making, Waiting
  <2>2. Waiting(x) => Making(x)
    BY DEF Making, Waiting
  <2> SUFFICES ASSUME Making(x)
               PROVE  /\ table'[want[x]] = 0
                      /\ Waiting(x) =>
                           /\ center'[cur[x]] = want[x]
                           /\ n'[cur[x]] = 0 /\ left'[cur[x]] = 0 /\ live'[cur[x]]
                           /\ \A y \in Workers : Holding(y)' => cur'[y] # cur[x]
    BY <2>1, <2>2
  <2>3. lock = x
    BY DEF Making, TypeOK, Exclusion, Locked
  <2>4. /\ table' = table /\ center' = center /\ n' = n /\ live' = live
        /\ \A y \in Workers : Holding(y)' => Holding(y) /\ cur'[y] = cur[y]
    BY <1>4, <2>3, LockedFrame
  <2>5. Waiting(x) => left'[cur[x]] = left[cur[x]]
    <3> SUFFICES ASSUME Waiting(x), NEW w \in Workers
                 PROVE  /\ SenderIsDead(w) \/ RequestFails(w)
                             => left'[cur[x]] = left[cur[x]]
                        /\ \A d \in Centers : Migrate(w, d)
                             => left'[cur[x]] = left[cur[x]]
      BY LeftFrame
    <3>1. cur[x] \in Senders /\ (Holding(w) => cur[w] # cur[x])
      BY InTableType DEF NewOK, HaveOK, TypeOK, WorkerTypes
    <3>2. SenderIsDead(w) \/ RequestFails(w) => left'[cur[x]] = left[cur[x]]
      BY <3>1 DEF SenderIsDead, RequestFails, GiveUp, Holding, TypeOK, SenderTypes
    <3>3. ASSUME NEW d \in Centers, Migrate(w, d) PROVE left'[cur[x]] = left[cur[x]]
      BY <3>1, <3>3 DEF Migrate, Holding, TypeOK, SenderTypes
    <3> QED BY <3>2, <3>3
  <2> QED BY <2>4, <2>5 DEF NewOK
<1>5. CASE Sent(x) \/ Exported(x)
  <2>1. /\ Waiting(x) /\ Making(x) /\ want' = want /\ cur' = cur /\ senders' = senders
        /\ left' = left /\ \A y \in Workers : Holding(y)' => Holding(y)
    BY <1>5 DEF Sent, Exported, ghosts, Waiting, Making, Holding, TypeOK, WorkerTypes
  <2> QED BY <2>1 DEF NewOK, senders, states
<1> QED BY <1>1, <1>2, <1>3, <1>4, <1>5

LEMMA KeepClean ==
  ASSUME TypeOK, CleanOK, [Next]_vars
  PROVE  CleanOK'
<1> SUFFICES ASSUME keep' = "close" PROVE closing' \in InTable' /\ n'[closing'] = 0
  BY DEF CleanOK
<1>1. ASSUME NEW s \in Senders, Clean(s) PROVE closing' \in InTable' /\ n'[closing'] = 0
  BY <1>1 DEF Clean, ShouldDisconnect, InTable, senders, states
<1>2. CASE \A s \in Senders : ~Clean(s)
  <2>1. keep = "close" /\ closing' = closing
    BY <1>2 DEF Next, vars, client, Working, Borrowing, Using,
       CleanUp, Closing, Ask, Borrow, Created, Sent, Exported, Imported, ExportCancelled, BorrowFails,
       Raise, Reconnected, Migrate, Finish, SenderIsDead, RequestFails, GiveUp, Return,
       Minute, MarkDisconnected, Cleaned, Drop, Notice, Reopened, Disconnect,
       DisconnectMain, TakeLock, Close, Clear, Connect, SwitchDC, Age
  <2>2. lock = Keeper
    BY <2>1 DEF TypeOK, Exclusion
  <2> QED BY <2>1, <2>2, CleaningFrame DEF CleanOK, InTable
<1> QED BY <1>1, <1>2

(* The table after a step is the one before, with a sender more, or empty. *)
LEMMA InTableStep ==
  ASSUME TypeOK, [Next]_vars
  PROVE  /\ (\A w \in Workers : ~Imported(w)) => InTable' \subseteq InTable
         /\ \A w \in Workers : Imported(w) => InTable' \subseteq InTable \cup {cur[w]}
<1>1. Clear => InTable' = {}
  BY DEF Clear, InTable
<1>2. table' = table => InTable' = InTable
  BY DEF InTable
<1>3. \A w \in Workers : Imported(w) => InTable' \subseteq InTable \cup {cur[w]}
  BY DEF Imported, InTable, TypeOK, SenderTypes
<1> QED BY <1>1, <1>2, <1>3, TableFrame

LEMMA KeepFlag ==
  ASSUME TypeOK, HaveOK, NewOK, FlagOK, [Next]_vars
  PROVE  FlagOK'
<1> SUFFICES ASSUME NEW s \in InTable'
             PROVE  /\ flag'[s] /\ s \notin spoiled' => live'[s]
                    /\ live'[s] => flag'[s]
  BY DEF FlagOK
<1>1. ASSUME NEW w \in Workers, Imported(w)
      PROVE  (flag'[s] /\ s \notin spoiled' => live'[s]) /\ (live'[s] => flag'[s])
  <2>1. cur[w] \in Senders /\ live[cur[w]]
    BY <1>1, InTableType DEF Imported, Waiting, NewOK, HaveOK, TypeOK, WorkerTypes
  <2>2. live' = live /\ spoiled' = spoiled /\ flag' = [flag EXCEPT ![cur[w]] = TRUE]
    BY <1>1 DEF Imported, AddBorrow, ghosts
  <2>3. CASE s = cur[w]
    BY <2>1, <2>2, <2>3 DEF TypeOK, FlagTypes
  <2>4. CASE s # cur[w]
    <3>1. s \in InTable
      BY <1>1, <2>4, InTableStep
    <3>2. s \in Senders
      BY <3>1, InTableType
    <3> QED BY <2>2, <2>4, <3>1, <3>2 DEF FlagOK, TypeOK, FlagTypes
  <2> QED BY <2>3, <2>4
<1>2. CASE \A w \in Workers : ~Imported(w)
  <2>1. s \in InTable /\ s \in Senders /\ s \in 1..made
    BY <1>2, InTableStep, InTableType
  <2>2. (flag[s] /\ s \notin spoiled => live[s]) /\ (live[s] => flag[s])
    BY <2>1 DEF FlagOK
  <2>3. ASSUME NEW w \in Workers, Borrow(w)
        PROVE  flag'[s] = flag[s] /\ live'[s] = live[s] /\ spoiled' = spoiled
    BY <2>1, <2>3 DEF Borrow, AddBorrow, states, ghosts, TypeOK, FlagTypes
  <2>4. ASSUME NEW w \in Workers, Created(w)
        PROVE  flag'[s] = flag[s] /\ live'[s] = live[s] /\ spoiled' = spoiled
    <3>1. s # made + 1
      BY <2>1, InTableType
    <3> QED BY <2>1, <2>4, <3>1 DEF Created, states, ghosts, TypeOK, FlagTypes
  <2>5. ASSUME NEW w \in Workers, Reconnected(w), s = table[want[w]]
        PROVE  flag'[s] /\ live'[s]
    BY <2>1, <2>5 DEF Reconnected, AddBorrow, TypeOK, FlagTypes
  <2>6. ASSUME NEW w \in Workers, Reconnected(w), s # table[want[w]]
        PROVE  flag'[s] = flag[s] /\ live'[s] = live[s] /\ (s \in spoiled' <=> s \in spoiled)
    BY <2>1, <2>6 DEF Reconnected, AddBorrow, TypeOK, FlagTypes
  <2>7. CASE MarkDisconnected
    BY <2>1, <2>2, <2>7 DEF MarkDisconnected, ghosts, TypeOK, FlagTypes
  <2>8. CASE Disconnect \/ SwitchDC
    BY <2>1, <2>2, <2>8 DEF Disconnect, SwitchDC, DisconnectMain, states, TypeOK, FlagTypes
  <2>9. ASSUME NEW r \in Senders, Close(r)
        PROVE  (flag'[s] /\ s \notin spoiled' => live'[s]) /\ (live'[s] => flag'[s])
    BY <2>1, <2>2, <2>9 DEF Close, TypeOK, FlagTypes
  <2> QED
    BY <1>2, <2>2, <2>3, <2>4, <2>5, <2>6, <2>7, <2>8, <2>9, FlagFrame, LiveFrame
<1> QED BY <1>1, <1>2

LEMMA KeepLive ==
  ASSUME TypeOK, HaveOK, NewOK, FlagOK, LiveOK, [Next]_vars
  PROVE  LiveOK'
<1> USE NamesAssumption
<1> SUFFICES ASSUME NEW s \in Senders, live'[s]
             PROVE  \/ s \in orphans'
                    \/ s \in InTable'
                    \/ \E w \in Workers : Waiting(w)' /\ cur'[w] = s
  BY DEF LiveOK
<1>1. orphans \subseteq orphans'
  BY OrphanFrame DEF ExportCancelled, BorrowFails
<1>2. CASE \E w \in Workers : Created(w) /\ s = made + 1
  <2>1. PICK w \in Workers : Created(w) /\ s = made + 1
    BY <1>2
  <2>2. Waiting(w)' /\ cur'[w] = s
    BY <2>1 DEF Created, Waiting, TypeOK, WorkerTypes
  <2> QED BY <2>2
<1>3. CASE \E w \in Workers : Reconnected(w) /\ s = table[want[w]]
  <2>1. PICK w \in Workers : Reconnected(w) /\ s = table[want[w]]
    BY <1>3
  <2>2. want[w] \in Centers /\ table' = table /\ table[want[w]] # 0
    BY <2>1 DEF Reconnected, HaveOK, TypeOK, WorkerTypes
  <2> QED BY <2>1, <2>2 DEF InTable
<1>4. CASE /\ ~\E w \in Workers : Created(w) /\ s = made + 1
           /\ ~\E w \in Workers : Reconnected(w) /\ s = table[want[w]]
  <2>1. live[s]
    <3>1. ASSUME NEW w \in Workers, Created(w) \/ Reconnected(w) PROVE live[s]
      BY <1>4, <3>1 DEF Created, Reconnected, TypeOK, FlagTypes
    <3>2. CASE MarkDisconnected \/ Disconnect \/ SwitchDC
      BY <3>2 DEF MarkDisconnected, Disconnect, SwitchDC, DisconnectMain, TypeOK, FlagTypes
    <3>3. ASSUME NEW r \in Senders, Close(r) PROVE live[s]
      BY <3>3 DEF Close, TypeOK, FlagTypes
    <3> QED BY <3>1, <3>2, <3>3, LiveFrame
  <2>2. CASE s \in orphans
    BY <1>1, <2>2
  <2>3. CASE s \in InTable
    <3>1. flag[s]
      BY <2>1, <2>3 DEF FlagOK
    <3>2. ~Clear
      BY <2>3, <3>1 DEF Clear, MayClose
    <3>3. ASSUME NEW w \in Workers, Imported(w) PROVE s \in InTable'
      <4>1. table[want[w]] = 0
        BY <3>3 DEF NewOK, Making, Imported
      <4> QED BY <2>3, <3>3, <4>1 DEF Imported, InTable, TypeOK, SenderTypes
    <3> QED BY <2>3, <3>2, <3>3, TableFrame DEF InTable
  <2>4. CASE \E w \in Workers : Waiting(w) /\ cur[w] = s
    <3>1. PICK w \in Workers : Waiting(w) /\ cur[w] = s
      BY <2>4
    <3>2. CASE ~Working(w)
      <4>1. Waiting(w)' /\ cur'[w] = s
        BY <3>1, <3>2, WorkerFrame DEF Waiting
      <4> QED BY <4>1
    <3>3. CASE Imported(w)
      <4>1. want[w] \in Centers /\ s # 0 /\ table' = [table EXCEPT ![want[w]] = s]
        BY <3>1, <3>3 DEF Imported, HaveOK, TypeOK, WorkerTypes
      <4> QED BY <4>1 DEF InTable, TypeOK, SenderTypes
    <3>4. CASE ExportCancelled(w) \/ BorrowFails(w)
      BY <3>1, <3>4 DEF ExportCancelled, BorrowFails, Waiting
    <3>5. CASE Sent(w) \/ Exported(w)
      <4>1. Waiting(w)' /\ cur'[w] = s
        BY <3>1, <3>5 DEF Sent, Exported, Waiting, TypeOK, WorkerTypes
      <4> QED BY <4>1
    <3>6. CASE /\ Working(w) /\ ~Imported(w) /\ ~ExportCancelled(w) /\ ~BorrowFails(w)
               /\ ~Sent(w) /\ ~Exported(w)
      BY <3>1, <3>6 DEF Waiting, Working, Borrowing, Using, Ask, Borrow, Created,
         Reconnected, Migrate, Finish, SenderIsDead, RequestFails, Return
    <3> QED BY <3>2, <3>3, <3>4, <3>5, <3>6
  <2> QED BY <2>1, <2>2, <2>3, <2>4 DEF LiveOK
<1> QED BY <1>2, <1>3, <1>4

(* Only a user who connects while a worker is busy breaks this.            *)
LEMMA KeepHeld ==
  ASSUME Patient, TypeOK, TableOK, HaveOK, NewOK, DownOK, HeldOK, [Next]_vars
  PROVE  HeldOK'
<1> USE NamesAssumption
<1> SUFFICES ASSUME NEW x \in Workers, Holding(x)'
             PROVE  \/ table'[center'[cur'[x]]] = cur'[x]
                    \/ main' = "off" /\ user' = "off" /\ table'[center'[cur'[x]]] = 0
  BY DEF HeldOK
<1>1. CASE Borrow(x)
  <2>1. want[x] \in Centers /\ table[want[x]] # 0 /\ cur'[x] = table[want[x]]
    BY <1>1 DEF Borrow, Holding, TypeOK, WorkerTypes
  <2> QED BY <1>1, <2>1 DEF Borrow, TableOK
<1>2. CASE Imported(x)
  <2>1. want[x] \in Centers /\ center[cur[x]] = want[x] /\ cur'[x] = cur[x]
    BY <1>2 DEF Imported, NewOK, Waiting, TypeOK, WorkerTypes
  <2> QED BY <1>2, <2>1 DEF Imported, TypeOK, SenderTypes
<1>3. CASE Reconnected(x)
  <2>1. want[x] \in Centers /\ table[want[x]] # 0 /\ cur'[x] = table[want[x]]
    BY <1>3 DEF Reconnected, HaveOK, TypeOK, WorkerTypes
  <2> QED BY <1>3, <2>1 DEF Reconnected, TableOK
<1>4. CASE ~Borrow(x) /\ ~Imported(x) /\ ~Reconnected(x)
  <2>1. Holding(x) /\ cur'[x] = cur[x]
    <3>1. CASE Working(x)
      BY <1>4, <3>1 DEF Holding, Working, Borrowing, Using, Ask, Created, Sent, Exported, ExportCancelled,
         BorrowFails, Raise, Migrate, Finish, SenderIsDead, RequestFails, GiveUp, Return,
         TypeOK, WorkerTypes
    <3>2. CASE ~Working(x)
      BY <3>2, WorkerFrame DEF Holding
    <3> QED BY <3>1, <3>2
  <2>2. cur[x] \in 1..made /\ cur[x] \in Senders /\ center[cur[x]] \in Centers
    BY <2>1, InTableType DEF HaveOK, TypeOK, WorkerTypes, SenderTypes
  <2>3. center'[cur[x]] = center[cur[x]]
    BY <2>2, CenterFrame, InTableType DEF Created, TypeOK, SenderTypes
  <2>4. \/ table[center[cur[x]]] = cur[x]
        \/ main = "off" /\ user = "off" /\ table[center[cur[x]]] = 0
    BY <2>1 DEF HeldOK
  <2>5. CASE Clear
    <3>1. main' = "off"
      BY <2>5 DEF Clear, DownOK
    <3> QED BY <2>1, <2>2, <2>3, <2>5, <3>1 DEF Clear
  <2>6. ASSUME NEW w \in Workers, Imported(w)
        PROVE  table'[center[cur[x]]] = cur[x]
    <3>1. table[want[w]] = 0 /\ cur[x] # 0
      BY <2>2, <2>6 DEF NewOK, Making, Imported
    <3>2. table[center[cur[x]]] = cur[x]
      BY <2>4, <2>6 DEF DownOK, Promising, Imported
    <3> QED BY <2>2, <2>6, <3>1, <3>2 DEF Imported, TypeOK, SenderTypes
  <2>7. CASE /\ table' = table
             /\ main = "off" /\ user = "off" => main' = "off" /\ user' = "off"
    BY <2>1, <2>3, <2>4, <2>7
  <2>8. CASE main = "off" /\ user = "off" /\ ~(main' = "off" /\ user' = "off")
    <3>1. Connect
      BY <2>8 DEF Next, vars, client, Working, Borrowing, Using,
         CleanUp, Closing, Ask, Borrow, Created, Sent, Exported, Imported, ExportCancelled, BorrowFails,
         Raise, Reconnected, Migrate, Finish, SenderIsDead, RequestFails, Return,
         Minute, Clean, MarkDisconnected, Cleaned, Drop, Notice, Reopened, Disconnect,
         TakeLock, Close, Clear, SwitchDC, Age
    <3> QED BY <2>1, <3>1 DEF Connect, Holding
  <2> QED BY <2>1, <2>3, <2>5, <2>6, <2>7, <2>8, TableFrame
<1> QED BY <1>1, <1>2, <1>3, <1>4

LEMMA HoldersType ==
  ASSUME NEW s
  PROVE  IsFiniteSet(Holders(s)) /\ Cardinality(Holders(s)) \in Nat
BY NamesAssumption, FS_Subset, FS_CardinalityType DEF Holders

LEMMA MoreHolders ==
  ASSUME NEW s, NEW w, w \notin Holders(s), Holders(s)' = Holders(s) \cup {w}
  PROVE  Cardinality(Holders(s))' = Cardinality(Holders(s)) + 1
BY HoldersType, FS_AddElement

LEMMA FewerHolders ==
  ASSUME NEW s, NEW w, w \in Holders(s), Holders(s)' = Holders(s) \ {w}
  PROVE  Cardinality(Holders(s))' = Cardinality(Holders(s)) - 1
BY HoldersType, FS_RemoveElement

(* Somebody borrows s. *)
LEMMA CountedBorrow ==
  ASSUME TypeOK, Counted, NEW w \in Workers, NEW s \in InTable, ~Holding(w),
         n' = [n EXCEPT ![s] = @ + 1], left' = left, table' = table,
         pc' = [pc EXCEPT ![w] = "use"], cur' = [cur EXCEPT ![w] = s]
  PROVE  Counted'
<1> SUFFICES ASSUME NEW r \in InTable
             PROVE  n'[r] = Cardinality(Holders(r))' + left[r]
  BY DEF Counted, InTable
<1>1. r \in Senders /\ s \in Senders /\ n[r] = Cardinality(Holders(r)) + left[r]
  BY InTableType DEF Counted
<1>2. n[r] \in Int /\ left[r] \in Nat
  BY <1>1 DEF TypeOK, SenderTypes
<1>3. CASE r = s
  <2>1. w \notin Holders(s) /\ Holders(s)' = Holders(s) \cup {w}
    BY DEF Holders, Holding, TypeOK, WorkerTypes
  <2>2. n'[s] = n[s] + 1
    BY <1>1 DEF TypeOK, SenderTypes
  <2> QED BY <1>1, <1>2, <1>3, <2>1, <2>2, MoreHolders, HoldersType
<1>4. CASE r # s
  <2>1. Holders(r)' = Holders(r)
    BY <1>4 DEF Holders, Holding, TypeOK, WorkerTypes
  <2>2. n'[r] = n[r]
    BY <1>1, <1>4 DEF TypeOK, SenderTypes
  <2> QED BY <1>1, <2>1, <2>2
<1> QED BY <1>3, <1>4

(* Somebody ends without returning s. *)
LEMMA CountedLeave ==
  ASSUME TypeOK, HaveOK, Counted, NEW w \in Workers, pc[w] = "use",
         n' = n, left' = [left EXCEPT ![cur[w]] = @ + 1], table' = table,
         cur' = [cur EXCEPT ![w] = 0],
         NEW p \in {"off", "ask"}, pc' = [pc EXCEPT ![w] = p]
  PROVE  Counted'
<1> SUFFICES ASSUME NEW r \in InTable
             PROVE  n[r] = Cardinality(Holders(r))' + left'[r]
  BY DEF Counted, InTable
<1>1. r \in Senders /\ n[r] = Cardinality(Holders(r)) + left[r]
  BY InTableType DEF Counted
<1>2. n[r] \in Int /\ left[r] \in Nat
  BY <1>1 DEF TypeOK, SenderTypes
<1>3. CASE r = cur[w]
  <2>1. w \in Holders(r) /\ Holders(r)' = Holders(r) \ {w}
    BY <1>3 DEF Holders, TypeOK, WorkerTypes
  <2>2. left'[r] = left[r] + 1
    BY <1>1, <1>3 DEF TypeOK, SenderTypes
  <2>3. Cardinality(Holders(r))' = Cardinality(Holders(r)) - 1
    BY <2>1, FewerHolders
  <2>4. Cardinality(Holders(r)) \in Nat
    BY HoldersType
  <2> QED BY <1>1, <1>2, <2>2, <2>3, <2>4
<1>4. CASE r # cur[w]
  <2>1. Holders(r)' = Holders(r)
    BY <1>4, InTableType DEF Holders, TypeOK, WorkerTypes
  <2>2. left'[r] = left[r]
    BY <1>1, <1>4 DEF TypeOK, SenderTypes
  <2> QED BY <1>1, <2>1, <2>2
<1> QED BY <1>3, <1>4

(* The sender that was waiting enters the table, borrowed once.            *)
LEMMA CountedExported ==
  ASSUME TypeOK, HaveOK, NewOK, Counted, NEW w \in Workers, Imported(w)
  PROVE  Counted'
<1>1. /\ cur[w] \in Senders /\ n[cur[w]] = 0 /\ left[cur[w]] = 0
      /\ \A y \in Workers : Holding(y) => cur[y] # cur[w]
  BY InTableType DEF Imported, Waiting, NewOK, HaveOK, TypeOK, WorkerTypes
<1>2. n' = [n EXCEPT ![cur[w]] = @ + 1] /\ left' = left /\ cur' = cur
  BY DEF Imported, AddBorrow, ghosts
<1> SUFFICES ASSUME NEW r \in InTable'
             PROVE  n'[r] = Cardinality(Holders(r))' + left[r]
  BY <1>2 DEF Counted
<1>3. CASE r = cur[w]
  <2>1. Holders(r) = {} /\ w \notin Holders(r) /\ Holders(r)' = Holders(r) \cup {w}
    BY <1>1, <1>2, <1>3 DEF Holders, Holding, Imported, TypeOK, WorkerTypes
  <2>2. n'[r] = 1
    BY <1>1, <1>2, <1>3 DEF TypeOK, SenderTypes
  <2>3. Cardinality(Holders(r)) = 0
    BY <2>1, FS_EmptySet
  <2> QED BY <1>1, <1>3, <2>1, <2>2, <2>3, MoreHolders
<1>4. CASE r # cur[w]
  <2>1. r \in InTable /\ r \in Senders
    BY <1>4, InTableStep, InTableType DEF Next, Working, Borrowing
  <2>2. Holders(r)' = Holders(r)
    BY <1>2, <1>4 DEF Holders, Imported, TypeOK, WorkerTypes
  <2>3. n'[r] = n[r]
    BY <1>2, <1>4, <2>1 DEF TypeOK, SenderTypes
  <2> QED BY <2>1, <2>2, <2>3 DEF Counted
<1> QED BY <1>3, <1>4

(* A sender is returned, to the state it was borrowed from.                *)
LEMMA CountedReturn ==
  ASSUME TypeOK, TableOK, HaveOK, HeldOK, Counted, NEW w \in Workers, Return(w)
  PROVE  Counted'
<1>1. /\ pc[w] = "back" /\ table' = table /\ left' = left
      /\ pc' = [pc EXCEPT ![w] = "off"] /\ cur' = [cur EXCEPT ![w] = 0]
  BY DEF Return, ghosts
<1>2. cur[w] \in Senders /\ cur[w] # 0
  BY <1>1, InTableType DEF HaveOK, Holding, TypeOK, WorkerTypes
<1> SUFFICES ASSUME NEW r \in InTable
             PROVE  n'[r] = Cardinality(Holders(r))' + left[r]
  BY <1>1 DEF Counted, InTable
<1>3. r \in Senders /\ n[r] = Cardinality(Holders(r)) + left[r]
  BY InTableType DEF Counted
<1>4. n[r] \in Int /\ left[r] \in Nat
  BY <1>3 DEF TypeOK, SenderTypes
<1>5. CASE r = cur[w]
  <2>1. table[center[cur[w]]] = cur[w]
    BY <1>5 DEF TableOK, InTable
  <2>2. n'[r] = n[r] - 1
    BY <1>2, <1>5, <2>1 DEF Return, AddReturn, TypeOK, SenderTypes
  <2>3. w \in Holders(r) /\ Holders(r)' = Holders(r) \ {w}
    BY <1>1, <1>5 DEF Holders, TypeOK, WorkerTypes
  <2>4. Cardinality(Holders(r))' = Cardinality(Holders(r)) - 1
    BY <2>3, FewerHolders
  <2>5. Cardinality(Holders(r)) \in Nat
    BY HoldersType
  <2> QED BY <1>3, <1>4, <2>2, <2>4, <2>5
<1>6. CASE r # cur[w]
  <2>1. Holders(r)' = Holders(r)
    BY <1>1, <1>6, InTableType DEF Holders, TypeOK, WorkerTypes
  <2>2. n'[r] = n[r]
    <3>1. table[center[cur[w]]] = cur[w] \/ table[center[cur[w]]] = 0
      BY <1>1 DEF HeldOK, Holding
    <3> QED BY <1>2, <1>3, <1>6, <3>1 DEF Return, AddReturn, states, TypeOK, SenderTypes
  <2> QED BY <1>3, <2>1, <2>2
<1> QED BY <1>5, <1>6

LEMMA KeepCounted ==
  ASSUME TypeOK, TableOK, HaveOK, NewOK, HeldOK, Counted, [Next]_vars
  PROVE  Counted'
<1>1. ASSUME NEW w \in Workers, Imported(w) PROVE Counted'
  BY <1>1, CountedExported
<1>2. ASSUME NEW w \in Workers, Return(w) PROVE Counted'
  BY <1>2, CountedReturn
<1>3. ASSUME NEW w \in Workers, Reconnected(w) PROVE Counted'
  <2>1. table[want[w]] \in InTable
    BY <1>3, InTableType DEF Reconnected, HaveOK, TypeOK, WorkerTypes
  <2> QED BY <1>3, <2>1, CountedBorrow DEF Reconnected, AddBorrow, Holding
<1>4. ASSUME NEW w \in Workers, Borrow(w), table[want[w]] # 0, flag[table[want[w]]]
      PROVE  Counted'
  <2>1. table[want[w]] \in InTable
    BY <1>4, InTableType DEF TypeOK, WorkerTypes
  <2> QED BY <1>4, <2>1, CountedBorrow DEF Borrow, AddBorrow, Holding, ghosts
<1>5. ASSUME NEW w \in Workers, w \notin Careful, SenderIsDead(w) \/ RequestFails(w)
      PROVE  Counted'
  BY <1>5, CountedLeave DEF SenderIsDead, RequestFails, GiveUp, senders, states
<1>6. ASSUME NEW w \in Workers, NEW d \in Centers, Migrate(w, d) PROVE Counted'
  BY <1>6, CountedLeave DEF Migrate, senders, states
<1>7. CASE /\ n' = n /\ left' = left /\ \A w \in Workers : ~Imported(w)
           /\ \A s \in InTable : Holders(s)' = Holders(s)
  BY <1>7, InTableStep DEF Counted
<1>8. ASSUME NEW w \in Workers, w \in Careful, SenderIsDead(w) \/ RequestFails(w)
      PROVE  Counted'
  <2>1. n' = n /\ left' = left /\ InTable' = InTable /\ \A s : Holders(s)' = Holders(s)
    BY <1>8 DEF SenderIsDead, RequestFails, GiveUp, senders, states, InTable, Holders,
       TypeOK, WorkerTypes
  <2> QED BY <2>1 DEF Counted
<1>9. ASSUME NEW w \in Workers, Borrow(w), table[want[w]] = 0 \/ ~flag[table[want[w]]]
      PROVE  Counted'
  <2>1. n' = n /\ left' = left /\ InTable' = InTable /\ \A s : Holders(s)' = Holders(s)
    BY <1>9 DEF Borrow, ghosts, states, InTable, Holders, TypeOK, WorkerTypes
  <2> QED BY <2>1 DEF Counted
<1>10. CASE \A w \in Workers :
              /\ ~Imported(w) /\ ~Return(w) /\ ~Reconnected(w) /\ ~Borrow(w)
              /\ ~SenderIsDead(w) /\ ~RequestFails(w) /\ \A d \in Centers : ~Migrate(w, d)
  <2>1. n' = n /\ left' = left
    BY <1>10, CountFrame, LeftFrame
  <2>2. ASSUME NEW w \in Workers
        PROVE  (Holding(w)' <=> Holding(w)) /\ (Holding(w) => cur'[w] = cur[w])
    <3>1. CASE ~Working(w)
      BY <3>1, WorkerFrame DEF Holding
    <3>2. CASE Working(w)
      BY <1>10, <3>2 DEF Holding, Working, Borrowing, Using, Ask, Created, Sent, Exported,
         ExportCancelled, BorrowFails, Raise, Finish, TypeOK, WorkerTypes
    <3> QED BY <3>1, <3>2
  <2>3. ASSUME NEW s PROVE Holders(s)' = Holders(s)
    <3>1. \A w \in Workers : w \in Holders(s)' <=> w \in Holders(s)
      BY <2>2 DEF Holders, Holding
    <3> QED BY <3>1 DEF Holders
  <2> QED BY <1>7, <1>10, <2>1, <2>3
<1> QED
  BY <1>1, <1>2, <1>3, <1>4, <1>5, <1>6, <1>8, <1>9, <1>10

LEMMA KeepNotPulled ==
  ASSUME TypeOK, HaveOK, NewOK, FlagOK, CleanOK, Counted, NotPulled, [Next]_vars
  PROVE  NotPulled'
<1> SUFFICES ASSUME NEW x \in Workers, pc'[x] = "use", cur'[x] \notin spoiled'
             PROVE  live'[cur'[x]]
  BY DEF NotPulled
<1>1. CASE Borrow(x)
  <2>1. /\ cur'[x] = table[want[x]] /\ flag[table[want[x]]]
        /\ want[x] \in Centers /\ table[want[x]] # 0
        /\ live' = live /\ spoiled' = spoiled
    BY <1>1 DEF Borrow, ghosts, TypeOK, WorkerTypes
  <2> QED BY <2>1, InTableType DEF FlagOK
<1>2. CASE Imported(x)
  BY <1>2 DEF Imported, NewOK, Waiting
<1>3. CASE Reconnected(x)
  BY <1>3, InTableType DEF Reconnected, HaveOK, TypeOK, WorkerTypes, FlagTypes
<1>4. CASE ~Borrow(x) /\ ~Imported(x) /\ ~Reconnected(x)
  <2>1. pc[x] = "use" /\ cur'[x] = cur[x]
    <3>1. CASE Working(x)
      BY <1>4, <3>1 DEF Working, Borrowing, Using, Ask, Created, Sent, Exported, ExportCancelled,
         BorrowFails, Raise, Migrate, Finish, SenderIsDead, RequestFails, GiveUp, Return,
         TypeOK, WorkerTypes
    <3>2. CASE ~Working(x)
      BY <3>2, WorkerFrame
    <3> QED BY <3>1, <3>2
  <2>2. cur[x] \in Senders
    BY <2>1, InTableType DEF HaveOK, Holding, TypeOK, WorkerTypes
  <2>3. ASSUME NEW w \in Workers, Reconnected(w)
        PROVE  live'[cur[x]]
    <3>1. CASE cur[x] = table[want[w]]
      BY <2>2, <2>3, <3>1 DEF Reconnected, TypeOK, FlagTypes
    <3>2. CASE cur[x] # table[want[w]]
      BY <2>1, <2>2, <2>3, <3>2 DEF Reconnected, NotPulled, TypeOK, FlagTypes
    <3> QED BY <3>1, <3>2
  <2>4. CASE MarkDisconnected
    <3>1. closing \in InTable /\ n[closing] = 0
      BY <2>4 DEF MarkDisconnected, CleanOK
    <3>2. left[closing] \in Nat
      BY <3>1, InTableType DEF TypeOK, SenderTypes
    <3>3. Cardinality(Holders(closing)) = 0
      BY <3>1, <3>2, HoldersType DEF Counted
    <3>4. Holders(closing) = {}
      BY <3>3, HoldersType, FS_EmptySet
    <3>5. cur[x] # closing
      BY <2>1, <3>4 DEF Holders
    <3> QED
      BY <2>1, <2>2, <2>4, <3>5 DEF MarkDisconnected, ghosts, NotPulled, TypeOK, FlagTypes
  <2>5. CASE Disconnect \/ SwitchDC
    BY <2>1, <2>2, <2>5 DEF Disconnect, SwitchDC, DisconnectMain, NotPulled, TypeOK,
       FlagTypes
  <2>6. ASSUME NEW r \in Senders, Close(r)
        PROVE  live'[cur[x]]
    BY <2>1, <2>2, <2>6 DEF Close, NotPulled, TypeOK, FlagTypes
  <2>7. ASSUME NEW w \in Workers, Created(w)
        PROVE  live'[cur[x]]
    BY <2>1, <2>2, <2>7 DEF Created, ghosts, NotPulled, TypeOK, FlagTypes
  <2> QED
    BY <2>1, <2>3, <2>4, <2>5, <2>6, <2>7, LiveFrame DEF NotPulled
<1> QED BY <1>1, <1>2, <1>3, <1>4

-----------------------------------------------------------------------------
(* The theorems.                                                           *)

Base == TypeOK /\ TableOK /\ FreshOK /\ HaveOK /\ NewOK /\ FlagOK /\ CleanOK /\ DownOK /\ LiveOK

LEMMA InitBase == Init => Base
<1> SUFFICES ASSUME Init PROVE Base
  OBVIOUS
<1>1. TypeOK
  BY InitTypeOK
<1>2. InTable = {}
  BY DEF Init, InTable
<1> QED
  BY <1>1, <1>2 DEF Init, Base, TableOK, FreshOK, HaveOK, NewOK, Making, Waiting, Holding,
     FlagOK, CleanOK, DownOK, LiveOK

LEMMA StepBase == Base /\ [Next]_vars => Base'
BY StepTypeOK, KeepTable, KeepFresh, KeepHave, KeepNew, KeepFlag, KeepClean, KeepDown,
   KeepLive
   DEF Base

(* disconnect() leaves no connection open: not one that was being opened,  *)
(* reconnected or cleaned up when it began, whoever borrows and however    *)
(* often the client connects; but for senders whose authorization failed.  *)
THEOREM Closed == Spec => []AllClosed
<1>1. Base => AllClosed
  <2> SUFFICES ASSUME Base, main = "off", user = "off", \A w \in Workers : pc[w] = "off",
                      NEW s \in Senders, live[s]
               PROVE  s \in orphans
    BY DEF AllClosed
  <2>1. InTable = {}
    BY DEF Base, DownOK, InTable
  <2> QED BY <2>1 DEF Base, LiveOK, Waiting
<1> QED BY <1>1, InitBase, StepBase, PTL DEF Spec

Borrowed == Base /\ HeldOK /\ Counted /\ NotPulled

LEMMA InitBorrowed == Init => Borrowed
BY InitBase DEF Init, Borrowed, HeldOK, Holding, Counted, InTable, NotPulled

LEMMA StepBorrowed ==
  ASSUME Patient
  PROVE  Borrowed /\ [Next]_vars => Borrowed'
BY StepBase, KeepHeld, KeepCounted, KeepNotPulled DEF Borrowed, Base

(* The count of a state is the number of its borrows that are not          *)
(* returned, if the user connects only when no task is borrowing. *)
THEOREM CountsAreRight ==
  ASSUME Patient
  PROVE  Spec => []Counted
<1>1. Borrowed => Counted
  BY DEF Borrowed
<1>2. Borrowed /\ [Next]_vars => Borrowed'
  BY StepBorrowed
<1> QED BY <1>1, <1>2, InitBorrowed, PTL DEF Spec

(* No sender is cleaned up under a borrower, if the user connects only     *)
(* when no task is borrowing. *)
THEOREM NonePulled ==
  ASSUME Patient
  PROVE  Spec => []NotPulled
<1>1. Borrowed => NotPulled
  BY DEF Borrowed
<1>2. Borrowed /\ [Next]_vars => Borrowed'
  BY StepBorrowed
<1> QED BY <1>1, <1>2, InitBorrowed, PTL DEF Spec
=============================================================================
