-------------------------- MODULE MessageBoxChain --------------------------
(***************************************************************************)
(* No position is skipped, none is handed over twice, no stashed update is *)
(* dropped before its time, and no seq is taken over while an update of    *)
(* its container is missing: proofs about MessageBox for any number of     *)
(* channels, updates, reorderings, failures and reloads.                   *)
(***************************************************************************)
EXTENDS MessageBoxProofs

(* The pts an entry begins with at the server. *)
Start(e) == IF e = Secret THEN 0 ELSE 1

(* The updates of an entry follow each other without a hole, and those     *)
(* with different positions do not overlap.                                *)
Tiled ==
  \A e \in Entries :
    /\ \A u \in log[e] : u.pts <= spts[e]
    /\ \A x \in (Start(e) + 1)..spts[e] : \E u \in log[e] : x \in Cover(u)
    /\ \A u, v \in log[e] :
         u # v => u.pts <= v.pts - v.count \/ v.pts <= u.pts - u.count

(* From b to m everything was handed over, passed or jumped. *)
Links(b, m, H, P, J) ==
  /\ b \in Nat /\ m \in Nat /\ b <= m
  /\ (b + 1)..m = H \cup P \cup J
  /\ H \cap (P \cup J) = {}

Linked ==
  \A e \in Known : /\ Links(base[e], map[e], handed[e], passed[e], jumped[e])
                   /\ Start(e) <= map[e]

(* A request in flight is about the pts that the box still has. *)
ReqCurrent ==
  pc = "wait" => /\ req.pts = map[req.entry]
                 /\ req.entry = Account => req.qts = map[Secret]

(* What the session holds is a pts its channel had. *)
RowsStarted == \A c \in Channels : rows[c] # Unknown => Start(c) <= rows[c]

ChainInv == TypeOK /\ Tiled /\ Linked /\ NoneTwice /\ ReqCurrent /\ RowsStarted

LEMMA InitChain == Init => ChainInv
<1> SUFFICES ASSUME Init PROVE ChainInv
  OBVIOUS
<1>1. TypeOK
  BY InitType
<1>2. Tiled
  BY DEF Init, Tiled, Start
<1>3. Linked
  <2>1. ASSUME NEW e \in Known
        PROVE  /\ base[e] = 1 /\ map[e] = 1
               /\ handed[e] = {} /\ passed[e] = {} /\ jumped[e] = {}
    BY DEF Init, Known, Entries
  <2> QED BY <2>1 DEF Linked, Links, Start
<1>4. NoneTwice /\ ReqCurrent
  BY DEF Init, NoneTwice, ReqCurrent
<1>5. RowsStarted
  <2>1. \A c \in Channels : rows[c] # Unknown => c \in Known /\ rows[c] = map[c]
    BY DEF Init, Known, Entries
  <2> QED BY <1>3, <2>1 DEF Linked, RowsStarted
<1> QED BY <1>1, <1>2, <1>3, <1>4, <1>5 DEF ChainInv

-----------------------------------------------------------------------------
(* The server.                                                             *)

LEMMA EmitTiled ==
  ASSUME TypeOK, Tiled, Emit
  PROVE  Tiled'
<1>0. PICK e \in Talking, k \in Kinds :
        \E n \in IF k = "msg" THEN {1} ELSE Counts :
          LET u == [kind |-> k, entry |-> e, pts |-> spts[e] + n, count |-> n]
          IN  /\ u.pts \in 1..MaxPts
              /\ e = Secret => n = 1
              /\ u \notin log[e]
              /\ log' = [log EXCEPT ![e] = @ \cup {u}]
              /\ spts' = [spts EXCEPT ![e] = u.pts]
  BY DEF Emit
<1>1. PICK n \in IF k = "msg" THEN {1} ELSE Counts :
        LET u == [kind |-> k, entry |-> e, pts |-> spts[e] + n, count |-> n]
        IN  /\ log' = [log EXCEPT ![e] = @ \cup {u}]
            /\ spts' = [spts EXCEPT ![e] = u.pts]
  BY <1>0, Zenon
<1> DEFINE u == [kind |-> k, entry |-> e, pts |-> spts[e] + n, count |-> n]
<1>2. e \in Entries /\ n \in Nat /\ spts[e] \in Nat
  BY BoundsAssumption DEF TypeOK
<1>3. u.pts = spts[e] + n /\ u.count = n /\ Cover(u) = (spts[e] + 1)..(spts[e] + n)
  BY <1>2 DEF Cover
<1> HIDE DEF u
<1>4. log'[e] = log[e] \cup {u} /\ spts'[e] = spts[e] + n
  BY <1>1, <1>2, <1>3 DEF TypeOK, u
<1>5. \A f \in Entries \ {e} : log'[f] = log[f] /\ spts'[f] = spts[f]
  BY <1>1 DEF TypeOK
<1>6. \A v \in log[e] : v.pts \in Nat /\ v.count \in Nat /\ v.pts <= spts[e]
  BY <1>2 DEF Tiled, TypeOK, PtsUpdate
<1>7. Start(e) \in Nat
  BY DEF Start
<1>8. \A v \in log'[e] : v.pts <= spts'[e]
  BY <1>2, <1>3, <1>4, <1>6
<1>9. \A x \in (Start(e) + 1)..spts'[e] : \E v \in log'[e] : x \in Cover(v)
  <2>1. TAKE x \in (Start(e) + 1)..spts'[e]
  <2>2. CASE x <= spts[e]
    BY <1>2, <1>4, <1>7, <2>2 DEF Tiled
  <2>3. CASE ~(x <= spts[e])
    BY <1>2, <1>3, <1>4, <1>7, <2>3
  <2> QED BY <2>2, <2>3
<1>10. \A v, w \in log'[e] :
         v # w => v.pts <= w.pts - w.count \/ w.pts <= v.pts - v.count
  <2>1. TAKE v, w \in log'[e]
  <2>2. CASE v \in log[e] /\ w \in log[e]
    BY <1>2, <2>2 DEF Tiled
  <2>3. CASE v = u /\ w \in log[e]
    BY <1>2, <1>3, <1>6, <2>3
  <2>4. CASE v \in log[e] /\ w = u
    BY <1>2, <1>3, <1>6, <2>4
  <2> QED BY <1>4, <2>2, <2>3, <2>4
<1> QED BY <1>5, <1>8, <1>9, <1>10 DEF Tiled, Start

LEMMA TiledStep ==
  ASSUME TypeOK, Tiled, [Next]_vars
  PROVE  Tiled'
<1>1. CASE Emit
  BY <1>1, EmitTiled
<1>2. CASE UNCHANGED server
  BY <1>2 DEF server, Tiled
<1>3. Loop => UNCHANGED server
  BY DEF Loop, ApplyNew, EndOfPass, RetryGap, EndOfRetry, CheckDeadlines, GetDifference,
     EndDifference, GetChannelDifference, GiveUpChannel, EndChannel
<1>4. ASSUME NEW final PROVE ApplyDifference(final) \/ ApplyChannel(final) => UNCHANGED server
  BY DEF ApplyDifference, ApplyChannel
<1>5. Reply => UNCHANGED server
  BY <1>4 DEF Reply, ApplyDifferenceEmpty, ApplyDifferenceTooLong, ApplyChannelEmpty,
     ApplyChannelTooLong
<1>6. FailDifference \/ FailChannel \/ Receive \/ ReceiveGap \/ TrySetChannelState \/ Load
        \/ Save \/ Reconnect \/ Tick \/ UNCHANGED vars => UNCHANGED server
  BY DEF FailDifference, FailChannel, Receive, ReceiveGap, TrySetChannelState, Load, Save,
     Reconnect, Tick, vars
<1> QED BY <1>1, <1>2, <1>3, <1>4, <1>5, <1>6 DEF Next

(* A difference from lo to hi accounts for every position between, once.   *)
LEMMA Difference ==
  ASSUME TypeOK, Tiled, NEW e \in Entries, NEW lo \in Nat, Start(e) <= lo,
         NEW n, NEW hi \in Boundaries(e, lo, n)
  PROVE  /\ hi \in Nat /\ lo <= hi
         /\ Positions(e, "msg", lo, hi) \cup Positions(e, "other", lo, hi) = (lo + 1)..hi
         /\ Positions(e, "msg", lo, hi) \cap Positions(e, "other", lo, hi) = {}
<1>1. hi \in Nat /\ lo <= hi
  BY BoundaryType
<1>2. \A u \in log[e] : /\ u.pts \in Nat /\ u.count \in Nat /\ u.count <= u.pts
                        /\ u.kind \in {"msg", "other"} /\ u.pts <= spts[e]
  BY DEF TypeOK, PtsUpdate, Tiled
<1>3. spts[e] \in Nat /\ Start(e) \in Nat
  BY DEF TypeOK, Start
<1>4. ASSUME NEW x \in (lo + 1)..hi
      PROVE  \E u \in log[e] : u.kind \in {"msg", "other"} /\ x \in Cover(u)
  <2>1. hi = lo \/ hi <= spts[e]
    BY <1>2 DEF Boundaries
  <2>2. x \in (Start(e) + 1)..spts[e]
    BY <1>1, <1>3, <2>1
  <2> QED BY <1>2, <2>2 DEF Tiled
<1>5. ASSUME NEW x, NEW u \in log[e], NEW v \in log[e], x \in Cover(u), x \in Cover(v)
      PROVE  u = v
  <2>1. SUFFICES ASSUME u # v PROVE FALSE
    OBVIOUS
  <2>2. x \in Int /\ x <= u.pts /\ x > u.pts - u.count /\ x <= v.pts /\ x > v.pts - v.count
    BY <1>2, <1>5 DEF Cover
  <2>3. u.pts <= v.pts - v.count \/ v.pts <= u.pts - u.count
    BY <2>1 DEF Tiled
  <2> QED BY <1>2, <2>2, <2>3
<1>6. Positions(e, "msg", lo, hi) \cup Positions(e, "other", lo, hi) = (lo + 1)..hi
  BY <1>4 DEF Positions
<1>7. Positions(e, "msg", lo, hi) \cap Positions(e, "other", lo, hi) = {}
  BY <1>5 DEF Positions
<1> QED BY <1>1, <1>6, <1>7

-----------------------------------------------------------------------------
(* The box.                                                                *)

(* M is handed over, O passed and L jumped from m to p. *)
Adds(m, p, M, O, L) ==
  /\ p \in Nat /\ m <= p
  /\ M \cup O \cup L = (m + 1)..p
  /\ M \cap (O \cup L) = {}

(* The chain goes on from m to p. *)
LEMMA Extend ==
  ASSUME NEW b, NEW m, NEW H, NEW P, NEW J, Links(b, m, H, P, J),
         NEW p, NEW M, NEW O, NEW L, Adds(m, p, M, O, L)
  PROVE  Links(b, p, H \cup M, P \cup O, J \cup L) /\ M \cap H = {}
<1> USE DEF Adds
<1>1. b \in Nat /\ m \in Nat /\ b <= m
  BY DEF Links
<1>2. (b + 1)..p = ((b + 1)..m) \cup ((m + 1)..p)
  BY <1>1
<1>3. ((b + 1)..m) \cap ((m + 1)..p) = {}
  BY <1>1
<1>4. H \cup P \cup J = (b + 1)..m /\ H \cap (P \cup J) = {}
  BY DEF Links
<1>5. (b + 1)..p = (H \cup M) \cup (P \cup O) \cup (J \cup L)
  BY <1>2, <1>4
<1>6. (H \cup M) \cap ((P \cup O) \cup (J \cup L)) = {} /\ M \cap H = {}
  BY <1>3, <1>4
<1> QED BY <1>1, <1>5, <1>6 DEF Links

(* A chain begins. *)
LEMMA Begins ==
  ASSUME NEW b \in Nat
  PROVE  Links(b, b, {}, {}, {})
BY DEF Links

(* One entry changes. *)
LEMMA OneChanges ==
  ASSUME Linked, NEW e \in Entries,
         \A f \in Entries \ {e} :
           /\ map'[f] = map[f] /\ base'[f] = base[f] /\ handed'[f] = handed[f]
           /\ passed'[f] = passed[f] /\ jumped'[f] = jumped[f],
         \/ map'[e] = Unknown
         \/ /\ Links(base'[e], map'[e], handed'[e], passed'[e], jumped'[e])
            /\ Start(e) <= map'[e]
  PROVE  Linked'
<1>1. ASSUME NEW f \in Known', f # e
      PROVE  /\ Links(base'[f], map'[f], handed'[f], passed'[f], jumped'[f])
             /\ Start(f) <= map'[f]
  <2>1. f \in Known
    BY <1>1 DEF Known
  <2> QED BY <1>1, <2>1 DEF Linked, Known
<1>2. e \in Known' => map'[e] # Unknown
  BY DEF Known
<1> QED BY <1>1, <1>2 DEF Linked, Start, Links

LEMMA NothingChanges ==
  ASSUME Linked, NoneTwice, UNCHANGED <<map, ghosts>>
  PROVE  Linked' /\ NoneTwice'
BY DEF Linked, NoneTwice, ghosts, Known, Links, Start

LEMMA ApplyPtsInfoLinked ==
  ASSUME TypeOK, Linked, NoneTwice, NEW u \in PtsUpdate, NEW rest, ApplyPtsInfo(u, rest)
  PROVE  Linked' /\ NoneTwice'
<1> DEFINE e == u.entry
<1>0. /\ e \in Entries /\ u.pts \in Nat /\ u.pts > 0 /\ u.count \in Nat /\ u.count <= u.pts
      /\ FirstPts(u) \in Nat /\ Cover(u) \subseteq Nat
  BY CoverType DEF PtsUpdate
<1>1. CASE UNCHANGED <<map, ghosts>>
  BY <1>1, NothingChanges
<1>2. CASE Fits(u) /\ Apply(u)
  <2>1. e \in Known /\ map[e] + u.count = u.pts /\ map[e] \in Nat
    BY <1>2 DEF Fits, Known, TypeOK
  <2>2. /\ map' = [map EXCEPT ![e] = u.pts]
        /\ handed' = [handed EXCEPT ![e] = @ \cup Cover(u)]
        /\ twice' = (twice \/ Cover(u) \cap handed[e] # {})
        /\ UNCHANGED <<base, passed, jumped>>
    BY <1>2 DEF Apply, Hand
  <2>3. Cover(u) = (map[e] + 1)..u.pts
    BY <1>0, <2>1 DEF Cover
  <2>4. Links(base[e], map[e], handed[e], passed[e], jumped[e]) /\ Start(e) <= map[e]
    BY <2>1 DEF Linked
  <2>5. /\ Links(base[e], u.pts, handed[e] \cup Cover(u), passed[e] \cup {}, jumped[e] \cup {})
        /\ Cover(u) \cap handed[e] = {}
    <3>1. Adds(map[e], u.pts, Cover(u), {}, {})
      BY <1>0, <2>1, <2>3 DEF Adds
    <3>2. Links(base[e], map[e], handed[e], passed[e], jumped[e])
      BY <2>4
    <3> HIDE DEF e
    <3> QED BY <3>1, <3>2, Extend
  <2>6. /\ map'[e] = u.pts /\ handed'[e] = handed[e] \cup Cover(u)
        /\ base'[e] = base[e] /\ passed'[e] = passed[e] \cup {} /\ jumped'[e] = jumped[e] \cup {}
    BY <1>0, <2>2 DEF TypeOK
  <2>7. Start(e) <= u.pts
    BY <1>0, <2>1, <2>4 DEF Start
  <2>8. Linked'
    <3>1. \A f \in Entries \ {e} :
            /\ map'[f] = map[f] /\ base'[f] = base[f] /\ handed'[f] = handed[f]
            /\ passed'[f] = passed[f] /\ jumped'[f] = jumped[f]
      BY <2>2 DEF TypeOK
    <3> HIDE DEF e
    <3> QED BY <1>0, <2>5, <2>6, <2>7, <3>1, OneChanges
  <2> QED BY <2>2, <2>5, <2>8 DEF NoneTwice
<1>3. CASE First(u) /\ Begin(u)
  <2>1. /\ map' = [map EXCEPT ![e] = FirstPts(u)]
        /\ base' = [base EXCEPT ![e] = FirstPts(u) - u.count]
        /\ handed' = [handed EXCEPT ![e] = Cover(u)]
        /\ passed' = [passed EXCEPT ![e] = {}]
        /\ jumped' = [jumped EXCEPT ![e] = {}]
        /\ UNCHANGED twice
    BY <1>3 DEF Begin, Track
  <2>2. /\ map'[e] = FirstPts(u) /\ base'[e] = FirstPts(u) - u.count
        /\ handed'[e] = Cover(u) /\ passed'[e] = {} /\ jumped'[e] = {}
    BY <1>0, <2>1 DEF TypeOK
  <2>3. /\ FirstPts(u) - u.count \in Nat
        /\ (FirstPts(u) - u.count + 1)..FirstPts(u) = Cover(u)
        /\ FirstPts(u) >= 1
    BY <1>0 DEF FirstPts, Cover
  <2>4. Links(base'[e], map'[e], handed'[e], passed'[e], jumped'[e])
    BY <1>0, <2>2, <2>3 DEF Links
  <2>5. Start(e) <= map'[e]
    BY <1>0, <2>2, <2>3 DEF Start
  <2>6. \A f \in Entries \ {e} :
          /\ map'[f] = map[f] /\ base'[f] = base[f] /\ handed'[f] = handed[f]
          /\ passed'[f] = passed[f] /\ jumped'[f] = jumped[f]
    BY <2>1 DEF TypeOK
  <2> HIDE DEF e
  <2> QED BY <1>0, <2>1, <2>4, <2>5, <2>6, OneChanges DEF NoneTwice
<1> QED BY <1>1, <1>2, <1>3 DEF ApplyPtsInfo

LEMMA LoopLinked ==
  ASSUME TypeOK, Linked, NoneTwice, ApplyNew \/ RetryGap
  PROVE  Linked' /\ NoneTwice'
<1>1. CASE ApplyNew
  <2>1. PICK u \in todo :
          \/ UNCHANGED <<map, ghosts>>
          \/ HasPts(u) /\ ApplyPtsInfo(u, gaps)
    BY <1>1 DEF ApplyNew
  <2>2. HasPts(u) => u \in PtsUpdate
    BY DEF TypeOK, Update, HasPts, TooLongMark, Plain
  <2> QED BY <2>1, <2>2, NothingChanges, ApplyPtsInfoLinked
<1>2. CASE RetryGap
  <2>1. PICK u \in todo : ApplyPtsInfo(u, [gaps EXCEPT ![u.entry] = @ \ {u}])
    BY <1>2 DEF RetryGap
  <2>2. u \in PtsUpdate
    BY <1>2 DEF RetryGap, TypeOK
  <2> QED BY <2>1, <2>2, ApplyPtsInfoLinked
<1> QED BY <1>1, <1>2

-----------------------------------------------------------------------------
(* The account difference.                                                 *)

LEMMA AwaitingAccount ==
  ASSUME TypeOK, Linked, ReqCurrent, AwaitingDifference
  PROVE  /\ req.pts \in Nat /\ req.pts = map[Account] /\ req.qts = map[Secret]
         /\ Account \in Known /\ Start(Account) <= req.pts
         /\ ReqQts \in Nat /\ Start(Secret) <= ReqQts
         /\ Links(base[Account], req.pts, handed[Account], passed[Account], jumped[Account])
         /\ req.qts # Unknown =>
              /\ ReqQts = map[Secret]
              /\ Links(base[Secret], ReqQts, handed[Secret], passed[Secret], jumped[Secret])
<1>1. req.pts = map[Account] /\ req.qts = map[Secret] /\ req.pts \in Nat
  BY DEF ReqCurrent, AwaitingDifference, TypeOK
<1>2. Account \in Known
  BY <1>1 DEF Known, Entries, Unknown
<1>3. ReqQts \in Nat /\ Start(Secret) <= ReqQts
  BY DEF ReqQts, TypeOK, Start
<1>4. req.qts # Unknown => Secret \in Known /\ ReqQts = map[Secret]
  BY <1>1 DEF Known, Entries, ReqQts
<1> QED BY <1>1, <1>2, <1>3, <1>4 DEF Linked

LEMMA SetStateLinked ==
  ASSUME TypeOK, Linked, NoneTwice, Tiled, ReqCurrent, AwaitingDifference,
         NEW a, NEW b, NEW p \in Boundaries(Account, req.pts, a),
         NEW q \in Boundaries(Secret, ReqQts, b), NEW s, SetState(p, q, s)
  PROVE  Linked' /\ NoneTwice'
<1> DEFINE m == Positions(Account, "msg", req.pts, p)
           n == Positions(Secret, "msg", ReqQts, q)
           o == Positions(Account, "other", req.pts, p)
           r == Positions(Secret, "other", ReqQts, q)
<1>0. Account \in Entries /\ Secret \in Entries /\ Account # Secret
  BY EntriesAssumption DEF Entries
<1>1. /\ req.pts \in Nat /\ Start(Account) <= req.pts
      /\ ReqQts \in Nat /\ Start(Secret) <= ReqQts
      /\ Links(base[Account], req.pts, handed[Account], passed[Account], jumped[Account])
      /\ req.qts # Unknown =>
           Links(base[Secret], ReqQts, handed[Secret], passed[Secret], jumped[Secret])
  BY AwaitingAccount
<1>2. Adds(req.pts, p, m, o, {}) /\ p \in Nat /\ req.pts <= p
  <2>1. p \in Nat /\ req.pts <= p /\ m \cup o = (req.pts + 1)..p /\ m \cap o = {}
    BY <1>0, <1>1, Difference
  <2> QED BY <2>1 DEF Adds
<1>3. Adds(ReqQts, q, n, r, {}) /\ q \in Nat /\ ReqQts <= q
  <2>1. q \in Nat /\ ReqQts <= q /\ n \cup r = (ReqQts + 1)..q /\ n \cap r = {}
    BY <1>0, <1>1, Difference
  <2> QED BY <2>1 DEF Adds
<1>4. /\ map' = [map EXCEPT ![Account] = p, ![Secret] = q]
      /\ \/ /\ req.qts = Unknown
            /\ base' = [base EXCEPT ![Secret] = 0]
            /\ handed' = [handed EXCEPT ![Account] = @ \cup m, ![Secret] = n]
            /\ passed' = [passed EXCEPT ![Account] = @ \cup o, ![Secret] = r]
            /\ jumped' = [jumped EXCEPT ![Secret] = {}]
            /\ twice' = (twice \/ m \cap handed[Account] # {})
         \/ /\ req.qts # Unknown
            /\ handed' = [handed EXCEPT ![Account] = @ \cup m, ![Secret] = @ \cup n]
            /\ passed' = [passed EXCEPT ![Account] = @ \cup o, ![Secret] = @ \cup r]
            /\ twice' = (twice \/ m \cap handed[Account] # {} \/ n \cap handed[Secret] # {})
            /\ UNCHANGED <<base, jumped>>
  BY DEF SetState
<1>5. ReqQts = 0 \/ req.qts # Unknown
  BY DEF ReqQts
<1> HIDE DEF m, n, o, r
<1>6. /\ Links(base[Account], p, handed[Account] \cup m, passed[Account] \cup o, jumped[Account] \cup {})
      /\ m \cap handed[Account] = {}
  BY <1>1, <1>2, Extend
<1>7. map'[Account] = p /\ map'[Secret] = q
  BY <1>0, <1>4 DEF TypeOK
<1>8. /\ base'[Account] = base[Account] /\ handed'[Account] = handed[Account] \cup m
      /\ passed'[Account] = passed[Account] \cup o /\ jumped'[Account] = jumped[Account] \cup {}
  BY <1>0, <1>4 DEF TypeOK
<1>9. Links(base'[Account], map'[Account], handed'[Account], passed'[Account], jumped'[Account])
  BY <1>6, <1>7, <1>8
<1>10. /\ Links(base'[Secret], map'[Secret], handed'[Secret], passed'[Secret], jumped'[Secret])
       /\ NoneTwice'
  <2>1. CASE req.qts = Unknown
    <3>1. /\ base'[Secret] = 0 /\ handed'[Secret] = n /\ passed'[Secret] = r
          /\ jumped'[Secret] = {} /\ twice' = (twice \/ m \cap handed[Account] # {})
      BY <1>0, <1>4, <2>1 DEF TypeOK
    <3>2. Links(0, q, n, r, {})
      BY <1>3, <1>5, <2>1 DEF Adds, Links
    <3> QED BY <1>6, <1>7, <3>1, <3>2 DEF NoneTwice
  <2>2. CASE req.qts # Unknown
    <3>1. /\ Links(base[Secret], q, handed[Secret] \cup n, passed[Secret] \cup r, jumped[Secret] \cup {})
          /\ n \cap handed[Secret] = {}
      BY <1>1, <1>3, <2>2, Extend
    <3>2. /\ base'[Secret] = base[Secret] /\ handed'[Secret] = handed[Secret] \cup n
          /\ passed'[Secret] = passed[Secret] \cup r /\ jumped'[Secret] = jumped[Secret] \cup {}
          /\ twice' = (twice \/ m \cap handed[Account] # {} \/ n \cap handed[Secret] # {})
      BY <1>0, <1>4, <2>2 DEF TypeOK
    <3> QED BY <1>6, <1>7, <3>1, <3>2 DEF NoneTwice
  <2> QED BY <2>1, <2>2
<1>11. ASSUME NEW f \in Entries \ {Account, Secret}
       PROVE  /\ map'[f] = map[f] /\ base'[f] = base[f] /\ handed'[f] = handed[f]
              /\ passed'[f] = passed[f] /\ jumped'[f] = jumped[f]
  BY <1>4 DEF TypeOK
<1>12. Start(Account) <= p /\ Start(Secret) <= q
  BY <1>1, <1>2, <1>3 DEF Start
<1>13. ASSUME NEW f \in Known'
       PROVE  /\ Links(base'[f], map'[f], handed'[f], passed'[f], jumped'[f])
              /\ Start(f) <= map'[f]
  <2>1. CASE f \in {Account, Secret}
    BY <1>7, <1>9, <1>10, <1>12, <2>1
  <2>2. CASE f \notin {Account, Secret}
    <3>1. f \in Known /\ f \in Entries \ {Account, Secret}
      BY <1>11, <2>2 DEF Known
    <3> QED BY <1>11, <3>1 DEF Linked
  <2> QED BY <2>1, <2>2
<1> QED BY <1>10, <1>13 DEF Linked, Start, Links

LEMMA DifferenceLinked ==
  ASSUME TypeOK, Linked, NoneTwice, Tiled, ReqCurrent,
         \/ \E final \in BOOLEAN : ApplyDifference(final)
         \/ ApplyDifferenceEmpty
         \/ ApplyDifferenceTooLong
  PROVE  Linked' /\ NoneTwice'
<1>1. ASSUME NEW final \in BOOLEAN, ApplyDifference(final) PROVE Linked' /\ NoneTwice'
  <2>1. PICK p \in Boundaries(Account, req.pts, IF final THEN req.spts ELSE 0),
             q \in Boundaries(Secret, ReqQts, IF final THEN req.sqts ELSE 0) :
          \E s \in seq..MaxSeq : SetState(p, q, s)
    BY <1>1 DEF ApplyDifference
  <2> QED BY <1>1, <2>1, SetStateLinked DEF ApplyDifference
<1>2. CASE ApplyDifferenceEmpty
  BY <1>2, NothingChanges DEF ApplyDifferenceEmpty
<1>3. CASE ApplyDifferenceTooLong
  <2>1. PICK p \in Boundaries(Account, req.pts, req.spts) :
          /\ map' = [map EXCEPT ![Account] = p]
          /\ jumped' = [jumped EXCEPT ![Account] = @ \cup (req.pts + 1)..p]
    BY <1>3 DEF ApplyDifferenceTooLong
  <2>2. AwaitingDifference /\ UNCHANGED <<base, handed, passed, twice>>
    BY <1>3 DEF ApplyDifferenceTooLong
  <2>3. /\ req.pts \in Nat /\ Start(Account) <= req.pts
        /\ Links(base[Account], req.pts, handed[Account], passed[Account], jumped[Account])
    BY <2>2, AwaitingAccount
  <2>4. Account \in Entries
    BY DEF Entries
  <2>5. p \in Nat /\ req.pts <= p
    BY <2>3, <2>4, BoundaryType
  <2> DEFINE L == (req.pts + 1)..p
  <2>6. Adds(req.pts, p, {}, {}, L)
    BY <2>5 DEF Adds
  <2>7. /\ map'[Account] = p /\ jumped'[Account] = jumped[Account] \cup L
        /\ base'[Account] = base[Account] /\ handed'[Account] = handed[Account] \cup {}
        /\ passed'[Account] = passed[Account] \cup {}
    BY <2>1, <2>2, <2>4 DEF TypeOK
  <2>8. \A f \in Entries \ {Account} :
          /\ map'[f] = map[f] /\ base'[f] = base[f] /\ handed'[f] = handed[f]
          /\ passed'[f] = passed[f] /\ jumped'[f] = jumped[f]
    BY <2>1, <2>2 DEF TypeOK
  <2> HIDE DEF L
  <2>9. Links(base'[Account], map'[Account], handed'[Account], passed'[Account], jumped'[Account])
    BY <2>3, <2>6, <2>7, Extend
  <2>10. Start(Account) <= map'[Account]
    BY <2>3, <2>5, <2>7 DEF Start
  <2> QED BY <2>2, <2>4, <2>8, <2>9, <2>10, OneChanges DEF NoneTwice
<1> QED BY <1>1, <1>2, <1>3

-----------------------------------------------------------------------------
(* Channel differences, and what else touches the map.                     *)

LEMMA AwaitingChannelPts ==
  ASSUME TypeOK, Linked, ReqCurrent, AwaitingChannel, NEW c, c = req.entry
  PROVE  /\ c \in Entries /\ req.pts \in Nat /\ req.pts = map[c] /\ Start(c) <= req.pts
         /\ Links(base[c], req.pts, handed[c], passed[c], jumped[c])
<1>1. c \in Entries /\ req.pts = map[c] /\ req.pts \in Nat
  BY DEF AwaitingChannel, ReqCurrent, TypeOK
<1>2. c \in Known
  BY <1>1 DEF Known, Unknown
<1> QED BY <1>1, <1>2 DEF Linked

(* Forgetting an entry, or hearing of it. *)
LEMMA TrackLinked ==
  ASSUME TypeOK, Linked, NoneTwice, NEW c \in Entries, NEW m, NEW b,
         map' = [map EXCEPT ![c] = m], Track(c, b, {}),
         m = Unknown \/ (m \in Nat /\ b = m /\ Start(c) <= m)
  PROVE  Linked' /\ NoneTwice'
<1>1. /\ map'[c] = m /\ base'[c] = b /\ handed'[c] = {} /\ passed'[c] = {} /\ jumped'[c] = {}
      /\ twice' = twice
  BY DEF Track, TypeOK
<1>2. \A f \in Entries \ {c} :
        /\ map'[f] = map[f] /\ base'[f] = base[f] /\ handed'[f] = handed[f]
        /\ passed'[f] = passed[f] /\ jumped'[f] = jumped[f]
  BY DEF Track, TypeOK
<1>3. m # Unknown => Links(base'[c], map'[c], handed'[c], passed'[c], jumped'[c])
  BY <1>1, Begins
<1> QED BY <1>1, <1>2, <1>3, OneChanges DEF NoneTwice

LEMMA ForgetLinked ==
  ASSUME TypeOK, Linked, NoneTwice, ReqCurrent, GiveUpChannel \/ FailChannel
  PROVE  Linked' /\ NoneTwice'
<1>1. CASE UNCHANGED <<map, ghosts>>
  BY <1>1, NothingChanges
<1>2. ASSUME NEW c \in Entries, Evict(c) PROVE Linked' /\ NoneTwice'
  BY <1>2, TrackLinked DEF Evict
<1>3. CASE GiveUpChannel
  <2>1. PICK c \in NoHash : Evict(c) \/ Die
    BY <1>3 DEF GiveUpChannel
  <2> QED BY <1>1, <1>2, <2>1, EntriesAssumption DEF Die, box, Entries
<1>4. CASE FailChannel
  <2>1. UNCHANGED <<map, ghosts>> \/ Evict(req.entry)
    BY <1>4 DEF FailChannel, Die, box
  <2>2. req.entry \in Entries
    BY DEF TypeOK
  <2> QED BY <1>1, <1>2, <2>1, <2>2
<1> QED BY <1>3, <1>4

LEMMA ChannelLinked ==
  ASSUME TypeOK, Linked, NoneTwice, Tiled, ReqCurrent,
         \/ \E final \in BOOLEAN : ApplyChannel(final)
         \/ ApplyChannelEmpty
         \/ ApplyChannelTooLong
  PROVE  Linked' /\ NoneTwice'
<1> DEFINE c == req.entry
<1>0. /\ c \in Entries /\ req.pts \in Nat /\ req.pts = map[c] /\ Start(c) <= req.pts
      /\ Links(base[c], req.pts, handed[c], passed[c], jumped[c])
  BY AwaitingChannelPts DEF ApplyChannel, ApplyChannelEmpty, ApplyChannelTooLong
<1>1. CASE UNCHANGED <<map, ghosts>>
  BY <1>1, NothingChanges
<1>2. ASSUME NEW final \in BOOLEAN, ApplyChannel(final) PROVE Linked' /\ NoneTwice'
  <2>1. PICK p \in Boundaries(c, req.pts, IF final THEN req.spts ELSE 0) :
          \/ Die
          \/ /\ map' = [map EXCEPT ![c] = p]
             /\ Hand(c, Positions(c, "msg", req.pts, p))
             /\ passed' = [passed EXCEPT ![c] = @ \cup Positions(c, "other", req.pts, p)]
             /\ UNCHANGED <<base, jumped>>
    BY <1>2 DEF ApplyChannel
  <2>2. CASE Die
    BY <1>1, <2>2 DEF Die, box
  <2>3. CASE ~Die
    <3> DEFINE M == Positions(c, "msg", req.pts, p)
               O == Positions(c, "other", req.pts, p)
    <3>1. p \in Nat /\ req.pts <= p /\ M \cup O = (req.pts + 1)..p /\ M \cap O = {}
      BY <1>0, Difference
    <3>2. Adds(req.pts, p, M, O, {})
      BY <3>1 DEF Adds
    <3>3. /\ map' = [map EXCEPT ![c] = p]
          /\ handed' = [handed EXCEPT ![c] = @ \cup M]
          /\ twice' = (twice \/ M \cap handed[c] # {})
          /\ passed' = [passed EXCEPT ![c] = @ \cup O]
          /\ UNCHANGED <<base, jumped>>
      BY <2>1, <2>3 DEF Hand
    <3> HIDE DEF M, O, c
    <3>4. /\ map'[c] = p /\ handed'[c] = handed[c] \cup M /\ passed'[c] = passed[c] \cup O
          /\ base'[c] = base[c] /\ jumped'[c] = jumped[c] \cup {}
      BY <1>0, <3>3 DEF TypeOK
    <3>5. \A f \in Entries \ {c} :
            /\ map'[f] = map[f] /\ base'[f] = base[f] /\ handed'[f] = handed[f]
            /\ passed'[f] = passed[f] /\ jumped'[f] = jumped[f]
      BY <3>3 DEF TypeOK
    <3>6. /\ Links(base[c], p, handed[c] \cup M, passed[c] \cup O, jumped[c] \cup {})
          /\ M \cap handed[c] = {}
      BY <1>0, <3>2, Extend
    <3>7. Start(c) <= map'[c]
      BY <1>0, <3>1, <3>4 DEF Start
    <3> QED BY <1>0, <3>3, <3>4, <3>5, <3>6, <3>7, OneChanges DEF NoneTwice
  <2> QED BY <2>2, <2>3
<1>3. CASE ApplyChannelEmpty
  <2>1. Die \/ (map' = [map EXCEPT ![c] = req.pts] /\ UNCHANGED ghosts)
    BY <1>3 DEF ApplyChannelEmpty
  <2>2. [map EXCEPT ![c] = req.pts] = map
    BY <1>0 DEF TypeOK
  <2> QED BY <1>1, <2>1, <2>2 DEF Die, box
<1>4. CASE ApplyChannelTooLong
  <2>1. PICK p \in Boundaries(c, req.pts, req.spts) :
          \/ Die
          \/ /\ map' = [map EXCEPT ![c] = p]
             /\ jumped' = [jumped EXCEPT ![c] = @ \cup (req.pts + 1)..p]
             /\ UNCHANGED <<base, handed, passed, twice>>
    BY <1>4 DEF ApplyChannelTooLong
  <2>2. CASE Die
    BY <1>1, <2>2 DEF Die, box
  <2>3. CASE ~Die
    <3> DEFINE L == (req.pts + 1)..p
    <3>1. p \in Nat /\ req.pts <= p
      BY <1>0, BoundaryType
    <3>2. Adds(req.pts, p, {}, {}, L)
      BY <3>1 DEF Adds
    <3>3. /\ map' = [map EXCEPT ![c] = p]
          /\ jumped' = [jumped EXCEPT ![c] = @ \cup L]
          /\ UNCHANGED <<base, handed, passed, twice>>
      BY <2>1, <2>3
    <3> HIDE DEF L, c
    <3>4. /\ map'[c] = p /\ jumped'[c] = jumped[c] \cup L
          /\ base'[c] = base[c] /\ handed'[c] = handed[c] \cup {}
          /\ passed'[c] = passed[c] \cup {}
      BY <1>0, <3>3 DEF TypeOK
    <3>5. \A f \in Entries \ {c} :
            /\ map'[f] = map[f] /\ base'[f] = base[f] /\ handed'[f] = handed[f]
            /\ passed'[f] = passed[f] /\ jumped'[f] = jumped[f]
      BY <3>3 DEF TypeOK
    <3>6. Links(base'[c], map'[c], handed'[c], passed'[c], jumped'[c])
      BY <1>0, <3>2, <3>4, Extend
    <3>7. Start(c) <= map'[c]
      BY <1>0, <3>1, <3>4 DEF Start
    <3> QED BY <1>0, <3>3, <3>5, <3>6, <3>7, OneChanges DEF NoneTwice
  <2> QED BY <2>2, <2>3
<1> QED BY <1>2, <1>3, <1>4

LEMMA TrySetChannelStateLinked ==
  ASSUME TypeOK, Linked, NoneTwice, TrySetChannelState
  PROVE  Linked' /\ NoneTwice'
<1>1. PICK c \in Channels \ Known : \E p \in Boundaries(c, 1, 0) :
        map' = [map EXCEPT ![c] = p] /\ Track(c, p, {})
  BY DEF TrySetChannelState
<1>2. PICK p \in Boundaries(c, 1, 0) : map' = [map EXCEPT ![c] = p] /\ Track(c, p, {})
  BY <1>1
<1>3. c \in Entries
  BY DEF Entries
<1>4. p \in Nat /\ 1 <= p
  BY <1>3, BoundaryType
<1>5. Start(c) <= p
  BY <1>4 DEF Start
<1> QED BY <1>2, <1>3, <1>4, <1>5, TrackLinked

(* What a step saves is a pts that the box has. *)
LEMMA RowsStep ==
  ASSUME [Next]_vars
  PROVE  UNCHANGED rows \/ rows' = SavedRows
<1>1. SaveStates \/ GoOn \/ StopLoop => UNCHANGED rows \/ rows' = SavedRows
  BY DEF SaveStates, GoOn, StopLoop
<1>2. EndDifference \/ FailChannel \/ Save \/ Load => UNCHANGED rows \/ rows' = SavedRows
  BY <1>1 DEF EndDifference, FailChannel, Save, Load
<1>3. ApplyNew \/ EndOfPass \/ RetryGap \/ EndOfRetry \/ CheckDeadlines \/ GetDifference
        \/ GetChannelDifference \/ GiveUpChannel \/ EndChannel => UNCHANGED rows
  BY DEF ApplyNew, EndOfPass, RetryGap, EndOfRetry, CheckDeadlines, GetDifference,
     GetChannelDifference, GiveUpChannel, EndChannel, lasting
<1>4. ASSUME NEW final PROVE ApplyDifference(final) \/ ApplyChannel(final) => UNCHANGED rows
  BY DEF ApplyDifference, ApplyChannel, lasting
<1>5. ApplyDifferenceEmpty \/ ApplyDifferenceTooLong \/ ApplyChannelEmpty \/ ApplyChannelTooLong
        => UNCHANGED rows
  BY DEF ApplyDifferenceEmpty, ApplyDifferenceTooLong, ApplyChannelEmpty,
     ApplyChannelTooLong, lasting
<1>6. FailDifference \/ Receive \/ ReceiveGap \/ TrySetChannelState \/ Reconnect \/ Emit
        \/ Tick \/ UNCHANGED vars => UNCHANGED rows
  BY DEF FailDifference, Receive, ReceiveGap, TrySetChannelState, Reconnect, Emit, Tick, vars,
     lasting
<1> QED BY <1>2, <1>3, <1>4, <1>5, <1>6 DEF Next, Loop, Reply

LEMMA RowsStartedStep ==
  ASSUME TypeOK, Linked, RowsStarted, [Next]_vars
  PROVE  RowsStarted'
<1>1. ASSUME NEW c \in Channels PROVE rows'[c] = rows[c] \/ (c \in Known /\ rows'[c] = map[c])
  BY RowsStep DEF SavedRows
<1> QED BY <1>1 DEF RowsStarted, Linked, Start

(* Loading makes known what was known, or what the session still holds. *)
LEMMA Loaded ==
  ASSUME TypeOK, Load, NEW e \in Known'
  PROVE  \/ e \in Known /\ map'[e] = map[e]
         \/ e \in Channels \ Known /\ map'[e] = rows[e] /\ rows[e] # Unknown
<1>1. map' = [d \in Entries |-> IF d \in Channels THEN SavedRows[d]
                              ELSE IF map[d] = 0 THEN Unknown ELSE map[d]]
  BY DEF Load
<1>2. e \in Entries /\ map'[e] # Unknown
  BY DEF Known
<1>3. CASE e \in Channels
  BY <1>1, <1>2, <1>3 DEF SavedRows
<1>4. CASE e \notin Channels
  BY <1>1, <1>2, <1>4 DEF Known
<1> QED BY <1>3, <1>4

(* Loading starts every chain anew. *)
LEMMA LoadLinked ==
  ASSUME TypeOK, Linked, NoneTwice, RowsStarted, Load
  PROVE  Linked' /\ NoneTwice'
<1>1. /\ base' = map' /\ UNCHANGED twice
      /\ \A e \in Entries : handed'[e] = {} /\ passed'[e] = {} /\ jumped'[e] = {}
  BY DEF Load
<1>2. ASSUME NEW e \in Known'
      PROVE  /\ Links(base'[e], map'[e], handed'[e], passed'[e], jumped'[e])
             /\ Start(e) <= map'[e]
  <2>1. map'[e] \in Nat /\ Start(e) <= map'[e]
    <3>1. CASE e \in Known /\ map'[e] = map[e]
      BY <3>1 DEF Linked, Links
    <3>2. CASE e \in Channels /\ map'[e] = rows[e] /\ rows[e] # Unknown
      BY <3>2 DEF RowsStarted, TypeOK
    <3> QED BY <3>1, <3>2, Loaded
  <2>2. Links(base'[e], map'[e], handed'[e], passed'[e], jumped'[e])
    BY <1>1, <2>1, Begins DEF Known
  <2> QED BY <2>1, <2>2
<1> QED BY <1>1, <1>2 DEF Linked, NoneTwice, Links, Start

-----------------------------------------------------------------------------
LEMMA ReqCurrentStep ==
  ASSUME TypeOK, ReqCurrent, [Next]_vars
  PROVE  ReqCurrent'
<1>1. CASE pc' # "wait"
  BY <1>1 DEF ReqCurrent
<1>2. CASE UNCHANGED <<pc, req, map>>
  BY <1>2 DEF ReqCurrent
<1>3. CASE GetDifference
  BY <1>1, <1>3 DEF GetDifference, Die, box, ReqCurrent
<1>4. CASE GetChannelDifference
  BY <1>1, <1>4, EntriesAssumption DEF GetChannelDifference, Die, box, ReqCurrent
<1>5. CASE TrySetChannelState
  <2>1. PICK c \in Channels \ Known : \E p : map' = [map EXCEPT ![c] = p]
    BY <1>5 DEF TrySetChannelState
  <2>2. UNCHANGED <<pc, req>> /\ c \in Entries /\ map[c] = Unknown /\ c # Secret
    BY <1>5, EntriesAssumption DEF TrySetChannelState, loop, Entries, Known
  <2>3. pc = "wait" => req.entry # c /\ req.entry \in Entries
    BY <2>2 DEF ReqCurrent, TypeOK
  <2> QED BY <2>1, <2>2, <2>3 DEF ReqCurrent, TypeOK
<1>6. ApplyNew \/ EndOfPass \/ RetryGap \/ EndOfRetry => pc' # "wait"
  <2>1. Return => pc' # "wait"
    BY DEF Return, TypeOK
  <2> QED BY <2>1 DEF ApplyNew, EndOfPass, RetryGap, EndOfRetry
<1>7. CheckDeadlines \/ EndDifference \/ GiveUpChannel \/ EndChannel \/ Reconnect
        => pc' # "wait" \/ UNCHANGED <<pc, req, map>>
  BY DEF CheckDeadlines, EndDifference, GiveUpChannel, EndChannel, Reconnect, Die, GoOn, StopLoop,
     WantsChannel, loop
<1>8. ASSUME NEW final, ApplyDifference(final) \/ ApplyChannel(final) PROVE pc' # "wait"
  BY <1>8 DEF ApplyDifference, ApplyChannel, Process, Die
<1>9. ApplyDifferenceEmpty \/ ApplyDifferenceTooLong \/ ApplyChannelEmpty \/ ApplyChannelTooLong
        => pc' # "wait"
  BY DEF ApplyDifferenceEmpty, ApplyDifferenceTooLong, ApplyChannelEmpty,
     ApplyChannelTooLong, Die
<1>10. FailDifference \/ FailChannel \/ Receive \/ Load => pc' # "wait"
  BY DEF FailDifference, FailChannel, Receive, Process, Load, Die, GoOn, StopLoop
<1>11. ReceiveGap \/ Emit \/ Tick \/ Save \/ UNCHANGED vars => UNCHANGED <<pc, req, map>>
  BY DEF ReceiveGap, Emit, Tick, Save, vars, loop, box
<1> QED
  BY <1>1, <1>2, <1>3, <1>4, <1>5, <1>6, <1>7, <1>8, <1>9, <1>10, <1>11
  DEF Next, Loop, Reply

LEMMA LinkedStep ==
  ASSUME TypeOK, Tiled, Linked, NoneTwice, ReqCurrent, RowsStarted, [Next]_vars
  PROVE  Linked' /\ NoneTwice'
<1>1. CASE UNCHANGED <<map, ghosts>>
  BY <1>1, NothingChanges
<1>2. EndOfPass \/ EndOfRetry \/ CheckDeadlines \/ GetDifference \/ EndDifference
        \/ GetChannelDifference \/ EndChannel => UNCHANGED <<map, ghosts>>
  BY DEF EndOfPass, EndOfRetry, CheckDeadlines, GetDifference, EndDifference,
     GetChannelDifference, EndChannel, Die, box
<1>3. FailDifference \/ Receive \/ ReceiveGap \/ Save \/ Reconnect \/ Emit \/ Tick
        \/ UNCHANGED vars => UNCHANGED <<map, ghosts>>
  BY DEF FailDifference, Receive, ReceiveGap, Save, Reconnect, Emit, Tick, vars, box
<1>4. Loop => Linked' /\ NoneTwice'
  BY <1>1, <1>2, LoopLinked, ForgetLinked DEF Loop
<1>5. Reply \/ ApplyDifference(FALSE) \/ ApplyChannel(FALSE) => Linked' /\ NoneTwice'
  BY DifferenceLinked, ChannelLinked DEF Reply
<1> QED
  BY <1>1, <1>3, <1>4, <1>5, ForgetLinked, TrySetChannelStateLinked, LoadLinked DEF Next

LEMMA AlwaysLinked == Spec => []ChainInv
<1>1. ChainInv /\ [Next]_vars => ChainInv'
  BY NextType, TiledStep, LinkedStep, ReqCurrentStep, RowsStartedStep DEF ChainInv
<1> QED BY <1>1, InitChain, PTL DEF Spec

(* Whatever the socket loses, repeats or reorders, however the requests    *)
(* for differences end, and however often the state is saved and loaded:   *)
(* every position from the one an entry was made known with to its pts was *)
(* returned as an update, or a difference that does not return it covered  *)
(* it, and never both.                                                     *)
THEOREM ChainHolds == Spec => []Chain
<1>1. ChainInv => Chain
  BY DEF ChainInv, Linked, Links, Chain
<1> QED BY <1>1, AlwaysLinked, PTL

(* No position is returned twice: user code never sees one event as two.   *)
THEOREM NeverTwice == Spec => []NoneTwice
<1>1. ChainInv => NoneTwice
  BY DEF ChainInv
<1> QED BY <1>1, AlwaysLinked, PTL

-----------------------------------------------------------------------------
(* No stashed update is dropped before its time.                           *)

(* The server's log: updates are where they belong; those of the secret    *)
(* chats have a count of 1.                                                *)
Genuine ==
  \A e \in Entries : \A u \in log[e] : u.entry = e /\ (e = Secret => u.count = 1)

(* What the box looks at, or has stashed, is of the server. *)
FromServer ==
  /\ \A u \in todo : HasPts(u) => u \in log[u.entry]
  /\ \A e \in Entries : gaps[e] \subseteq log[e]

(* A gap is of an entry that is not being fetched, and is known (loading a *)
(* qts of 0 forgets the secret chats).                                     *)
GapsApart ==
  \A e \in Entries : gaps[e] # {} => e \notin getting /\ (e \in Known \/ e = Secret)

(* The box never has handled a part of a stashed update. *)
Whole ==
  \A e \in Known : \A u \in gaps[e] : map[e] <= u.pts - u.count \/ u.pts <= map[e]

(* The channel of a request in flight is being fetched. *)
ReqFetched == AwaitingChannel => req.entry \in getting

GapInv == ChainInv /\ Genuine /\ FromServer /\ GapsApart /\ Whole /\ ReqFetched

LEMMA InitGaps == Init => GapInv
<1> SUFFICES ASSUME Init PROVE GapInv
  OBVIOUS
<1>1. ChainInv
  BY InitChain
<1>2. Genuine /\ FromServer /\ GapsApart /\ Whole /\ ReqFetched
  BY DEF Init, Genuine, FromServer, GapsApart, Whole, ReqFetched, AwaitingChannel, Known
<1> QED BY <1>1, <1>2 DEF GapInv

LEMMA UpdateNumbers ==
  ASSUME TypeOK, NEW e \in Entries, NEW u \in log[e] \cup gaps[e]
  PROVE  u.pts \in Nat /\ u.count \in Nat /\ u.count <= u.pts /\ u.pts > 0
BY DEF TypeOK, PtsUpdate

-----------------------------------------------------------------------------
(* The server, and what it sends.                                          *)

LEMMA LogGrows ==
  ASSUME TypeOK, Genuine, [Next]_vars
  PROVE  Genuine' /\ \A e \in Entries : log[e] \subseteq log'[e]
<1>1. CASE UNCHANGED log
  BY <1>1 DEF Genuine
<1>2. CASE Emit
  <2>0. PICK e \in Talking, k \in Kinds :
          \E n \in IF k = "msg" THEN {1} ELSE Counts :
            LET u == [kind |-> k, entry |-> e, pts |-> spts[e] + n, count |-> n]
            IN  /\ u.pts \in 1..MaxPts
                /\ e = Secret => n = 1
                /\ u \notin log[e]
                /\ log' = [log EXCEPT ![e] = @ \cup {u}]
                /\ spts' = [spts EXCEPT ![e] = u.pts]
    BY <1>2 DEF Emit
  <2>1. PICK n \in IF k = "msg" THEN {1} ELSE Counts :
          LET u == [kind |-> k, entry |-> e, pts |-> spts[e] + n, count |-> n]
          IN  /\ e = Secret => n = 1
              /\ log' = [log EXCEPT ![e] = @ \cup {u}]
    BY <2>0, Zenon
  <2> DEFINE u == [kind |-> k, entry |-> e, pts |-> spts[e] + n, count |-> n]
  <2>2. u.entry = e /\ u.count = n
    OBVIOUS
  <2>3. e \in Entries
    BY BoundsAssumption
  <2> HIDE DEF u
  <2>4. log'[e] = log[e] \cup {u} /\ \A f \in Entries \ {e} : log'[f] = log[f]
    BY <2>1, <2>3 DEF u, TypeOK
  <2> QED BY <2>1, <2>2, <2>3, <2>4 DEF Genuine
<1>3. Loop \/ FailDifference \/ FailChannel \/ Receive \/ ReceiveGap \/ TrySetChannelState
        \/ Load \/ Save \/ Reconnect \/ Tick \/ UNCHANGED vars => UNCHANGED log
  BY DEF Loop, ApplyNew, EndOfPass, RetryGap, EndOfRetry, CheckDeadlines, GetDifference,
     EndDifference, GetChannelDifference, GiveUpChannel, EndChannel, FailDifference,
     FailChannel, Receive, ReceiveGap, TrySetChannelState, Load, Save, Reconnect, Tick, vars,
     server
<1>4. ASSUME NEW final PROVE ApplyDifference(final) \/ ApplyChannel(final) => UNCHANGED log
  BY DEF ApplyDifference, ApplyChannel, server
<1>5. Reply => UNCHANGED log
  BY <1>4 DEF Reply, ApplyDifferenceEmpty, ApplyDifferenceTooLong, ApplyChannelEmpty,
     ApplyChannelTooLong, server
<1> QED BY <1>1, <1>2, <1>3, <1>4, <1>5 DEF Next

(* Whatever is delivered with a pts is of the log of its entry. *)
LEMMA Delivered ==
  ASSUME TypeOK, Genuine, NEW u, HasPts(u),
         \/ u \in Deliverable
         \/ u \in ChannelDeliverable
         \/ \E e \in Entries : \E lo, hi : u \in Others(e, lo, hi)
  PROVE  u \in log[u.entry]
<1>1. PICK e \in Entries : u \in log[e]
  BY DEF HasPts, Deliverable, ChannelDeliverable, Others, TooLongMark, Plain, Entries
<1> QED BY <1>1 DEF Genuine

LEMMA TodoStep ==
  ASSUME TypeOK, Genuine, FromServer, [Next]_vars
  PROVE  \A u \in todo' : HasPts(u) => u \in log[u.entry]
<1>1. CASE todo' \subseteq todo
  BY <1>1 DEF FromServer
<1>2. CASE EndOfPass
  <2>1. todo' = UNION {gaps[e] : e \in Entries} \/ todo' = {}
    BY <1>2 DEF EndOfPass, Return
  <2>2. ASSUME NEW e \in Entries, NEW u \in gaps[e] PROVE u \in log[u.entry]
    BY <2>2 DEF FromServer, Genuine
  <2> QED BY <2>1, <2>2
<1>3. CASE Receive
  <2>1. todo' \subseteq Deliverable
    BY <1>3 DEF Receive, Process, Batches
  <2> QED BY <2>1, Delivered
<1>4. ASSUME NEW final, ApplyDifference(final)
      PROVE  \A u \in todo' : HasPts(u) => u \in log[u.entry]
  <2>1. PICK p, q, X :
          /\ X \in Batches(ChannelDeliverable)
          /\ todo' = Others(Account, req.pts, p) \cup Others(Secret, ReqQts, q) \cup X
    BY <1>4 DEF ApplyDifference, Process
  <2>2. X \subseteq ChannelDeliverable /\ Account \in Entries /\ Secret \in Entries
    BY <2>1 DEF Batches, Entries
  <2> QED BY <2>1, <2>2, Delivered
<1>5. ASSUME NEW final, ApplyChannel(final)
      PROVE  \A u \in todo' : HasPts(u) => u \in log[u.entry]
  <2>1. todo' = todo \/ \E p : todo' = Others(req.entry, req.pts, p)
    BY <1>5 DEF ApplyChannel, Process, Die, scan
  <2>2. req.entry \in Entries
    BY DEF TypeOK
  <2> QED BY <1>1, <2>1, <2>2, Delivered
<1>6. ApplyNew \/ RetryGap \/ EndOfRetry \/ CheckDeadlines \/ GetDifference \/ EndDifference
        \/ GetChannelDifference \/ GiveUpChannel \/ EndChannel => todo' \subseteq todo
  BY DEF ApplyNew, RetryGap, EndOfRetry, Return, CheckDeadlines, GetDifference,
     EndDifference, GetChannelDifference, GiveUpChannel, EndChannel, Die, scan, loop
<1>7. ApplyDifferenceEmpty \/ ApplyDifferenceTooLong \/ ApplyChannelEmpty
        \/ ApplyChannelTooLong => UNCHANGED todo
  BY DEF ApplyDifferenceEmpty, ApplyDifferenceTooLong, ApplyChannelEmpty,
     ApplyChannelTooLong, Die, scan
<1>8. FailDifference \/ FailChannel \/ ReceiveGap \/ TrySetChannelState \/ Load \/ Save
        \/ Reconnect \/ Emit \/ Tick \/ UNCHANGED vars => UNCHANGED todo
  BY DEF FailDifference, FailChannel, ReceiveGap, TrySetChannelState, Load, Save, Reconnect, Emit,
     Tick, vars, Die, scan, loop
<1> QED
  BY <1>1, <1>2, <1>3, <1>4, <1>5, <1>6, <1>7, <1>8 DEF Next, Loop, Reply

-----------------------------------------------------------------------------
(* The gaps.  A step may start to fetch entries, whose gaps it clears, but *)
(* otherwise keeps a stashed update until its pts is reached.              *)

GapsKept ==
  /\ \A e \in Entries : \A u \in gaps[e] \ gaps'[e] : map'[e] >= u.pts \/ e \in getting'
  /\ \A e \in Entries : gaps'[e] \subseteq log[e]
  /\ GapsApart'
  /\ Whole'

LEMMA SameGaps ==
  ASSUME GapInv, UNCHANGED <<map, gaps, getting>>
  PROVE  GapsKept
BY DEF GapInv, FromServer, GapsApart, Whole, GapsKept, Known

(* Clearing the gaps of S, whose entries are fetched or done with. *)
LEMMA ClearedGaps ==
  ASSUME GapInv, NEW S \in SUBSET Entries,
         gaps' = [e \in Entries |-> IF e \in S THEN {} ELSE gaps[e]],
         \A e \in S : e \in getting' \/ gaps[e] = {},
         getting' \subseteq getting \cup S,
         \A e \in Entries \ S : map'[e] = map[e]
  PROVE  GapsKept
<1>1. \A e \in Entries : gaps'[e] = IF e \in S THEN {} ELSE gaps[e]
  OBVIOUS
<1>2. GapsApart'
  BY <1>1 DEF GapInv, GapsApart, Known
<1>3. Whole'
  BY <1>1 DEF GapInv, Whole, Known
<1>4. \A e \in Entries : \A u \in gaps[e] \ gaps'[e] : e \in getting'
  BY <1>1
<1>5. \A e \in Entries : gaps'[e] \subseteq log[e]
  BY <1>1 DEF GapInv, FromServer
<1> QED BY <1>2, <1>3, <1>4, <1>5 DEF GapsKept

LEMMA TryBeginGaps ==
  ASSUME GapInv, NEW c \in Entries, TryBeginGetDiff(c), UNCHANGED map
  PROVE  GapsKept
<1>1. CASE c \in Known
  <2>1. gaps' = [e \in Entries |-> IF e \in {c} THEN {} ELSE gaps[e]]
    BY <1>1 DEF TryBeginGetDiff, GapInv, ChainInv, TypeOK
  <2>2. getting' = getting \cup {c}
    BY <1>1 DEF TryBeginGetDiff
  <2> DEFINE S == {c}
  <2>3. \A e \in S : e \in getting' \/ gaps[e] = {}
    BY <2>2
  <2>4. gaps' = [e \in Entries |-> IF e \in S THEN {} ELSE gaps[e]] /\ S \in SUBSET Entries
        /\ getting' \subseteq getting \cup S
    BY <2>1, <2>2
  <2> HIDE DEF S
  <2> QED BY <2>3, <2>4, ClearedGaps
<1>2. CASE c \notin Known
  BY <1>2, SameGaps DEF TryBeginGetDiff, gap
<1> QED BY <1>1, <1>2

LEMMA CheckDeadlinesGaps ==
  ASSUME GapInv, CheckDeadlines
  PROVE  GapsKept
<1>1. PICK S \in SUBSET Entries :
        /\ getting' = S
        /\ gaps' = [e \in Entries |-> IF e \in S THEN {} ELSE gaps[e]]
  BY DEF CheckDeadlines, Known
<1>2. UNCHANGED map
  BY DEF CheckDeadlines
<1> QED BY <1>1, <1>2, ClearedGaps

(* The box moves on to where an update of the server ends. *)
LEMMA WholeAt ==
  ASSUME TypeOK, Tiled, NEW e \in Entries, NEW u \in log[e], NEW v \in log[e]
  PROVE  v.pts <= u.pts - u.count \/ u.pts <= v.pts
<1>1. u.pts \in Nat /\ u.count \in Nat /\ v.pts \in Nat /\ v.count \in Nat
  BY DEF TypeOK, PtsUpdate
<1> QED BY <1>1 DEF Tiled

LEMMA ApplyPtsInfoGaps ==
  ASSUME GapInv, NEW u \in PtsUpdate, u \in log[u.entry],
         NEW rest \in [Entries -> SUBSET PtsUpdate],
         \A e \in Entries : rest[e] \subseteq gaps[e] /\ gaps[e] \subseteq rest[e] \cup {u},
         ApplyPtsInfo(u, rest), UNCHANGED getting
  PROVE  GapsKept
<1> DEFINE e == u.entry
<1>0. /\ e \in Entries /\ u.pts \in Nat /\ u.count \in Nat /\ u.count <= u.pts /\ u.pts > 0
      /\ FirstPts(u) \in Nat
  BY CoverType DEF PtsUpdate
<1>1. TypeOK /\ Tiled /\ FromServer /\ Genuine /\ GapsApart /\ Whole
  BY DEF GapInv, ChainInv
<1>2. /\ map \in [Entries -> Nat \cup {Unknown}]
      /\ \A f \in Entries : gaps[f] \subseteq log[f]
      /\ \A f \in Entries : \A v \in gaps[f] : v.entry = f
  BY <1>1 DEF TypeOK, FromServer, Genuine
<1>3. \A f \in Entries \ {e} : u \notin gaps[f]
  BY <1>2
<1>4. CASE (Fetching(u) \/ Handled(u)) /\ gaps' = rest /\ UNCHANGED map
  <2>1. \A f \in Entries : \A v \in gaps[f] \ gaps'[f] : v = u /\ f = e
    BY <1>3, <1>4
  <2>2. Handled(u) /\ u \in gaps[e] => map[e] >= u.pts
    BY <1>0, <1>1, <1>2 DEF Handled, Whole, Known
  <2>3. \A f \in Entries : \A v \in gaps[f] \ gaps'[f] : map'[f] >= v.pts \/ f \in getting'
    BY <1>4, <2>1, <2>2 DEF Fetching
  <2>4. \A f \in Entries : gaps'[f] \subseteq gaps[f]
    BY <1>4
  <2>5. GapsApart' /\ Whole'
    BY <1>1, <1>4, <2>4 DEF GapsApart, Whole, Known
  <2> QED BY <1>2, <2>3, <2>4, <2>5 DEF GapsKept
<1>5. CASE Early(u) /\ Stash(u, rest) /\ UNCHANGED map
  <2>1. \A f \in Entries : gaps'[f] = IF f = e THEN rest[f] \cup {u} ELSE rest[f]
    BY <1>0, <1>5 DEF Stash
  <2>2. \A f \in Entries : gaps[f] \subseteq gaps'[f]
    BY <1>3, <2>1
  <2>3. \A f \in Entries : gaps'[f] \subseteq gaps[f] \cup (IF f = e THEN {u} ELSE {})
    BY <2>1
  <2>4. e \in Known \ getting /\ map[e] <= u.pts - u.count
    BY <1>0, <1>2, <1>5 DEF Early, Known
  <2>5. GapsApart'
    BY <1>1, <1>5, <2>3, <2>4 DEF GapsApart, Known
  <2>6. Whole'
    BY <1>1, <1>5, <2>3, <2>4 DEF Whole, Known
  <2>7. \A f \in Entries : gaps'[f] \subseteq log[f]
    BY <1>2, <2>3
  <2> QED BY <2>2, <2>5, <2>6, <2>7 DEF GapsKept
<1>6. CASE Fits(u) /\ Apply(u) /\ gaps' = rest
  <2>1. map' = [map EXCEPT ![e] = u.pts]
    BY <1>6 DEF Apply
  <2>2. map'[e] = u.pts /\ \A f \in Entries \ {e} : map'[f] = map[f]
    BY <1>0, <1>2, <2>1
  <2>3. e \in Known
    BY <1>6 DEF Fits
  <2>4. \A f \in Entries : \A v \in gaps[f] \ gaps'[f] : v = u /\ f = e
    BY <1>3, <1>6
  <2>5. \A f \in Entries : \A v \in gaps[f] \ gaps'[f] : map'[f] >= v.pts
    BY <1>0, <2>2, <2>4
  <2>6. \A f \in Entries : gaps'[f] \subseteq gaps[f]
    BY <1>6
  <2>7. GapsApart'
    <3>1. e \in Known'
      BY <1>0, <2>2 DEF Known, Unknown
    <3> QED BY <1>1, <2>2, <2>3, <2>6, <3>1 DEF GapsApart, Known
  <2>8. \A v \in gaps[e] : map'[e] <= v.pts - v.count \/ v.pts <= map'[e]
    BY <1>0, <1>1, <1>2, <2>2, WholeAt
  <2>9. Whole'
    BY <1>1, <2>2, <2>6, <2>8 DEF Whole, Known
  <2> QED BY <1>2, <2>5, <2>6, <2>7, <2>9 DEF GapsKept
<1>7. CASE First(u) /\ Begin(u) /\ gaps' = rest
  <2>1. map' = [map EXCEPT ![e] = FirstPts(u)] /\ e \notin Known
    BY <1>7 DEF Begin, First
  <2>2. map'[e] = FirstPts(u) /\ \A f \in Entries \ {e} : map'[f] = map[f]
    BY <1>0, <1>2, <2>1
  <2>3. \A f \in Entries : \A v \in gaps[f] \ gaps'[f] : v = u /\ f = e
    BY <1>3, <1>7
  <2>4. gaps[e] # {} => e = Secret
    BY <1>0, <1>1, <2>1 DEF GapsApart
  <2>5. \A v \in gaps[e] : v.count = 1 /\ v.pts \in Nat
    BY <1>0, <1>1, <1>2, <2>4 DEF Genuine, TypeOK, PtsUpdate
  <2>6. u \in gaps[e] => map'[e] = u.pts
    BY <1>0, <2>2, <2>5 DEF FirstPts
  <2>7. \A f \in Entries : \A v \in gaps[f] \ gaps'[f] : map'[f] >= v.pts
    BY <1>0, <2>3, <2>6
  <2>8. \A f \in Entries : gaps'[f] \subseteq gaps[f]
    BY <1>7
  <2>9. e \in Known'
    BY <1>0, <2>2 DEF Known, Unknown
  <2>10. GapsApart'
    BY <1>1, <2>2, <2>8, <2>9 DEF GapsApart, Known
  <2>11. \A v \in gaps[e] : map'[e] <= v.pts - v.count \/ v.pts <= map'[e]
    BY <1>0, <2>2, <2>5
  <2>12. Whole'
    BY <1>1, <2>2, <2>8, <2>11 DEF Whole, Known
  <2> QED BY <1>2, <2>7, <2>8, <2>10, <2>12 DEF GapsKept
<1> QED BY <1>4, <1>5, <1>6, <1>7 DEF ApplyPtsInfo

LEMMA ScanGaps ==
  ASSUME GapInv, ApplyNew \/ RetryGap
  PROVE  GapsKept
<1>0. TypeOK /\ FromServer /\ gaps \in [Entries -> SUBSET PtsUpdate]
  BY DEF GapInv, ChainInv, TypeOK
<1>1. CASE ApplyNew
  <2>1. PICK u \in todo :
          \/ u.kind = "tooLong" /\ TryBeginGetDiff(u.entry) /\ UNCHANGED map
          \/ UNCHANGED <<map, gap, getting>>
          \/ HasPts(u) /\ ApplyPtsInfo(u, gaps) /\ UNCHANGED getting
    BY <1>1 DEF ApplyNew
  <2>2. u \in Update
    BY <1>0, <1>1 DEF ApplyNew, TypeOK
  <2>3. u.entry \in Entries /\ (HasPts(u) => u \in PtsUpdate)
    BY <2>2 DEF Update, PtsUpdate, HasPts, TooLongMark, Plain, Entries
  <2>4. HasPts(u) => u \in log[u.entry]
    BY <1>0 DEF FromServer
  <2> QED BY <1>0, <2>1, <2>3, <2>4, TryBeginGaps, SameGaps, ApplyPtsInfoGaps DEF gap
<1>2. CASE RetryGap
  <2>1. PICK u \in todo : ApplyPtsInfo(u, [gaps EXCEPT ![u.entry] = @ \ {u}])
    BY <1>2 DEF RetryGap
  <2>2. u \in PtsUpdate /\ UNCHANGED getting
    BY <1>0, <1>2 DEF RetryGap, TypeOK
  <2>3. u \in log[u.entry]
    BY <1>0, <2>2 DEF FromServer, HasPts, PtsUpdate
  <2> DEFINE rest == [gaps EXCEPT ![u.entry] = @ \ {u}]
  <2>4. /\ rest \in [Entries -> SUBSET PtsUpdate]
        /\ \A e \in Entries : rest[e] \subseteq gaps[e] /\ gaps[e] \subseteq rest[e] \cup {u}
    BY <1>0, <2>2
  <2>5. ApplyPtsInfo(u, rest)
    BY <2>1
  <2> HIDE DEF rest
  <2> QED BY <2>2, <2>3, <2>4, <2>5, ApplyPtsInfoGaps
<1> QED BY <1>1, <1>2

-----------------------------------------------------------------------------
(* Differences.                                                            *)

LEMMA DifferenceGaps ==
  ASSUME GapInv,
         \/ \E final \in BOOLEAN : ApplyDifference(final)
         \/ ApplyDifferenceTooLong
  PROVE  GapsKept
<1>0. /\ TypeOK /\ Tiled /\ FromServer /\ Genuine /\ GapsApart /\ Whole /\ Linked
      /\ ReqCurrent /\ AwaitingDifference
  BY DEF GapInv, ChainInv, ApplyDifference, ApplyDifferenceTooLong
<1>1. UNCHANGED <<gaps, getting>>
  BY DEF ApplyDifference, ApplyDifferenceTooLong, gap
<1>2. PICK p \in Nat, q \in Nat \cup {Unknown} :
        /\ map' = [map EXCEPT ![Account] = p, ![Secret] = q]
        /\ p = map[Account] \/ \E w \in log[Account] : p = w.pts
        /\ q = Unknown => map[Secret] = Unknown
  <2>1. /\ req.pts \in Nat /\ req.pts = map[Account] /\ ReqQts \in Nat
        /\ Account \in Entries /\ Secret \in Entries
    BY <1>0, AwaitingAccount DEF Entries
  <2>2. ASSUME NEW final \in BOOLEAN, ApplyDifference(final)
        PROVE  \E p \in Nat, q \in Nat \cup {Unknown} :
                 /\ map' = [map EXCEPT ![Account] = p, ![Secret] = q]
                 /\ p = map[Account] \/ \E w \in log[Account] : p = w.pts
                 /\ q = Unknown => map[Secret] = Unknown
    <3>1. PICK p \in Boundaries(Account, req.pts, IF final THEN req.spts ELSE 0),
               q \in Boundaries(Secret, ReqQts, IF final THEN req.sqts ELSE 0) :
            map' = [map EXCEPT ![Account] = p, ![Secret] = q]
      BY <2>2 DEF ApplyDifference, SetState
    <3>2. p \in Nat /\ q \in Nat
      BY <1>0, <2>1, BoundaryType
    <3>3. p = map[Account] \/ \E w \in log[Account] : p = w.pts
      BY <2>1 DEF Boundaries
    <3>4. q # Unknown
      BY <3>2 DEF Unknown
    <3> QED BY <3>1, <3>2, <3>3, <3>4
  <2>3. CASE ApplyDifferenceTooLong
    <3>1. PICK p \in Boundaries(Account, req.pts, req.spts) :
            map' = [map EXCEPT ![Account] = p]
      BY <2>3 DEF ApplyDifferenceTooLong
    <3>2. p \in Nat /\ (p = map[Account] \/ \E w \in log[Account] : p = w.pts)
      BY <1>0, <2>1, BoundaryType DEF Boundaries
    <3>3. map[Secret] \in Nat \cup {Unknown}
          /\ [map EXCEPT ![Account] = p, ![Secret] = map[Secret]] = [map EXCEPT ![Account] = p]
      BY <1>0, <2>1, EntriesAssumption DEF TypeOK
    <3> QED BY <3>1, <3>2, <3>3
  <2> QED BY <2>2, <2>3
<1>3. /\ map'[Account] = p /\ map'[Secret] = q
      /\ \A e \in Entries \ {Account, Secret} : map'[e] = map[e]
  BY <1>0, <1>2, EntriesAssumption DEF TypeOK, Entries
<1>4. Account \in Known' /\ Account \in Entries /\ Secret \in Entries
  BY <1>3 DEF Known, Entries, Unknown
<1>5. GapsApart'
  BY <1>0, <1>1, <1>2, <1>3, <1>4 DEF GapsApart, Known
<1>6. \A u \in gaps[Account] : p <= u.pts - u.count \/ u.pts <= p
  <2>1. TAKE u \in gaps[Account]
  <2>2. u \in log[Account]
    BY <1>0, <1>4 DEF FromServer
  <2>3. CASE p = map[Account]
    BY <1>0, <1>2, <1>4, <2>3 DEF Whole, Known, Unknown
  <2>4. CASE \E w \in log[Account] : p = w.pts
    BY <1>0, <1>4, <2>2, <2>4, WholeAt
  <2> QED BY <1>2, <2>3, <2>4
<1>7. q # Unknown => \A u \in gaps[Secret] : q <= u.pts - u.count \/ u.pts <= q
  <2>1. \A u \in gaps[Secret] : u.count = 1 /\ u.pts \in Nat
    BY <1>0, <1>4 DEF FromServer, Genuine, TypeOK, PtsUpdate
  <2> QED BY <1>2, <2>1
<1>8. Whole'
  BY <1>0, <1>1, <1>3, <1>6, <1>7 DEF Whole, Known
<1> QED BY <1>0, <1>1, <1>5, <1>8 DEF GapsKept, FromServer

(* A channel that is being fetched has no gap: nothing is lost when its    *)
(* pts, or its whole state, is replaced.                                   *)
LEMMA ChannelGaps ==
  ASSUME GapInv, NEW c \in Entries, gaps[c] = {}, gaps' = [gaps EXCEPT ![c] = {}] \/ UNCHANGED gaps,
         getting' \subseteq getting,
         \A e \in Entries \ {c} : map'[e] = map[e]
  PROVE  GapsKept
<1> DEFINE S == {c}
<1>1. gaps \in [Entries -> SUBSET PtsUpdate]
  BY DEF GapInv, ChainInv, TypeOK
<1>2. gaps' = [e \in Entries |-> IF e \in S THEN {} ELSE gaps[e]]
  BY <1>1
<1>3. /\ S \in SUBSET Entries
      /\ \A e \in S : e \in getting' \/ gaps[e] = {}
      /\ getting' \subseteq getting \cup S
      /\ \A e \in Entries \ S : map'[e] = map[e]
  OBVIOUS
<1> HIDE DEF S
<1> QED BY <1>2, <1>3, ClearedGaps

LEMMA ForgetGaps ==
  ASSUME GapInv, GiveUpChannel \/ FailChannel
  PROVE  GapsKept
<1>0. map \in [Entries -> Nat \cup {Unknown}] /\ req.entry \in Entries
  BY DEF GapInv, ChainInv, TypeOK
<1>1. CASE GiveUpChannel
  <2>1. PICK c \in NoHash :
          \/ Die
          \/ gaps[c] = {} /\ getting' = getting \ {c} /\ Evict(c) /\ UNCHANGED gap
    BY <1>1 DEF GiveUpChannel
  <2>2. CASE Die
    BY <2>2, SameGaps DEF Die, box, gap
  <2>3. CASE gaps[c] = {} /\ getting' = getting \ {c} /\ Evict(c) /\ UNCHANGED gap
    <3>1. \A e \in Entries \ {c} : map'[e] = map[e]
      BY <1>0, <2>3 DEF Evict
    <3>2. c \in Entries
      BY EntriesAssumption DEF Entries
    <3> QED BY <2>3, <3>1, <3>2, ChannelGaps DEF gap
  <2> QED BY <2>1, <2>2, <2>3
<1>2. CASE FailChannel
  <2>1. \/ UNCHANGED box
        \/ /\ req.entry \in getting
           /\ gaps' = [gaps EXCEPT ![req.entry] = {}]
           /\ getting' = getting \ {req.entry}
           /\ UNCHANGED map \/ Evict(req.entry)
    BY <1>2 DEF FailChannel, CanApplyChannel, Die
  <2>2. CASE UNCHANGED box
    BY <2>2, SameGaps DEF box, gap
  <2>3. CASE ~UNCHANGED box
    <3>1. gaps[req.entry] = {}
      BY <1>0, <2>1, <2>3 DEF GapInv, GapsApart
    <3>2. \A e \in Entries \ {req.entry} : map'[e] = map[e]
      BY <1>0, <2>1, <2>3 DEF Evict
    <3> QED BY <1>0, <2>1, <2>3, <3>1, <3>2, ChannelGaps
  <2> QED BY <2>2, <2>3
<1> QED BY <1>1, <1>2

LEMMA ApplyChannelGaps ==
  ASSUME GapInv,
         \/ \E final \in BOOLEAN : ApplyChannel(final)
         \/ ApplyChannelEmpty
         \/ ApplyChannelTooLong
  PROVE  GapsKept
<1>0. map \in [Entries -> Nat \cup {Unknown}] /\ req.entry \in Entries
  BY DEF GapInv, ChainInv, TypeOK
<1>1. gaps[req.entry] = {}
  BY <1>0 DEF GapInv, ReqFetched, GapsApart, ApplyChannel, ApplyChannelEmpty,
     ApplyChannelTooLong
<1>2. \/ UNCHANGED box
      \/ /\ gaps' = [gaps EXCEPT ![req.entry] = {}]
         /\ getting' \subseteq getting
         /\ \E p : map' = [map EXCEPT ![req.entry] = p]
  BY DEF ApplyChannel, ApplyChannelEmpty, ApplyChannelTooLong, EndGetDiff, Die
<1>3. CASE UNCHANGED box
  BY <1>3, SameGaps DEF box, gap
<1>4. CASE ~UNCHANGED box
  <2>1. \A e \in Entries \ {req.entry} : map'[e] = map[e]
    BY <1>0, <1>2, <1>4
  <2> QED BY <1>0, <1>1, <1>2, <1>4, <2>1, ChannelGaps
<1> QED BY <1>3, <1>4

LEMMA TrySetChannelStateGaps ==
  ASSUME GapInv, TrySetChannelState
  PROVE  GapsKept
<1>1. PICK c \in Channels \ Known : \E p : map' = [map EXCEPT ![c] = p]
  BY DEF TrySetChannelState
<1>2. UNCHANGED <<gaps, getting>> /\ c \in Entries /\ c # Secret
  BY <1>1, EntriesAssumption DEF TrySetChannelState, gap, Entries
<1>3. gaps[c] = {}
  BY <1>1, <1>2 DEF GapInv, GapsApart
<1>4. \A e \in Entries \ {c} : map'[e] = map[e]
  BY <1>1 DEF GapInv, ChainInv, TypeOK
<1> QED BY <1>2, <1>3, <1>4, ChannelGaps

LEMMA LoadGaps ==
  ASSUME GapInv, Load
  PROVE  GapsKept
<1>0. TypeOK /\ Linked /\ FromServer /\ GapsApart /\ Whole
  BY DEF GapInv, ChainInv
<1>1. UNCHANGED <<gaps, getting>>
  BY DEF Load, gap
<1>2. ASSUME NEW e \in Entries, e # Secret, e \in Known PROVE e \in Known'
  <2>1. map[e] \in Nat /\ map[e] # 0 /\ map[e] # Unknown
    BY <1>0, <1>2 DEF Linked, Start, TypeOK, Known
  <2>2. map'[e] = map[e]
    BY <1>2, <2>1 DEF Load, SavedRows
  <2> QED BY <2>1, <2>2 DEF Known
<1>3. ASSUME NEW e \in Known' PROVE gaps[e] = {} \/ (e \in Known /\ map'[e] = map[e])
  <2>1. CASE e \in Channels \ Known
    BY <1>0, <2>1, EntriesAssumption DEF GapsApart, Entries
  <2> QED BY <1>0, <2>1, Loaded
<1>4. GapsApart'
  BY <1>0, <1>1, <1>2 DEF GapsApart
<1>5. Whole'
  BY <1>0, <1>1, <1>3 DEF Whole
<1> QED BY <1>0, <1>1, <1>4, <1>5 DEF FromServer, GapsKept

-----------------------------------------------------------------------------
LEMMA NextGaps ==
  ASSUME GapInv, [Next]_vars
  PROVE  GapsKept
<1>1. EndOfPass \/ EndOfRetry \/ GetDifference \/ GetChannelDifference \/ EndChannel
        => UNCHANGED <<map, gaps, getting>>
  BY DEF EndOfPass, EndOfRetry, GetDifference, GetChannelDifference, EndChannel, Die, box, gap
<1>2. EndDifference => UNCHANGED <<map, gaps>> /\ getting' \subseteq getting
  BY DEF EndDifference, Die, box, gap
<1>3. FailDifference \/ Receive \/ Save \/ Reconnect \/ Emit \/ Tick \/ ApplyDifferenceEmpty
        \/ UNCHANGED vars => UNCHANGED <<map, gaps, getting>>
  BY DEF FailDifference, Receive, Save, Reconnect, Emit, Tick, ApplyDifferenceEmpty, vars, box, gap
<1>4. EndDifference => GapsKept
  BY <1>2 DEF GapInv, FromServer, GapsApart, Whole, GapsKept, Known
<1>5. ReceiveGap => GapsKept
  BY TryBeginGaps DEF ReceiveGap, Entries
<1>6. Loop => GapsKept
  BY <1>1, <1>4, SameGaps, ScanGaps, CheckDeadlinesGaps, ForgetGaps DEF Loop
<1>7. Reply \/ ApplyDifference(FALSE) \/ ApplyChannel(FALSE) => GapsKept
  BY <1>3, SameGaps, DifferenceGaps, ApplyChannelGaps DEF Reply
<1> QED
  BY <1>3, <1>5, <1>6, <1>7, SameGaps, ForgetGaps, TrySetChannelStateGaps, LoadGaps DEF Next

LEMMA ReqFetchedStep ==
  ASSUME TypeOK, ReqFetched, [Next]_vars
  PROVE  ReqFetched'
<1>1. CASE pc' # "wait" \/ req'.entry \notin Channels
  BY <1>1 DEF ReqFetched, AwaitingChannel
<1>2. CASE UNCHANGED <<pc, req, getting>>
  BY <1>2 DEF ReqFetched, AwaitingChannel
<1>3. CASE GetDifference
  BY <1>1, <1>3, EntriesAssumption DEF GetDifference, Die
<1>4. CASE GetChannelDifference
  BY <1>1, <1>4 DEF GetChannelDifference, WantsChannel, Die, box, ReqFetched
<1>5. ApplyNew \/ EndOfPass \/ RetryGap \/ EndOfRetry => pc' # "wait"
  <2>1. Return => pc' # "wait"
    BY DEF Return, TypeOK
  <2> QED BY <2>1 DEF ApplyNew, EndOfPass, RetryGap, EndOfRetry
<1>6. CheckDeadlines \/ EndDifference \/ GiveUpChannel \/ EndChannel \/ ReceiveGap \/ Reconnect
        => pc' # "wait"
  BY DEF CheckDeadlines, EndDifference, GiveUpChannel, EndChannel, ReceiveGap, Reconnect,
     Listening, Die, GoOn, StopLoop, WantsChannel, loop
<1>7. ASSUME NEW final, ApplyDifference(final) \/ ApplyChannel(final) PROVE pc' # "wait"
  BY <1>7 DEF ApplyDifference, ApplyChannel, Process, Die
<1>8. ApplyDifferenceEmpty \/ ApplyDifferenceTooLong \/ ApplyChannelEmpty \/ ApplyChannelTooLong
        => pc' # "wait"
  BY DEF ApplyDifferenceEmpty, ApplyDifferenceTooLong, ApplyChannelEmpty,
     ApplyChannelTooLong, Die
<1>9. FailDifference \/ FailChannel \/ Receive \/ Load => pc' # "wait"
  BY DEF FailDifference, FailChannel, Receive, Process, Load, Die, GoOn, StopLoop
<1>10. TrySetChannelState \/ Save \/ Emit \/ Tick \/ UNCHANGED vars
         => UNCHANGED <<pc, req, getting>>
  BY DEF TrySetChannelState, Save, Emit, Tick, vars, loop, box
<1> QED
  BY <1>1, <1>2, <1>3, <1>4, <1>5, <1>6, <1>7, <1>8, <1>9, <1>10 DEF Next, Loop, Reply

LEMMA GapStep ==
  ASSUME GapInv, [Next]_vars
  PROVE  GapInv'
<1>1. ChainInv'
  BY NextType, TiledStep, LinkedStep, ReqCurrentStep, RowsStartedStep DEF ChainInv, GapInv
<1>2. TypeOK /\ Genuine /\ FromServer /\ ReqFetched
  BY DEF GapInv, ChainInv
<1>3. Genuine' /\ \A e \in Entries : log[e] \subseteq log'[e]
  BY <1>2, LogGrows
<1>4. GapsKept
  BY NextGaps
<1>5. \A u \in todo' : HasPts(u) => u \in log'[u.entry]
  <2>1. TAKE u \in todo'
  <2>2. HAVE HasPts(u)
  <2>3. u \in log[u.entry]
    BY <1>2, <2>2, TodoStep
  <2>4. u.entry \in Entries
    BY <1>1, <2>2 DEF ChainInv, TypeOK, Update, PtsUpdate, HasPts, TooLongMark, Plain, Entries
  <2> QED BY <1>3, <2>3, <2>4
<1>6. FromServer'
  BY <1>3, <1>4, <1>5 DEF FromServer, GapsKept, HasPts
<1>7. ReqFetched'
  BY <1>2, ReqFetchedStep
<1> QED BY <1>1, <1>3, <1>4, <1>6, <1>7 DEF GapInv, GapsKept

(* An update that came early stays in its gap until the box has reached    *)
(* its pts, or fetches a difference of its entry instead: no reordering,   *)
(* failure, deadline or reload drops it before.                            *)
THEOREM StashedStays == Spec => StashedIsKept
<1>1. GapInv /\ [Next]_vars =>
        [\A e \in Entries : \A u \in gaps[e] \ gaps'[e] :
           map'[e] >= u.pts \/ e \in getting']_vars
  BY NextGaps DEF GapsKept
<1>2. GapInv /\ [Next]_vars => GapInv'
  BY GapStep
<1> QED BY <1>1, <1>2, InitGaps, PTL DEF Spec, StashedIsKept

-----------------------------------------------------------------------------
(* A seq is taken over only when every update of its container is settled. *)

(* No update of a channel has a count of 0: such a one could make its      *)
(* channel known with a pts inside another update.                         *)
Counting == 0 \in Counts => Talking \cap Channels = {}

(* Where an update of the server ends, or its log begins. *)
AtEnd(e, p) == p = Start(e) \/ \E u \in log[e] : p = u.pts

AllAtEnd == \A e \in Known : AtEnd(e, map[e])

LogRooted ==
  \A e \in Entries :
    /\ Start(e) <= spts[e]
    /\ \A u \in log[e] : /\ Start(e) <= u.pts - u.count
                         /\ u.count = 0 => e \notin Channels

(* What the session holds is the end of an update, too. *)
RowsAtEnd == \A c \in Channels : rows[c] # Unknown => AtEnd(c, rows[c])

(* The pts of an entry is never inside an update, stashed or not. *)
Rooted == Account \in Known /\ LogRooted /\ AllAtEnd /\ RowsAtEnd

(* An update is handled, stashed, or will come with a difference. *)
Settled(u) == u.entry \in getting \/ map[u.entry] >= u.pts \/ u \in gaps[u.entry]

Accounted ==
  pc \in {"apply", "retry"} =>
    \A u \in batch : HasPts(u) => (pc = "apply" /\ u \in todo) \/ Settled(u)

SeqInv == GapInv /\ Rooted /\ Accounted

LEMMA InitSeq == Init => SeqInv
<1> SUFFICES ASSUME Init PROVE SeqInv
  OBVIOUS
<1>1. GapInv /\ Accounted
  BY InitGaps DEF Init, Accounted
<1>2. LogRooted
  BY DEF Init, LogRooted, Start
<1>3. \A e \in Known : e \in Entries /\ e # Secret /\ map[e] = 1
  <2>1. PICK C \in SUBSET Channels :
          map = [e \in Entries |-> IF e \in C \cup {Account} THEN 1 ELSE Unknown]
    BY DEF Init
  <2> QED BY <2>1, EntriesAssumption DEF Known
<1>4. AllAtEnd
  BY <1>3 DEF AllAtEnd, AtEnd, Start
<1>5. Account \in Known
  BY DEF Init, Known, Entries, Unknown
<1>6. RowsAtEnd
  <2>1. \A c \in Channels : rows[c] # Unknown => c \in Known /\ rows[c] = map[c]
    BY DEF Init, Known, Entries
  <2> QED BY <1>4, <2>1 DEF AllAtEnd, RowsAtEnd
<1> QED BY <1>1, <1>2, <1>4, <1>5, <1>6 DEF SeqInv, Rooted

LEMMA LogRootedStep ==
  ASSUME Counting, TypeOK, LogRooted, [Next]_vars
  PROVE  LogRooted'
<1>1. CASE UNCHANGED server
  BY <1>1 DEF server, LogRooted, Start
<1>2. CASE Emit
  <2>0. PICK e \in Talking, k \in Kinds :
          \E n \in IF k = "msg" THEN {1} ELSE Counts :
            LET u == [kind |-> k, entry |-> e, pts |-> spts[e] + n, count |-> n]
            IN  /\ u.pts \in 1..MaxPts
                /\ e = Secret => n = 1
                /\ u \notin log[e]
                /\ log' = [log EXCEPT ![e] = @ \cup {u}]
                /\ spts' = [spts EXCEPT ![e] = u.pts]
    BY <1>2 DEF Emit
  <2>1. PICK n \in IF k = "msg" THEN {1} ELSE Counts :
          LET u == [kind |-> k, entry |-> e, pts |-> spts[e] + n, count |-> n]
          IN  /\ log' = [log EXCEPT ![e] = @ \cup {u}]
              /\ spts' = [spts EXCEPT ![e] = u.pts]
    BY <2>0, Zenon
  <2> DEFINE u == [kind |-> k, entry |-> e, pts |-> spts[e] + n, count |-> n]
  <2>2. e \in Entries /\ n \in Nat /\ spts[e] \in Nat
    BY BoundsAssumption DEF TypeOK
  <2>3. u.pts = spts[e] + n /\ u.count = n
    OBVIOUS
  <2>4. n = 0 => e \notin Channels
    BY <2>1 DEF Counting
  <2> HIDE DEF u
  <2>5. /\ log'[e] = log[e] \cup {u} /\ spts'[e] = spts[e] + n
        /\ \A f \in Entries \ {e} : log'[f] = log[f] /\ spts'[f] = spts[f]
    BY <2>1, <2>2, <2>3 DEF u, TypeOK
  <2>6. Start(e) \in Nat /\ Start(e) <= spts[e]
    BY <2>2 DEF LogRooted, Start
  <2>7. Start(e) <= spts'[e] /\ Start(e) <= u.pts - u.count
    BY <2>2, <2>3, <2>5, <2>6
  <2>8. \A v \in log'[e] : Start(e) <= v.pts - v.count /\ (v.count = 0 => e \notin Channels)
    BY <2>2, <2>3, <2>4, <2>5, <2>7 DEF LogRooted
  <2>9. \A f \in Entries \ {e} :
          /\ Start(f) <= spts'[f]
          /\ \A v \in log'[f] : Start(f) <= v.pts - v.count /\ (v.count = 0 => f \notin Channels)
    BY <2>5 DEF LogRooted
  <2> QED BY <2>7, <2>8, <2>9 DEF LogRooted, Start
<1>3. Loop \/ FailDifference \/ FailChannel \/ Receive \/ ReceiveGap \/ TrySetChannelState
        \/ Load \/ Save \/ Reconnect \/ Tick \/ UNCHANGED vars => UNCHANGED server
  BY DEF Loop, ApplyNew, EndOfPass, RetryGap, EndOfRetry, CheckDeadlines, GetDifference,
     EndDifference, GetChannelDifference, GiveUpChannel, EndChannel, FailDifference,
     FailChannel, Receive, ReceiveGap, TrySetChannelState, Load, Save, Reconnect, Tick, vars
<1>4. ASSUME NEW final \in BOOLEAN
      PROVE  ApplyDifference(final) \/ ApplyChannel(final) => UNCHANGED server
  BY DEF ApplyDifference, ApplyChannel
<1>5. Reply => UNCHANGED server
  BY <1>4 DEF Reply, ApplyDifferenceEmpty, ApplyDifferenceTooLong, ApplyChannelEmpty,
     ApplyChannelTooLong
<1> QED BY <1>1, <1>2, <1>3, <1>4, <1>5 DEF Next

-----------------------------------------------------------------------------
(* Where the box moves to.                                                 *)

LEMMA BoundaryAtEnd ==
  ASSUME NEW e, NEW lo, AtEnd(e, lo), NEW n, NEW p \in Boundaries(e, lo, n)
  PROVE  AtEnd(e, p)
BY DEF AtEnd, Boundaries

(* Every known entry is at the end of an update of the old log. *)
MapAtEnd == Account \in Known' /\ \A e \in Known' : AtEnd(e, map'[e])

LEMMA OneMoves ==
  ASSUME TypeOK, Rooted, NEW c \in Entries, NEW p, map' = [map EXCEPT ![c] = p],
         AtEnd(c, p) \/ p = Unknown, c = Account => p # Unknown
  PROVE  MapAtEnd
<1>1. map'[c] = p /\ \A f \in Entries \ {c} : map'[f] = map[f]
  BY DEF TypeOK
<1>2. \A f \in Known' : f \in Entries /\ (f = c \/ (f \in Known /\ map'[f] = map[f]))
  BY <1>1 DEF Known
<1>3. \A f \in Known' : AtEnd(f, map'[f])
  BY <1>1, <1>2 DEF Rooted, AllAtEnd, Known
<1>4. Account \in Known'
  BY <1>1 DEF Rooted, Known
<1> QED BY <1>3, <1>4 DEF MapAtEnd

LEMMA MapStays ==
  ASSUME Rooted, UNCHANGED map
  PROVE  MapAtEnd
BY DEF Rooted, AllAtEnd, MapAtEnd, Known

(* The box never has handled a part of an update. *)
LEMMA NeverInside ==
  ASSUME TypeOK, Tiled, Rooted, NEW e \in Known, NEW u \in log[e]
  PROVE  map[e] <= u.pts - u.count \/ u.pts <= map[e]
<1>1. e \in Entries /\ AtEnd(e, map[e])
  BY DEF Known, Rooted, AllAtEnd
<1>2. CASE map[e] = Start(e)
  BY <1>1, <1>2 DEF Rooted, LogRooted
<1>3. CASE \E v \in log[e] : map[e] = v.pts
  BY <1>1, <1>3, WholeAt
<1> QED BY <1>1, <1>2, <1>3 DEF AtEnd

(* An entry that was not known begins with the pts of its first update. *)
LEMMA FirstAtEnd ==
  ASSUME TypeOK, Genuine, Rooted, NEW u \in PtsUpdate, u \in log[u.entry], First(u)
  PROVE  FirstPts(u) = u.pts
<1>1. u.entry \in Entries /\ u.pts \in Nat /\ u.pts # 0
  BY DEF PtsUpdate
<1>2. u.entry # Account
  BY DEF First, Rooted
<1>3. u.count # 0
  BY <1>1, <1>2 DEF Entries, Genuine, Rooted, LogRooted
<1> QED BY <1>1, <1>3 DEF FirstPts

(* Applying an update moves the box to its end, and never back. *)
LEMMA ApplyPtsInfoMoves ==
  ASSUME TypeOK, Genuine, Rooted, NEW u \in PtsUpdate, u \in log[u.entry], NEW rest,
         ApplyPtsInfo(u, rest)
  PROVE  /\ MapAtEnd
         /\ \A e \in Known : map'[e] >= map[e]
         /\ Fits(u) \/ First(u) => map'[u.entry] = u.pts
<1>0. /\ u.entry \in Entries /\ u.pts \in Nat /\ u.count \in Nat
      /\ \A e \in Known : e \in Entries /\ map[e] \in Nat
      /\ map \in [Entries -> Nat \cup {Unknown}]
  BY DEF PtsUpdate, TypeOK, Known
<1>1. CASE (Fetching(u) \/ Handled(u) \/ Early(u)) /\ UNCHANGED map
  <2>1. ~Fits(u) /\ ~First(u)
    BY <1>0, <1>1 DEF Fetching, Handled, Early, Fits, First
  <2> QED BY <1>0, <1>1, <2>1, MapStays
<1>2. CASE (Fits(u) \/ First(u)) /\ map' = [map EXCEPT ![u.entry] = u.pts]
  <2>1. AtEnd(u.entry, u.pts) /\ u.pts # Unknown
    BY <1>0 DEF AtEnd, Unknown
  <2>2. MapAtEnd
    BY <1>0, <1>2, <2>1, OneMoves
  <2>3. map'[u.entry] = u.pts /\ \A e \in Known \ {u.entry} : map'[e] = map[e]
    BY <1>0, <1>2
  <2>4. u.entry \in Known => map[u.entry] + u.count = u.pts
    BY <1>2 DEF Fits, First
  <2>5. \A e \in Known : map'[e] >= map[e]
    BY <1>0, <2>3, <2>4
  <2> QED BY <2>2, <2>3, <2>5
<1>3. First(u) => FirstPts(u) = u.pts
  BY FirstAtEnd
<1> QED BY <1>1, <1>2, <1>3 DEF ApplyPtsInfo, Apply, Begin

LEMMA ScanMoves ==
  ASSUME GapInv, Rooted, ApplyNew \/ RetryGap
  PROVE  /\ MapAtEnd
         /\ \A e \in Known : map'[e] >= map[e]
         /\ getting \subseteq getting'
<1>0. TypeOK /\ Genuine /\ FromServer
  BY DEF GapInv, ChainInv
<1>1. PICK u \in todo :
        \/ UNCHANGED map
        \/ HasPts(u) /\ \E rest : ApplyPtsInfo(u, rest)
  <2>1. CASE ApplyNew
    <3>1. PICK u \in todo : UNCHANGED map \/ (HasPts(u) /\ ApplyPtsInfo(u, gaps))
      BY <2>1 DEF ApplyNew
    <3> QED BY <3>1
  <2>2. CASE RetryGap
    <3>1. PICK u \in todo : ApplyPtsInfo(u, [gaps EXCEPT ![u.entry] = @ \ {u}])
      BY <2>2 DEF RetryGap
    <3>2. HasPts(u)
      BY <1>0, <2>2 DEF RetryGap, TypeOK, PtsUpdate, HasPts
    <3> QED BY <3>1, <3>2
  <2> QED BY <2>1, <2>2
<1>2. HasPts(u) => u \in PtsUpdate /\ u \in log[u.entry]
  BY <1>0 DEF TypeOK, Update, HasPts, TooLongMark, Plain, FromServer
<1>3. \A e \in Known : map[e] >= map[e]
  BY <1>0 DEF TypeOK, Known
<1>4. MapAtEnd /\ \A e \in Known : map'[e] >= map[e]
  BY <1>0, <1>1, <1>2, <1>3, MapStays, ApplyPtsInfoMoves
<1>5. getting \subseteq getting'
  BY DEF ApplyNew, RetryGap, TryBeginGetDiff
<1> QED BY <1>4, <1>5

LEMMA DifferenceMoves ==
  ASSUME GapInv, Rooted,
         (\E final \in BOOLEAN : ApplyDifference(final)) \/ ApplyDifferenceTooLong
  PROVE  MapAtEnd
<1>0. TypeOK /\ Linked /\ ReqCurrent /\ AwaitingDifference
  BY DEF GapInv, ChainInv, ApplyDifference, ApplyDifferenceTooLong
<1>1. /\ req.pts = map[Account] /\ req.qts = map[Secret] /\ Account \in Known
      /\ Account \in Entries /\ Secret \in Entries
  BY <1>0, AwaitingAccount DEF Entries
<1>2. AtEnd(Account, req.pts) /\ AtEnd(Secret, ReqQts)
  BY <1>1 DEF Rooted, AllAtEnd, ReqQts, AtEnd, Start, Known
<1>3. CASE ApplyDifferenceTooLong
  <2>1. PICK p \in Boundaries(Account, req.pts, req.spts) : map' = [map EXCEPT ![Account] = p]
    BY <1>3 DEF ApplyDifferenceTooLong
  <2>2. AtEnd(Account, p)
    BY <1>2, BoundaryAtEnd
  <2>3. p \in Nat /\ p # Unknown
    BY <1>0, <1>1, AwaitingAccount, BoundaryType DEF Unknown
  <2> QED BY <1>0, <1>1, <2>1, <2>2, <2>3, OneMoves
<1>4. ASSUME NEW final \in BOOLEAN, ApplyDifference(final) PROVE MapAtEnd
  <2>1. PICK p \in Boundaries(Account, req.pts, IF final THEN req.spts ELSE 0),
             q \in Boundaries(Secret, ReqQts, IF final THEN req.sqts ELSE 0) :
          \E s : SetState(p, q, s)
    BY <1>4 DEF ApplyDifference
  <2>2. AtEnd(Account, p) /\ AtEnd(Secret, q)
    BY <1>2, BoundaryAtEnd
  <2>3. p \in Nat /\ p # Unknown
    BY <1>0, <1>1, AwaitingAccount, BoundaryType DEF Unknown
  <2>4. /\ map'[Account] = p /\ map'[Secret] = q
        /\ \A e \in Entries \ {Account, Secret} : map'[e] = map[e]
    <3>1. map' = [map EXCEPT ![Account] = p, ![Secret] = q]
      BY <2>1 DEF SetState
    <3> QED BY <1>0, <1>1, <3>1, EntriesAssumption DEF TypeOK
  <2>5. \A e \in Known' : e \in {Account, Secret} \/ (e \in Known /\ map'[e] = map[e])
    BY <2>4 DEF Known
  <2>6. \A e \in Known' : AtEnd(e, map'[e])
    BY <2>2, <2>4, <2>5 DEF Rooted, AllAtEnd
  <2>7. Account \in Known'
    BY <1>1, <2>3, <2>4 DEF Known
  <2> QED BY <2>6, <2>7 DEF MapAtEnd
<1> QED BY <1>3, <1>4

LEMMA ChannelMoves ==
  ASSUME GapInv, Rooted,
         \/ \E final \in BOOLEAN : ApplyChannel(final)
         \/ ApplyChannelEmpty \/ ApplyChannelTooLong \/ GiveUpChannel \/ FailChannel
  PROVE  MapAtEnd
<1>0. TypeOK /\ Linked /\ ReqCurrent /\ req.entry \in Entries
  BY DEF GapInv, ChainInv, TypeOK
<1>1. CASE UNCHANGED map
  BY <1>1, MapStays
<1>2. ASSUME NEW c \in Channels, Evict(c) PROVE MapAtEnd
  BY <1>0, <1>2, EntriesAssumption, OneMoves DEF Evict, Entries
<1>3. ASSUME AwaitingChannel,
             NEW n, NEW p \in {req.pts} \cup Boundaries(req.entry, req.pts, n),
             map' = [map EXCEPT ![req.entry] = p]
      PROVE  MapAtEnd
  <2>1. req.pts = map[req.entry] /\ req.entry \in Known
    <3>1. req.pts = map[req.entry] /\ req.pts # Unknown
      BY <1>0, <1>3, AwaitingChannelPts DEF Unknown
    <3> QED BY <1>0, <3>1 DEF Known
  <2>2. AtEnd(req.entry, req.pts)
    BY <2>1 DEF Rooted, AllAtEnd
  <2>3. AtEnd(req.entry, p)
    BY <2>2, <1>3, BoundaryAtEnd
  <2>4. req.entry # Account
    BY <1>3, EntriesAssumption DEF AwaitingChannel
  <2> QED BY <1>0, <1>3, <2>3, <2>4, OneMoves
<1>4. GiveUpChannel => UNCHANGED map \/ \E c \in Channels : Evict(c)
  BY EntriesAssumption DEF GiveUpChannel, Die, box
<1>5. FailChannel => UNCHANGED map \/ \E c \in Channels : Evict(c)
  BY DEF FailChannel, AwaitingChannel, Die, box
<1>6. ApplyChannelEmpty =>
        AwaitingChannel /\ (UNCHANGED map \/ map' = [map EXCEPT ![req.entry] = req.pts])
  BY DEF ApplyChannelEmpty, Die, box
<1>7. ApplyChannelTooLong =>
        /\ AwaitingChannel
        /\ \/ UNCHANGED map
           \/ \E p \in Boundaries(req.entry, req.pts, req.spts) :
                map' = [map EXCEPT ![req.entry] = p]
  BY DEF ApplyChannelTooLong, Die, box
<1>8. ASSUME NEW final \in BOOLEAN, ApplyChannel(final)
      PROVE  /\ AwaitingChannel
             /\ \/ UNCHANGED map
                \/ \E p \in Boundaries(req.entry, req.pts, IF final THEN req.spts ELSE 0) :
                     map' = [map EXCEPT ![req.entry] = p]
  BY <1>8 DEF ApplyChannel, Die, box
<1> QED BY <1>1, <1>2, <1>3, <1>4, <1>5, <1>6, <1>7, <1>8

LEMMA OtherMoves ==
  ASSUME GapInv, Rooted, TrySetChannelState \/ Load
  PROVE  MapAtEnd
<1>0. TypeOK /\ Linked
  BY DEF GapInv, ChainInv
<1>1. CASE TrySetChannelState
  <2>1. PICK c \in Channels : \E p \in Boundaries(c, 1, 0) : map' = [map EXCEPT ![c] = p]
    BY <1>1 DEF TrySetChannelState
  <2>2. c \in Entries /\ c # Account /\ AtEnd(c, 1)
    BY EntriesAssumption DEF Entries, AtEnd, Start
  <2> QED BY <1>0, <2>1, <2>2, BoundaryAtEnd, OneMoves
<1>2. CASE Load
  <2>1. \A e \in Known' : AtEnd(e, map'[e])
    BY <1>0, <1>2, Loaded DEF Rooted, AllAtEnd, RowsAtEnd
  <2>2. Account \in Entries /\ map[Account] # Unknown /\ map[Account] # 0
    BY <1>0, EntriesAssumption DEF Rooted, Known, Linked, Start
  <2>3. Account \in Known'
    BY <1>2, <2>2, EntriesAssumption DEF Load, Known
  <2> QED BY <2>1, <2>3 DEF MapAtEnd
<1> QED BY <1>1, <1>2

LEMMA NextMoves ==
  ASSUME GapInv, Rooted, [Next]_vars
  PROVE  MapAtEnd
<1>1. EndOfPass \/ EndOfRetry \/ CheckDeadlines \/ GetDifference \/ EndDifference
        \/ GetChannelDifference \/ EndChannel => UNCHANGED map
  BY DEF EndOfPass, EndOfRetry, CheckDeadlines, GetDifference, EndDifference,
     GetChannelDifference, EndChannel, Die, box
<1>2. FailDifference \/ Receive \/ ReceiveGap \/ Save \/ Reconnect \/ Emit \/ Tick
        \/ ApplyDifferenceEmpty \/ UNCHANGED vars => UNCHANGED map
  BY DEF FailDifference, Receive, ReceiveGap, Save, Reconnect, Emit, Tick, ApplyDifferenceEmpty,
     vars, box
<1>3. Loop => MapAtEnd
  BY <1>1, MapStays, ScanMoves, ChannelMoves DEF Loop
<1>4. Reply \/ ApplyDifference(FALSE) \/ ApplyChannel(FALSE) => MapAtEnd
  BY <1>2, MapStays, DifferenceMoves, ChannelMoves DEF Reply
<1> QED BY <1>2, <1>3, <1>4, MapStays, ChannelMoves, OtherMoves DEF Next

LEMMA RootedStep ==
  ASSUME Counting, GapInv, Rooted, [Next]_vars
  PROVE  Rooted'
<1>1. LogRooted'
  BY LogRootedStep DEF GapInv, ChainInv, Rooted
<1>2. \A e \in Entries : log[e] \subseteq log'[e]
  BY LogGrows DEF GapInv, ChainInv
<1>3. MapAtEnd
  BY NextMoves
<1>4. AllAtEnd'
  <2>1. ASSUME NEW e \in Known' PROVE map'[e] = Start(e) \/ \E u \in log'[e] : map'[e] = u.pts
    <3>1. e \in Entries /\ AtEnd(e, map'[e])
      BY <1>3 DEF MapAtEnd, Known
    <3> QED BY <1>2, <3>1 DEF AtEnd
  <2> QED BY <2>1 DEF AllAtEnd, AtEnd, Start
<1>5. RowsAtEnd'
  <2>1. ASSUME NEW c \in Channels, rows'[c] # Unknown
        PROVE  rows'[c] = Start(c) \/ \E u \in log'[c] : rows'[c] = u.pts
    <3>1. rows'[c] = rows[c] \/ (c \in Known /\ rows'[c] = map[c])
      BY RowsStep DEF SavedRows
    <3>2. AtEnd(c, rows'[c]) /\ c \in Entries
      BY <2>1, <3>1 DEF Rooted, RowsAtEnd, AllAtEnd, Entries
    <3> QED BY <1>2, <3>2 DEF AtEnd
  <2> QED BY <2>1 DEF RowsAtEnd, AtEnd, Start
<1> QED BY <1>1, <1>3, <1>4, <1>5 DEF Rooted, MapAtEnd

-----------------------------------------------------------------------------
(* What becomes of the updates of a container.                             *)

LEMMA SettledStays ==
  ASSUME TypeOK, TypeOK', GapsKept, getting \subseteq getting', \A e \in Known : map'[e] >= map[e],
         NEW u \in PtsUpdate, Settled(u)
  PROVE  Settled(u)'
<1>1. u.entry \in Entries /\ u.pts \in Nat /\ u.pts > 0
  BY DEF PtsUpdate
<1>2. CASE u.entry \in getting
  BY <1>2 DEF Settled
<1>3. CASE map[u.entry] >= u.pts
  <2>1. u.entry \in Known
    BY <1>1, <1>3 DEF Known, Unknown
  <2>2. map[u.entry] \in Nat /\ map'[u.entry] >= map[u.entry]
    BY <1>1, <2>1 DEF TypeOK, Known
  <2>3. map'[u.entry] \in Int
    BY <1>1 DEF TypeOK, Unknown
  <2>4. map'[u.entry] >= u.pts
    BY <1>1, <1>3, <2>2, <2>3
  <2> QED BY <2>4 DEF Settled
<1>4. CASE u \in gaps[u.entry]
  BY <1>1, <1>4 DEF GapsKept, Settled
<1> QED BY <1>2, <1>3, <1>4 DEF Settled

(* An update that was looked at is settled. *)
LEMMA SettledWhenApplied ==
  ASSUME GapInv, Rooted, NEW u \in PtsUpdate, u \in log[u.entry],
         ApplyPtsInfo(u, gaps), UNCHANGED getting
  PROVE  Settled(u)'
<1>0. /\ TypeOK /\ Tiled /\ Genuine /\ u.entry \in Entries /\ u.pts \in Nat /\ u.count \in Nat
      /\ u.count <= u.pts
  BY DEF GapInv, ChainInv, PtsUpdate
<1>1. CASE Fetching(u)
  BY <1>1 DEF Fetching, Settled
<1>2. CASE Handled(u) /\ UNCHANGED map
  <2>1. u.entry \in Known /\ map[u.entry] + u.count > u.pts /\ map[u.entry] \in Nat
    BY <1>0, <1>2 DEF Handled, Known, TypeOK
  <2>2. map[u.entry] <= u.pts - u.count \/ u.pts <= map[u.entry]
    BY <1>0, <2>1, NeverInside
  <2>3. map[u.entry] >= u.pts
    BY <1>0, <2>1, <2>2
  <2> QED BY <1>2, <2>3 DEF Settled
<1>3. CASE Early(u) /\ Stash(u, gaps)
  <2>1. u \in gaps'[u.entry]
    BY <1>0, <1>3 DEF Stash, TypeOK
  <2> QED BY <2>1 DEF Settled
<1>4. CASE Fits(u) \/ First(u)
  <2>1. map'[u.entry] = u.pts
    BY <1>0, <1>4, ApplyPtsInfoMoves
  <2> QED BY <1>0, <2>1 DEF Settled
<1> QED BY <1>1, <1>2, <1>3, <1>4 DEF ApplyPtsInfo

LEMMA BatchNumbered ==
  ASSUME TypeOK, NEW u \in batch \cup todo, HasPts(u)
  PROVE  u \in PtsUpdate /\ u.entry \in Entries
BY DEF TypeOK, Update, HasPts, TooLongMark, Plain, PtsUpdate

LEMMA ScanAccounted ==
  ASSUME SeqInv, ApplyNew \/ RetryGap
  PROVE  Accounted'
<1>0. GapInv /\ TypeOK /\ Rooted /\ Accounted /\ FromServer /\ TypeOK'
  <2>1. GapInv /\ TypeOK /\ Rooted /\ Accounted /\ FromServer
    BY DEF SeqInv, GapInv, ChainInv
  <2> QED BY <2>1, ApplyNewType, RetryGapType
<1>1. GapsKept /\ getting \subseteq getting' /\ \A e \in Known : map'[e] >= map[e]
  BY <1>0, ScanGaps, ScanMoves
<1>2. ASSUME NEW v \in batch, HasPts(v), Settled(v) PROVE Settled(v)'
  BY <1>0, <1>1, <1>2, BatchNumbered, SettledStays
<1>3. CASE ApplyNew
  <2>1. PICK u \in todo :
          /\ todo' = todo \ {u}
          /\ HasPts(u) => ApplyPtsInfo(u, gaps) /\ UNCHANGED getting
    BY <1>3 DEF ApplyNew, HasPts
  <2>2. HasPts(u) => Settled(u)'
    <3>1. HAVE HasPts(u)
    <3>2. u \in PtsUpdate /\ u \in log[u.entry]
      BY <1>0, <3>1, BatchNumbered DEF FromServer
    <3> QED BY <1>0, <2>1, <3>1, <3>2, SettledWhenApplied
  <2>3. pc = "apply" /\ pc' = "apply" /\ batch' = batch
    BY <1>3 DEF ApplyNew
  <2>4. ASSUME NEW v \in batch, HasPts(v) PROVE v \in todo' \/ Settled(v)'
    BY <1>0, <1>2, <2>1, <2>2, <2>3, <2>4 DEF Accounted
  <2> QED BY <2>3, <2>4 DEF Accounted, HasPts
<1>4. CASE RetryGap
  <2>1. pc = "retry" /\ pc' = "retry" /\ batch' = batch
    BY <1>4 DEF RetryGap
  <2>2. \A v \in batch : HasPts(v) => Settled(v)
    BY <1>0, <2>1 DEF Accounted
  <2>3. \A v \in batch : HasPts(v) => Settled(v)'
    BY <1>2, <2>2
  <2> QED BY <2>1, <2>3 DEF Accounted, HasPts
<1> QED BY <1>3, <1>4

LEMMA EndOfPassAccounted ==
  ASSUME SeqInv, EndOfPass
  PROVE  Accounted'
<1>0. TypeOK /\ Accounted
  BY DEF SeqInv, GapInv, ChainInv
<1>1. pc = "apply" /\ todo = {} /\ UNCHANGED <<map, gaps, getting>>
  BY DEF EndOfPass, gap
<1>2. \A v \in batch : HasPts(v) => Settled(v)
  BY <1>0, <1>1 DEF Accounted
<1>3. CASE HasGaps
  <2>1. batch' = batch
    BY <1>3 DEF EndOfPass
  <2> QED BY <1>1, <1>2, <2>1 DEF Accounted, Settled, HasPts
<1>4. CASE ~HasGaps
  <2>1. pc' \notin {"apply", "retry"}
    BY <1>0, <1>4 DEF EndOfPass, Return, TypeOK
  <2> QED BY <2>1 DEF Accounted
<1> QED BY <1>3, <1>4

LEMMA AccountedStep ==
  ASSUME SeqInv, [Next]_vars
  PROVE  Accounted'
<1>0. TypeOK /\ Accounted
  BY DEF SeqInv, GapInv, ChainInv
<1>1. CASE pc' \notin {"apply", "retry"}
  BY <1>1 DEF Accounted
<1>2. CASE pc' = "apply" /\ batch' = todo'
  BY <1>2 DEF Accounted
<1>3. CASE UNCHANGED vars
  BY <1>0, <1>3 DEF Accounted, Settled, HasPts, vars, box, gap, loop, scan
<1>4. EndOfRetry => pc' \notin {"apply", "retry"}
  BY <1>0 DEF EndOfRetry, Return, TypeOK
<1>5. CheckDeadlines \/ GetDifference \/ EndDifference \/ GetChannelDifference \/ GiveUpChannel
        \/ EndChannel => pc' \notin {"apply", "retry"}
  BY DEF CheckDeadlines, GetDifference, EndDifference, GetChannelDifference, GiveUpChannel,
     EndChannel, Die, GoOn, StopLoop, WantsChannel, loop
<1>6. ApplyDifferenceEmpty \/ ApplyDifferenceTooLong \/ ApplyChannelEmpty \/ ApplyChannelTooLong
        => pc' \notin {"apply", "retry"}
  BY DEF ApplyDifferenceEmpty, ApplyDifferenceTooLong, ApplyChannelEmpty,
     ApplyChannelTooLong, Die
<1>7. ASSUME NEW final \in BOOLEAN, ApplyDifference(final) \/ ApplyChannel(final)
      PROVE  pc' = "dead" \/ (pc' = "apply" /\ batch' = todo')
  BY <1>7 DEF ApplyDifference, ApplyChannel, Process, Die
<1>8. Receive => pc' = "apply" /\ batch' = todo'
  BY DEF Receive, Process
<1>9. FailDifference \/ FailChannel \/ ReceiveGap \/ TrySetChannelState \/ Load \/ Save
        \/ Reconnect \/ Emit \/ Tick => pc' \notin {"apply", "retry"}
  BY DEF FailDifference, FailChannel, ReceiveGap, Listening, TrySetChannelState, Suspended, Load,
     Save, Reconnect, Emit, Tick, Die, GoOn, StopLoop, loop
<1>10. Loop => Accounted'
  BY <1>1, <1>4, <1>5, ScanAccounted, EndOfPassAccounted DEF Loop
<1>11. ASSUME NEW final \in BOOLEAN, ApplyDifference(final) \/ ApplyChannel(final) PROVE Accounted'
  BY <1>1, <1>2, <1>7, <1>11
<1>12. Reply => Accounted'
  BY <1>1, <1>6, <1>11 DEF Reply
<1> QED BY <1>1, <1>2, <1>3, <1>8, <1>9, <1>10, <1>11, <1>12 DEF Next

LEMMA SeqInvStep ==
  ASSUME Counting, SeqInv, [Next]_vars
  PROVE  SeqInv'
BY GapStep, RootedStep, AccountedStep DEF SeqInv

(* Nothing but process_updates runs until it returns, and only its end     *)
(* takes a seq over.                                                       *)
LEMMA SeqMoves ==
  ASSUME [Next]_vars, pc \in {"apply", "retry"}, seq' # seq
  PROVE  todo = {} /\ seq' = NewSeq /\ UNCHANGED gaps
<1>1. EndOfPass \/ EndOfRetry => todo = {} /\ UNCHANGED gaps /\ (Return \/ UNCHANGED seq)
  BY DEF EndOfPass, EndOfRetry, gap
<1>2. ApplyNew \/ RetryGap \/ UNCHANGED vars => UNCHANGED seq
  BY DEF ApplyNew, RetryGap, vars, box
<1>3. ~CheckDeadlines /\ ~GetDifference /\ ~EndDifference /\ ~GetChannelDifference
        /\ ~GiveUpChannel /\ ~EndChannel
  BY DEF CheckDeadlines, GetDifference, EndDifference, GetChannelDifference, GiveUpChannel,
     EndChannel, WantsChannel
<1>4. ASSUME NEW final \in BOOLEAN PROVE ~ApplyDifference(final) /\ ~ApplyChannel(final)
  BY DEF ApplyDifference, ApplyChannel, AwaitingDifference, AwaitingChannel
<1>5. ~ApplyDifferenceEmpty /\ ~ApplyDifferenceTooLong /\ ~ApplyChannelEmpty
        /\ ~ApplyChannelTooLong /\ ~FailDifference /\ ~FailChannel
  BY DEF ApplyDifferenceEmpty, ApplyDifferenceTooLong, ApplyChannelEmpty, ApplyChannelTooLong,
     FailDifference, FailChannel, AwaitingDifference, AwaitingChannel
<1>6. ~Receive /\ ~ReceiveGap /\ ~TrySetChannelState /\ ~Load /\ ~Save /\ ~Reconnect /\ ~Emit
        /\ ~Tick
  BY DEF Receive, ReceiveGap, Listening, TrySetChannelState, Suspended, Load, Save, Reconnect, Emit,
     Tick
<1>7. ~Reply /\ (Loop => EndOfPass \/ EndOfRetry)
  BY <1>2, <1>3, <1>4, <1>5 DEF Loop, Reply
<1>8. EndOfPass \/ EndOfRetry
  BY <1>2, <1>4, <1>5, <1>6, <1>7 DEF Next
<1> QED BY <1>1, <1>8 DEF Return

(* The seq of a container is acknowledged only when no update waits in a   *)
(* gap and each of its own was applied, was old, or is of an entry whose   *)
(* difference is being fetched.  A channel whose first update has a count  *)
(* of 0 begins one pts too early, inside the update before if that one     *)
(* stands for more than one pts: hence Counting.                           *)
THEOREM SeqIsSettled == ASSUME Counting PROVE Spec => SeqSettled
<1>1. ASSUME SeqInv, [Next]_vars, pc \in {"apply", "retry"}, seq' # seq
      PROVE  /\ ~HasGaps'
             /\ \A u \in {v \in batch : HasPts(v)} :
                  u.entry \in getting \/ map[u.entry] >= u.pts
  <2>0. TypeOK /\ Accounted
    BY <1>1 DEF SeqInv, GapInv, ChainInv
  <2>1. todo = {} /\ seq' = NewSeq /\ UNCHANGED gaps
    BY <1>1, SeqMoves
  <2>2. ~HasGaps
    BY <1>1, <2>1 DEF NewSeq
  <2>3. ~HasGaps'
    BY <2>1, <2>2 DEF HasGaps
  <2>4. ASSUME NEW u \in batch, HasPts(u) PROVE u.entry \in getting \/ map[u.entry] >= u.pts
    <3>1. Settled(u)
      BY <1>1, <2>0, <2>1, <2>4 DEF Accounted
    <3>2. u.entry \in Entries
      BY <2>0, <2>4, BatchNumbered
    <3> QED BY <2>2, <3>1, <3>2 DEF Settled, HasGaps
  <2> QED BY <2>3, <2>4
<1>2. SeqInv /\ [Next]_vars =>
        [(pc \in {"apply", "retry"} /\ seq' # seq) =>
           /\ ~HasGaps'
           /\ \A u \in {v \in batch : HasPts(v)} :
                u.entry \in getting \/ map[u.entry] >= u.pts]_vars
  BY <1>1
<1>3. SeqInv /\ [Next]_vars => SeqInv'
  BY SeqInvStep
<1> QED BY <1>2, <1>3, InitSeq, PTL DEF Spec, SeqSettled
=============================================================================
