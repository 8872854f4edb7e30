------------------------ MODULE MTProtoStateProofs ------------------------
(***************************************************************************)
(* The ids and sequence numbers of a session agree, a message is handled   *)
(* once, no request is lost, and callers are told the truth: proofs about  *)
(* MTProtoState for any number of requests, any sizes and limits, any      *)
(* clock and any faults.                                                   *)
(***************************************************************************)
EXTENDS MTProtoState, FiniteSetTheorems, SequenceTheorems, WellFoundedInduction, TLAPS

IsMessage(m) ==
  /\ m.id \in Int
  /\ m = [id |-> m.id, type |-> m.type, ref |-> m.ref, sent |-> m.sent, boxed |-> m.boxed,
          salt |-> m.salt]

(* Ids, sequence numbers and clocks are integers. *)
Numbers ==
  /\ time \in Nat
  /\ skew \in Int /\ offset \in Int /\ last \in Int /\ sequence \in Int
  /\ epoch \in Int /\ top \in Int
  /\ \A m \in down : IsMessage(m)

(* Packets are sequences of messages, and wait in a sequence. *)
Shape ==
  /\ \E P : up \in Seq(P)
  /\ \A i \in DOMAIN up : \E M : up[i].msgs \in Seq(M)

(* What the server has executed or is yet to get. *)
AllSent == seen \cup UNION {Contents(up[i]) : i \in DOMAIN up}

(* Nothing that was sent since the last correction is ahead of the state.  *)
Covered(s, l, n, e) ==
  /\ s.id \in Int /\ s.seq \in Int /\ s.epoch \in Int
  /\ s.epoch <= e
  /\ s.epoch = e => s.id <= l /\ s.seq <= 2 * n

Current == \A s \in AllSent : Covered(s, last, sequence, epoch)

OrderInv == Numbers /\ Shape /\ Current /\ OrderAgrees

-----------------------------------------------------------------------------
(* Numbers                                                                 *)

LEMMA Least ==
  ASSUME NEW S, S \subseteq Nat, S # {}
  PROVE  Min(S) \in S /\ \A y \in S : Min(S) <= y
<1> DEFINE R == {p \in Nat \X Nat : p[1] < p[2]}
<1>1. IsWellFoundedOn(R, Nat)
  <2>1. R = OpToRel(<, Nat)
    BY Zenon DEF OpToRel
  <2> HIDE DEF R
  <2> QED BY <2>1, NatLessThanWellFounded, Zenon
<1>2. PICK x \in S : \A y \in S : ~ (<<y, x>> \in R)
  <2> HIDE DEF R
  <2> QED BY <1>1, WFMin, Zenon
<1>3. ASSUME NEW y \in S PROVE x <= y
  <2>1. x \in Nat /\ y \in Nat /\ <<y, x>> \notin R
    BY <1>2
  <2>2. ~ (y < x)
    BY <2>1
  <2> QED BY <2>1, <2>2
<1> QED BY <1>3 DEF Min

LEMMA BatchIsSequence ==
  ASSUME NEW q
  PROVE  \E n \in Nat : Batch(q) = [i \in 1..n |-> q[i]]
<1> DEFINE ends == {n \in 0..MaxLength + 1 :
                      n \in {MaxLength + 1, MaxSize} \/ (n < Len(q) => q[n + 1] \in big)}
<1>1. ends \subseteq Nat /\ MaxLength + 1 \in ends
  BY StateAssumption DEF StateAssumption
<1>2. Min(ends) \in Nat
  BY <1>1, Least
<1> HIDE DEF ends
<1> QED BY <1>2 DEF Batch, ends

(* The clock's readings, seconds and corrections. *)
LEMMA ClockNumbers ==
  ASSUME Numbers
  PROVE  /\ \A f \in 0..Slots - 1 : Reading(f) \in Int
         /\ \A n : Instants(n) \subseteq 0..Slots - 1
         /\ NextId \in Int
         /\ \A id \in Int : Second(id) \in Int /\ Correct(id) \in Int
<1> USE StateAssumption DEF StateAssumption, Numbers
<1>1. \A f \in 0..Slots - 1 : Reading(f) \in Int
  BY DEF Reading
<1>2. \A n : Instants(n) \subseteq 0..Slots - 1
  BY DEF Instants
<1>3. NextId \in Int
  BY DEF NextId
<1>4. \A id \in Int : Second(id) \in Int /\ Correct(id) \in Int
  BY DEF Second, Correct
<1> QED BY <1>1, <1>2, <1>3, <1>4

(* A correction leaves the last id alone or lets it grow, unless it changes *)
(* the offset. *)
LEMMA OffsetUpdates ==
  ASSUME Numbers, NEW id \in Int, NEW o \in Int, NEW l \in Int, NEW f \in 0..Slots - 1
  PROVE  LET c == UpdateTimeOffset(id, o, l, f) IN
         c.offset = Correct(id) /\ c.last \in Int /\ (c.offset = o => c.last >= l)
<1>1. (time + skew + o) * Slots + f \in Int /\ Correct(id) \in Int
  BY StateAssumption, ClockNumbers DEF StateAssumption, Numbers
<1>2. NewId(l, (time + skew + o) * Slots + f) \in Int
      /\ NewId(l, (time + skew + o) * Slots + f) >= l
  BY <1>1 DEF NewId
<1> QED BY <1>1, <1>2 DEF UpdateTimeOffset

LEMMA FirstOffsets ==
  ASSUME Numbers, NEW m, m.id \in Int, NEW f \in 0..Slots - 1
  PROVE  LET c == FirstOffset(m, f) IN
         /\ c.offset \in {offset, Correct(m.id)}
         /\ c.last \in Int
         /\ c.offset = offset => c.last >= last
<1>1. LET c == UpdateTimeOffset(m.id, offset, last, f) IN
      c.offset = Correct(m.id) /\ c.last \in Int /\ (c.offset = offset => c.last >= last)
  BY OffsetUpdates DEF Numbers
<1> QED BY <1>1 DEF FirstOffset, Numbers
-----------------------------------------------------------------------------
(* Ids and sequence numbers grow together                                  *)

LEMMA InitOrder == Init => OrderInv
<1> SUFFICES ASSUME Init PROVE OrderInv
  OBVIOUS
<1>1. Numbers
  BY StateAssumption DEF Init, Numbers, StateAssumption
<1>2. up = <<>> /\ seen = {} /\ up \in Seq({})
  BY DEF Init
<1> QED BY <1>1, <1>2 DEF OrderInv, Shape, Current, AllSent, OrderAgrees

(* Nothing is sent and nothing arrives: the state may be corrected.        *)
LEMMA Corrections ==
  ASSUME Shape, Current, OrderAgrees, UNCHANGED <<up, seen>>, epoch \in Int, epoch' \in Int,
         last' \in Int, sequence' \in Int, last \in Int, sequence \in Int,
         \/ epoch' > epoch
         \/ epoch' = epoch /\ last' >= last /\ sequence' >= sequence
  PROVE  Shape' /\ Current' /\ OrderAgrees'
<1>1. AllSent' = AllSent
  BY DEF AllSent, Contents, Sent
<1>2. ASSUME NEW s \in AllSent PROVE Covered(s, last', sequence', epoch')
  BY <1>2 DEF Current, Covered
<1>3. Current'
  BY <1>1, <1>2 DEF Current
<1>4. OrderAgrees' /\ Shape'
  BY DEF OrderAgrees, Shape, Contents, Sent, Before
<1> QED BY <1>3, <1>4

(* The server takes the first packet and refuses it, or executes part.     *)
LEMMA Arrivals ==
  ASSUME OrderInv, up # <<>>, up' = Tail(up), UNCHANGED <<last, sequence, epoch>>,
         NEW I \in SUBSET DOMAIN Head(up).msgs,
         seen' = seen \cup {Sent(Head(up), i) : i \in I}
  PROVE  Shape' /\ Current' /\ OrderAgrees'
<1> DEFINE p == Head(up)
<1>0. PICK P : up \in Seq(P)
  BY DEF OrderInv, Shape
<1>1. /\ DOMAIN up' = 1..(Len(up) - 1) /\ DOMAIN up = 1..Len(up) /\ Len(up) \in Nat
      /\ \A i \in DOMAIN up' : up'[i] = up[i + 1]
      /\ 1 \in DOMAIN up /\ p = up[1]
      /\ up' \in Seq(P)
  BY <1>0
<1>2. Shape'
  BY <1>0, <1>1 DEF OrderInv, Shape
<1>3. \A i \in DOMAIN up' : Contents(up'[i]) = Contents(up[i + 1]) /\ i + 1 \in DOMAIN up
  BY <1>1
<1>4. {Sent(p, i) : i \in I} \subseteq Contents(p)
  BY DEF Contents
<1>5. AllSent' \subseteq AllSent
  <2> SUFFICES ASSUME NEW s \in AllSent' PROVE s \in AllSent
    OBVIOUS
  <2>1. CASE s \in seen'
    BY <2>1, <1>1, <1>4 DEF AllSent
  <2>2. CASE \E i \in DOMAIN up' : s \in Contents(up[i + 1])
    BY <2>2, <1>3 DEF AllSent
  <2> QED BY <2>1, <2>2, <1>3 DEF AllSent, Contents, Sent
<1>6. Current'
  BY <1>5 DEF OrderInv, Current
<1> HIDE DEF p
<1>7. \A a, b \in seen' : a = b \/ Before(a, b) \/ Before(b, a)
  <2>1. \A a \in seen, b \in Contents(p) : Before(a, b)
    BY <1>1 DEF OrderInv, OrderAgrees
  <2>2. \A a, b \in seen : a = b \/ Before(a, b) \/ Before(b, a)
    BY DEF OrderInv, OrderAgrees
  <2>3. ASSUME NEW i \in I, NEW j \in I
        PROVE  i = j \/ Before(Sent(p, i), Sent(p, j)) \/ Before(Sent(p, j), Sent(p, i))
    <3>1. i \in Nat /\ j \in Nat /\ i \in DOMAIN p.msgs /\ j \in DOMAIN p.msgs
      BY <1>1 DEF OrderInv, Shape, p
    <3> QED BY <3>1, <1>1 DEF OrderInv, OrderAgrees
  <2> QED BY <2>1, <2>2, <2>3, <1>4 DEF p
<1>8. ASSUME NEW i \in DOMAIN up' PROVE \A a \in seen', b \in Contents(up'[i]) : Before(a, b)
  <2>1. i + 1 \in DOMAIN up /\ 1 < i + 1
    BY <1>1
  <2>2. \A a \in seen \cup Contents(p), b \in Contents(up[i + 1]) : Before(a, b)
    BY <1>1, <2>1 DEF OrderInv, OrderAgrees
  <2> QED BY <2>2, <1>3, <1>4 DEF p
<1>9. ASSUME NEW i \in DOMAIN up'
      PROVE  /\ \A m, n \in DOMAIN up'[i].msgs : m < n =>
                  Before(Sent(up'[i], m), Sent(up'[i], n)) /\ Before(Sent(up'[i], n), up'[i])
             /\ \A j \in DOMAIN up' : i < j =>
                  \A a \in Contents(up'[i]), b \in Contents(up'[j]) : Before(a, b)
  <2>1. up'[i] = up[i + 1] /\ i + 1 \in DOMAIN up /\ i \in Nat
    BY <1>1
  <2>2. ASSUME NEW j \in DOMAIN up', i < j
        PROVE up'[j] = up[j + 1] /\ j + 1 \in DOMAIN up /\ i + 1 < j + 1
    BY <1>1, <2>2
  <2> QED BY <2>1, <2>2 DEF OrderInv, OrderAgrees
<1>10. OrderAgrees'
  BY <1>7, <1>8, <1>9 DEF OrderAgrees, Contents, Sent, Before
<1> QED BY <1>2, <1>6, <1>10

(* A new packet: everything in it is beyond what was sent, in order. *)
LEMMA Departures ==
  ASSUME OrderInv, NEW k \in Nat \ {0}, NEW batch, batch = [i \in 1..k |-> batch[i]],
         NEW now \in Int, Mail(batch, now), UNCHANGED <<seen, epoch>>
  PROVE  /\ last' \in Int /\ sequence' \in Int
         /\ Shape' /\ Current' /\ OrderAgrees'
<1> DEFINE p == Packet(batch, now)
           first == NewId(last, now)
<1>0. PICK P : up \in Seq(P)
  BY DEF OrderInv, Shape
<1>1. first \in Int /\ first > last /\ last \in Int /\ sequence \in Int /\ epoch \in Int
  BY DEF NewId, OrderInv, Numbers
<1>2. Len(batch) = k
  OBVIOUS
<1> HIDE DEF first
<1>3. /\ p.msgs = [i \in 1..k |-> Message(batch[i], i, now)]
      /\ p.id = first + (IF k > 1 THEN k ELSE 0)
      /\ p.seq = IF k > 1 THEN 2 * (sequence + k) ELSE 2 * sequence + 1
      /\ p.epoch = epoch
  BY <1>2 DEF Packet, first
<1>4. \A i \in 1..k : p.msgs[i].id = first + i - 1 /\ p.msgs[i].seq = 2 * (sequence + i) - 1
  BY <1>3 DEF Message, first
<1>5. last' = p.id /\ sequence' = sequence + k /\ up' = Append(up, p)
  BY <1>2 DEF Mail
<1> HIDE DEF p
<1>6. \A i \in 1..k : Sent(p, i) = [id |-> first + i - 1, seq |-> 2 * (sequence + i) - 1,
                                    epoch |-> epoch]
  BY <1>3, <1>4 DEF Sent
<1>7. ASSUME NEW s \in Contents(p)
      PROVE  /\ s.id \in Int /\ s.seq \in Int /\ s.epoch = epoch
             /\ last < s.id /\ 2 * sequence < s.seq
             /\ s.id <= last' /\ s.seq <= 2 * sequence'
  <2>1. CASE s = [id |-> p.id, seq |-> p.seq, epoch |-> p.epoch]
    BY <2>1, <1>1, <1>3, <1>5
  <2>2. CASE \E i \in 1..k : s = Sent(p, i)
    <3>1. PICK i \in 1..k : s = [id |-> first + i - 1, seq |-> 2 * (sequence + i) - 1,
                                 epoch |-> epoch]
      BY <2>2, <1>6
    <3>2. s.id = first + i - 1 /\ s.seq = 2 * (sequence + i) - 1 /\ s.epoch = epoch
      BY <3>1
    <3>3. CASE k = 1
      <4>1. i = 1 /\ p.id = first
        BY <3>3, <1>1, <1>3
      <4> QED BY <3>2, <3>3, <4>1, <1>1, <1>5
    <3>4. CASE k > 1
      <4>1. last' = first + k /\ sequence' = sequence + k
        BY <3>4, <1>3, <1>5
      <4>2. first + i - 1 \in Int /\ last < first + i - 1 /\ first + i - 1 <= first + k
        BY <1>1
      <4>3. /\ 2 * (sequence + i) - 1 \in Int /\ 2 * sequence < 2 * (sequence + i) - 1
            /\ 2 * (sequence + i) - 1 <= 2 * (sequence + k)
        BY <1>1
      <4> QED BY <3>2, <4>1, <4>2, <4>3
    <3> QED BY <3>3, <3>4
  <2> QED BY <2>1, <2>2, <1>3 DEF Contents
<1>8. /\ DOMAIN up' = 1..(Len(up) + 1) /\ DOMAIN up = 1..Len(up) /\ Len(up) \in Nat
      /\ \A i \in DOMAIN up : up'[i] = up[i]
      /\ up'[Len(up) + 1] = p
      /\ up' \in Seq(P \cup {p})
  <2>1. up \in Seq(P \cup {p})
    BY <1>0
  <2> QED BY <2>1, <1>5
<1>9. last' \in Int /\ sequence' \in Int /\ last <= last' /\ sequence <= sequence'
  BY <1>1, <1>3, <1>5
<1>10. Shape'
  <2>1. \E M : p.msgs \in Seq(M)
    <3> DEFINE msgs == {Message(batch[i], i, now) : i \in 1..k}
    <3>1. p.msgs \in [1..k -> msgs]
      BY <1>3
    <3> HIDE DEF msgs
    <3>2. p.msgs \in Seq(msgs)
      BY <3>1
    <3> QED BY <3>2
  <2>2. \E Q : up' \in Seq(Q)
    BY <1>8
  <2>3. ASSUME NEW i \in DOMAIN up' PROVE \E M : up'[i].msgs \in Seq(M)
    <3>1. CASE i \in DOMAIN up
      BY <3>1, <1>8 DEF OrderInv, Shape
    <3>2. CASE i = Len(up) + 1
      BY <3>2, <2>1, <1>8
    <3> QED BY <3>1, <3>2, <1>8
  <2> QED BY <2>2, <2>3 DEF Shape
<1>11. AllSent' = AllSent \cup Contents(p)
  <2>1. \A s : (\E i \in DOMAIN up' : s \in Contents(up'[i]))
           <=> (\E i \in DOMAIN up : s \in Contents(up[i])) \/ s \in Contents(p)
    BY <1>8
  <2>2. AllSent' = seen \cup UNION {Contents(up'[i]) : i \in DOMAIN up'}
    BY DEF AllSent, Contents, Sent
  <2> QED BY <2>1, <2>2 DEF AllSent
<1>12. Current'
  <2>1. ASSUME NEW s \in AllSent' PROVE Covered(s, last', sequence', epoch')
    <3>1. CASE s \in AllSent
      BY <3>1, <1>1, <1>9 DEF OrderInv, Current, Covered
    <3>2. CASE s \in Contents(p)
      BY <3>2, <1>1, <1>7 DEF Covered
    <3> QED BY <3>1, <3>2, <1>11
  <2> QED BY <2>1 DEF Current
<1>13. ASSUME NEW a \in AllSent, NEW b \in Contents(p) PROVE Before(a, b)
  <2>1. Covered(a, last, sequence, epoch)
    BY DEF OrderInv, Current
  <2> QED BY <2>1, <1>1, <1>7 DEF Covered, Before
<1>14. \A m, n \in DOMAIN p.msgs : m < n =>
         Before(Sent(p, m), Sent(p, n)) /\ Before(Sent(p, n), p)
  <2>1. ASSUME NEW m \in 1..k, NEW n \in 1..k, m < n
        PROVE Before(Sent(p, m), Sent(p, n)) /\ Before(Sent(p, n), p)
    <3>1. k > 1
      BY <2>1
    <3>2. p.id = first + k /\ p.seq = 2 * (sequence + k)
      BY <3>1, <1>3
    <3>3. /\ Sent(p, m).id = first + m - 1 /\ Sent(p, m).seq = 2 * (sequence + m) - 1
          /\ Sent(p, n).id = first + n - 1 /\ Sent(p, n).seq = 2 * (sequence + n) - 1
      BY <1>6
    <3>4. first + m - 1 < first + n - 1 /\ first + n - 1 < first + k
      BY <2>1, <1>1
    <3>5. /\ 2 * (sequence + m) - 1 < 2 * (sequence + n) - 1
          /\ 2 * (sequence + n) - 1 < 2 * (sequence + k)
      BY <2>1, <1>1
    <3> QED BY <3>2, <3>3, <3>4, <3>5, Zenon DEF Before
  <2> QED BY <2>1, <1>3
<1>15. OrderAgrees'
  <2>1. \A a, b \in seen' : a = b \/ Before(a, b) \/ Before(b, a)
    BY DEF OrderInv, OrderAgrees
  <2>2. ASSUME NEW i \in DOMAIN up'
        PROVE  \A a \in seen', b \in Contents(up'[i]) : Before(a, b)
    <3>1. CASE i \in DOMAIN up
      BY <3>1, <1>8 DEF OrderInv, OrderAgrees
    <3>2. CASE i = Len(up) + 1
      BY <3>2, <1>8, <1>13 DEF AllSent
    <3> QED BY <3>1, <3>2, <1>8
  <2>3. ASSUME NEW i \in DOMAIN up'
        PROVE  \A m, n \in DOMAIN up'[i].msgs : m < n =>
                 Before(Sent(up'[i], m), Sent(up'[i], n)) /\ Before(Sent(up'[i], n), up'[i])
    <3>1. CASE i \in DOMAIN up
      BY <3>1, <1>8 DEF OrderInv, OrderAgrees
    <3>2. CASE i = Len(up) + 1
      BY <3>2, <1>8, <1>14
    <3> QED BY <3>1, <3>2, <1>8
  <2>4. ASSUME NEW i \in DOMAIN up', NEW j \in DOMAIN up', i < j
        PROVE  \A a \in Contents(up'[i]), b \in Contents(up'[j]) : Before(a, b)
    <3>1. i \in DOMAIN up
      BY <2>4, <1>8
    <3>2. CASE j \in DOMAIN up
      BY <2>4, <3>1, <3>2, <1>8 DEF OrderInv, OrderAgrees
    <3>3. CASE j = Len(up) + 1
      <4>1. \A a \in Contents(up[i]) : a \in AllSent
        BY <3>1 DEF AllSent
      <4> QED BY <3>1, <3>3, <4>1, <1>8, <1>13
    <3> QED BY <3>2, <3>3, <1>8
  <2> QED BY <2>1, <2>2, <2>3, <2>4 DEF OrderAgrees, Contents, Sent, Before
<1> QED BY <1>9, <1>10, <1>12, <1>15

-----------------------------------------------------------------------------
(* The steps                                                               *)

LEMMA SendOrder ==
  ASSUME OrderInv, Send
  PROVE  OrderInv'
<1>1. UNCHANGED <<seen, epoch, time, skew, offset, top, down>>
  BY DEF Send, clock, server, ghosts
<1>2. CASE UNCHANGED <<last, sequence, up>>
  <2>1. Numbers'
    BY <1>1, <1>2 DEF OrderInv, Numbers
  <2> QED BY <1>1, <1>2, <2>1, Corrections DEF OrderInv, Numbers
<1>3. CASE ~UNCHANGED <<last, sequence, up>>
  <2>0. PICK rest : /\ Batch(rest) # <<>>
                    /\ \E f \in Instants(Len(Batch(rest))) : Mail(Batch(rest), Reading(f))
    BY <1>3 DEF Send
  <2>1. PICK f \in Instants(Len(Batch(rest))) : Mail(Batch(rest), Reading(f))
    BY <2>0
  <2>2. PICK k \in Nat : Batch(rest) = [i \in 1..k |-> rest[i]]
    BY BatchIsSequence
  <2>3. k # 0
    BY <2>0, <2>2
  <2>4. Batch(rest) = [i \in 1..k |-> Batch(rest)[i]]
    BY <2>2
  <2>5. Reading(f) \in Int
    BY ClockNumbers DEF OrderInv
  <2>6. last' \in Int /\ sequence' \in Int /\ Shape' /\ Current' /\ OrderAgrees'
    BY <1>1, <2>1, <2>3, <2>4, <2>5, Departures
  <2>7. Numbers'
    BY <1>1, <2>6 DEF OrderInv, Numbers
  <2> QED BY <2>6, <2>7 DEF OrderInv
<1> QED BY <1>2, <1>3

LEMMA ServerOrder ==
  ASSUME OrderInv,
         \/ Serve
         \/ \E t \in {"salt", "low", "high"} : Refuse(t)
         \/ RefuseSeq("seqlow") \/ RefuseSeq("seqhigh")
  PROVE  OrderInv'
<1>1. /\ up # <<>> /\ up' = Tail(up)
      /\ UNCHANGED <<last, sequence, epoch, time, skew, offset>>
  BY DEF Serve, Refuse, RefuseSeq, clock, state, ghosts
<1>2. PICK I \in SUBSET DOMAIN Head(up).msgs : seen' = seen \cup {Sent(Head(up), i) : i \in I}
  <2>1. CASE Serve
    <3> DEFINE I == {i \in DOMAIN Head(up).msgs : \A s \in seen : s.id # Head(up).msgs[i].id}
    <3>1. I \in SUBSET DOMAIN Head(up).msgs /\ seen' = seen \cup {Sent(Head(up), i) : i \in I}
      BY <2>1 DEF Serve
    <3> HIDE DEF I
    <3> QED BY <3>1
  <2>2. CASE UNCHANGED seen
    <3>1. {} \in SUBSET DOMAIN Head(up).msgs /\ seen' = seen \cup {Sent(Head(up), i) : i \in {}}
      BY <2>2
    <3> QED BY <3>1
  <2> QED BY <2>1, <2>2 DEF Refuse, RefuseSeq
<1>3. Shape' /\ Current' /\ OrderAgrees'
  BY <1>1, <1>2, Arrivals
<1>4. NextId \in Int
  BY ClockNumbers DEF OrderInv
<1>5. top' \in Int /\ \A m \in down' : IsMessage(m)
  <2>1. CASE Serve
    <3>1. PICK M : Head(up).msgs \in Seq(M)
      <4>1. PICK P : up \in Seq(P)
        BY DEF OrderInv, Shape
      <4>2. 1 \in DOMAIN up /\ Head(up) = up[1]
        BY <1>1, <4>1
      <4> QED BY <4>2 DEF OrderInv, Shape
    <3>2. Len(Head(up).msgs) \in Nat /\ DOMAIN Head(up).msgs \subseteq Nat
      BY <3>1
    <3>3. \A i \in Int : \A t, r : IsMessage(Reply(t, r, i))
      BY <1>4 DEF Reply, IsMessage
    <3>4. top' \in Int
      BY <2>1, <3>2, <1>4 DEF Serve, OrderInv, Numbers
    <3>5. ASSUME NEW m \in down', m \notin down
          PROVE  \E i \in DOMAIN Head(up).msgs : m = Reply("result", Head(up).msgs[i].id, i - 1)
      BY <2>1, <3>5 DEF Serve
    <3>6. \A i \in DOMAIN Head(up).msgs : i - 1 \in Int
      BY <3>2
    <3> QED BY <3>3, <3>4, <3>5, <3>6 DEF OrderInv, Numbers
  <2>2. CASE \E t : /\ down' = down \cup {Reply(t, Head(up).id, 0)}
                    /\ top' = NextId
    BY <2>2, <1>4 DEF Reply, OrderInv, Numbers, IsMessage
  <2> QED BY <2>1, <2>2 DEF Refuse, RefuseSeq
<1>6. Numbers'
  BY <1>1, <1>5 DEF OrderInv, Numbers
<1> QED BY <1>3, <1>6 DEF OrderInv

(* The server says something of its own accord, or fills a container.      *)
Telling == Notify("note") \/ Notify("session") \/ \E m \in down : Enclose(m)

Boxed(m) ==
  [id |-> NextId, type |-> m.type, ref |-> m.ref, sent |-> m.sent, boxed |-> TRUE,
   salt |-> m.salt]

LEMMA Told ==
  ASSUME Numbers, Telling
  PROVE  /\ UNCHANGED <<time, skew, big, offset, last, sequence, salt, recent, highest>>
         /\ UNCHANGED <<queue, msgId, contId, pending, loop, fut, up, seen, ran, epoch, log, missed>>
         /\ top' = NextId /\ NextId + 0 < (time + 1) * Slots
         /\ Count("note") \/ Count("box")
         /\ \A x \in down' :
              \/ x \in down
              \/ x = Reply("note", 0, 0) \/ x = Reply("session", 0, 0)
              \/ \E m \in down : m.sent = time /\ x = Boxed(m)
<1>1. CASE \E t \in {"note", "session"} : Notify(t)
  BY <1>1 DEF Notify, clock, state, packer, ghosts, Room
<1>2. ASSUME NEW m \in down, Enclose(m)
      PROVE  \A x \in down' : x \in down \/ (m.sent = time /\ x = Boxed(m))
  <2>1. IsMessage(m)
    BY DEF Numbers
  <2> DEFINE x == [m EXCEPT !.id = NextId]
  <2>2. x = [id |-> NextId, type |-> m.type, ref |-> m.ref, sent |-> m.sent,
             boxed |-> m.boxed, salt |-> m.salt]
    BY <2>1 DEF IsMessage
  <2>3. [x EXCEPT !.boxed = TRUE] = Boxed(m)
    <3> HIDE DEF x
    <3>1. ASSUME NEW b
          PROVE  [x EXCEPT !.boxed = b]
                   = [id |-> NextId, type |-> m.type, ref |-> m.ref, sent |-> m.sent,
                      boxed |-> b, salt |-> m.salt]
      BY <2>2
    <3> QED BY <3>1, Zenon DEF Boxed
  <2>4. [m EXCEPT !.id = NextId, !.boxed = TRUE] = [x EXCEPT !.boxed = TRUE]
    OBVIOUS
  <2> QED BY <1>2, <2>3, <2>4, Zenon DEF Enclose
<1>3. CASE \E m \in down : Enclose(m)
  <2>1. PICK m \in down : Enclose(m)
    BY <1>3
  <2>2. \A x \in down' : x \in down \/ (m.sent = time /\ x = Boxed(m))
    BY <1>2, <2>1
  <2> QED BY <2>1, <2>2 DEF Enclose, clock, state, packer, ghosts, Room
<1> QED BY <1>1, <1>3 DEF Telling

LEMMA OtherOrder ==
  ASSUME OrderInv,
         \/ \E r \in Requests : Submit(r) \/ Cancel(r)
         \/ Telling \/ Rotate \/ Tick \/ Jump \/ UNCHANGED vars
  PROVE  OrderInv'
<1>1. UNCHANGED <<up, seen, last, sequence, epoch, offset>>
  <2>1. CASE Telling
    BY <2>1, Told DEF OrderInv
  <2> QED BY <2>1 DEF Submit, Cancel, Rotate, Tick, Jump, vars, clock, state, server, ghosts
<1>2. time' \in Nat /\ skew' \in Int
  <2>1. CASE Tick
    BY <2>1 DEF Tick, OrderInv, Numbers
  <2>2. CASE Jump
    BY <2>2, StateAssumption DEF Jump, Skews, StateAssumption, OrderInv, Numbers
  <2>3. CASE UNCHANGED <<time, skew>>
    BY <2>3 DEF OrderInv, Numbers
  <2>4. CASE Telling
    BY <2>3, <2>4, Told DEF OrderInv
  <2> QED BY <2>1, <2>2, <2>3, <2>4 DEF Submit, Cancel, Rotate, vars, clock
<1>3. top' \in Int /\ \A m \in down' : IsMessage(m)
  <2>1. CASE Telling
    <3>1. NextId \in Int /\ Numbers
      BY ClockNumbers DEF OrderInv
    <3>2. IsMessage(Reply("note", 0, 0)) /\ IsMessage(Reply("session", 0, 0))
      BY <3>1 DEF Reply, IsMessage
    <3>3. \A m : IsMessage(Boxed(m))
      BY <3>1 DEF Boxed, IsMessage
    <3>4. \A m \in down' : IsMessage(m)
      BY <2>1, <3>1, <3>2, <3>3, Told DEF Numbers
    <3> QED BY <2>1, <3>1, <3>4, Told
  <2>2. CASE UNCHANGED <<top, down>>
    BY <2>2 DEF OrderInv, Numbers
  <2> QED BY <2>1, <2>2 DEF Submit, Cancel, Rotate, Tick, Jump, vars, server
<1>4. Numbers'
  BY <1>1, <1>2, <1>3 DEF OrderInv, Numbers
<1> QED BY <1>1, <1>4, Corrections DEF OrderInv, Numbers

LEMMA ResetOrder ==
  ASSUME OrderInv, Reset
  PROVE  OrderInv'
<1>1. up' = <<>> /\ seen' = {} /\ up' \in Seq({})
  BY DEF Reset
<1>2. Numbers'
  BY DEF Reset, clock, OrderInv, Numbers
<1> QED BY <1>1, <1>2 DEF OrderInv, Shape, Current, AllSent, OrderAgrees

(* A handler changes the offset or the sequence only with a new epoch, and *)
(* else lets the last id grow. *)
LEMMA HandlersCorrect ==
  ASSUME Numbers, NEW m \in down,
         HandleResult(m) \/ HandleNote(m) \/ HandleSalt(m) \/ HandleTime(m) \/ HandleSeq(m)
  PROVE  /\ offset' \in Int /\ last' \in Int /\ sequence' \in Int /\ epoch' \in Int
         /\ \/ epoch' > epoch
            \/ epoch' = epoch /\ last' >= last /\ sequence' >= sequence
<1>0. /\ m.id \in Int /\ Correct(m.id) \in Int /\ Instants(0) \subseteq 0..Slots - 1
      /\ offset \in Int /\ last \in Int /\ sequence \in Int /\ epoch \in Int
  BY ClockNumbers DEF Numbers, IsMessage
<1>1. CASE HandleResult(m) \/ HandleNote(m)
  BY <1>0, <1>1 DEF HandleResult, HandleNote
<1>2. CASE HandleSalt(m)
  <2>1. PICK f \in 0..Slots - 1 : Clock(FirstOffset(m, f))
    BY <1>0, <1>2 DEF HandleSalt
  <2>2. offset' \in Int /\ last' \in Int /\ (offset' = offset => last' >= last)
    BY <1>0, <2>1, FirstOffsets DEF Clock
  <2>3. sequence' = sequence /\ epoch' = IF offset' # offset THEN epoch + 1 ELSE epoch
    BY <1>2 DEF HandleSalt, NewEpoch
  <2> QED BY <1>0, <2>2, <2>3
<1>3. CASE HandleTime(m)
  <2>1. PICK f \in 0..Slots - 1 :
          LET c == FirstOffset(m, f) IN Clock(UpdateTimeOffset(m.id, c.offset, c.last, f))
    BY <1>0, <1>3 DEF HandleTime
  <2> DEFINE c == FirstOffset(m, f)
  <2>2. c.offset \in {offset, Correct(m.id)} /\ c.last \in Int
        /\ (c.offset = offset => c.last >= last)
    BY <1>0, FirstOffsets
  <2> HIDE DEF c
  <2>3. /\ offset' = Correct(m.id) /\ last' \in Int
        /\ (offset' = c.offset => last' >= c.last)
    <3> DEFINE d == UpdateTimeOffset(m.id, c.offset, c.last, f)
    <3>1. c.offset \in Int
      BY <1>0, <2>2
    <3>2. d.offset = Correct(m.id) /\ d.last \in Int /\ (d.offset = c.offset => d.last >= c.last)
      BY <1>0, <2>2, <3>1, OffsetUpdates
    <3>3. offset' = d.offset /\ last' = d.last
      BY <2>1 DEF Clock, c
    <3> QED BY <3>2, <3>3
  <2>4. offset' = offset => last' >= last
    BY <1>0, <2>2, <2>3
  <2>5. sequence' = sequence /\ epoch' = IF offset' # offset THEN epoch + 1 ELSE epoch
    BY <1>3 DEF HandleTime, NewEpoch
  <2> QED BY <1>0, <2>3, <2>4, <2>5
<1>4. CASE HandleSeq(m)
  <2>1. PICK f \in 0..Slots - 1 : Clock(FirstOffset(m, f))
    BY <1>0, <1>4 DEF HandleSeq
  <2>2. offset' \in Int /\ last' \in Int
    BY <1>0, <2>1, FirstOffsets DEF Clock
  <2>3. sequence' \in Int /\ epoch' = epoch + 1
    BY <1>0, <1>4, StateAssumption DEF HandleSeq, NewEpoch, StateAssumption
  <2> QED BY <1>0, <2>2, <2>3
<1> QED BY <1>1, <1>2, <1>3, <1>4

Again(m) ==
  [id |-> m.id, type |-> m.type, ref |-> m.ref, sent |-> time, boxed |-> m.boxed,
   salt |-> m.salt]

LEMMA ReceiveOrder ==
  ASSUME OrderInv, NEW m \in down, Receive(m)
  PROVE  OrderInv'
<1>1. UNCHANGED <<up, seen, top, time, skew>>
  BY DEF Receive, clock, server
<1>2. \A n \in down' : IsMessage(n)
  <2>1. ASSUME NEW n \in down' PROVE n \in down \/ n = [m EXCEPT !.sent = time]
    BY DEF Receive, Delivered
  <2>2. IsMessage(m)
    BY DEF OrderInv, Numbers
  <2>3. IsMessage(Again(m))
    BY <2>2 DEF IsMessage, Again
  <2>4. [m EXCEPT !.sent = time] = Again(m)
    BY <2>2 DEF IsMessage, Again
  <2> QED BY <2>1, <2>3, <2>4 DEF OrderInv, Numbers
<1>3. /\ offset' \in Int /\ last' \in Int /\ sequence' \in Int /\ epoch' \in Int
      /\ \/ epoch' > epoch
         \/ epoch' = epoch /\ last' >= last /\ sequence' >= sequence
  <2>1. CASE Ignored(m)
    BY <2>1 DEF Receive, state, OrderInv, Numbers
  <2>2. CASE ~Ignored(m)
    BY <2>2, HandlersCorrect DEF Receive, OrderInv
  <2> QED BY <2>1, <2>2
<1>4. Numbers'
  BY <1>1, <1>2, <1>3 DEF OrderInv, Numbers
<1> QED BY <1>1, <1>3, <1>4, Corrections DEF OrderInv, Numbers

LEMMA OrderStep == OrderInv /\ [Next]_vars => OrderInv'
<1> SUFFICES ASSUME OrderInv, [Next]_vars PROVE OrderInv'
  OBVIOUS
<1>1. CASE Send
  BY <1>1, SendOrder
<1>2. CASE Answering \/ RefuseSeq("seqlow") \/ RefuseSeq("seqhigh")
  BY <1>2, ServerOrder DEF Answering
<1>3. CASE \/ \E r \in Requests : Submit(r) \/ Cancel(r)
           \/ Telling \/ Rotate \/ Tick \/ Jump \/ UNCHANGED vars
  BY <1>3, OtherOrder
<1>4. CASE Receiving
  BY <1>4, ReceiveOrder DEF Receiving
<1>5. CASE Reconnect \/ Revive
  BY <1>5, ResetOrder DEF Reconnect, Revive
<1> QED BY <1>1, <1>2, <1>3, <1>4, <1>5 DEF Next, Telling

THEOREM OrderInvariant == Spec => []OrderInv
<1> QED BY InitOrder, OrderStep, PTL DEF Spec

(* Between two corrections the ids and the sequence numbers that the       *)
(* server sees grow together, however the clock jumps, packets are made up *)
(* and messages arrive. *)
THEOREM AlwaysOrdered == Spec => []OrderAgrees
<1>1. OrderInv => OrderAgrees
  BY DEF OrderInv
<1> QED BY <1>1, OrderInvariant, PTL

-----------------------------------------------------------------------------
(* The filter of repeated messages                                         *)

(* The ids that are remembered are the last that were handled. *)
Remembered ==
  /\ log \in Seq(Int) /\ recent \in Seq(Int) /\ highest \in Int
  /\ Len(recent) <= Len(log) /\ Len(recent) <= MaxRecent
  /\ Len(recent) < Len(log) => Len(recent) = MaxRecent
  /\ \A i \in 1..Len(recent) : recent[i] = log[Len(log) - Len(recent) + i]
  /\ log # <<>> => highest = log[Len(log)]

LogInv == Remembered /\ RepeatsFiltered

LEMMA InitLog == Init => LogInv
<1> SUFFICES ASSUME Init PROVE LogInv
  OBVIOUS
<1>1. log = <<>> /\ recent = <<>> /\ highest = 0 /\ MaxRecent \in Nat
  BY StateAssumption DEF Init, StateAssumption
<1> QED BY <1>1 DEF LogInv, Remembered, RepeatsFiltered

(* A message that is not filtered is new, or follows a lower id, or had    *)
(* been forgotten. *)
LEMMA RememberStep ==
  ASSUME LogInv, NEW id \in Int, ~Repeated(id), Remember(id)
  PROVE  LogInv'
<1> DEFINE n == Len(log)
           k == Len(recent)
           ids == Append(recent, id)
<1>0. /\ n \in Nat /\ k \in Nat /\ k <= n /\ MaxRecent \in Nat /\ k <= MaxRecent
      /\ log \in Seq(Int) /\ recent \in Seq(Int)
  BY StateAssumption DEF LogInv, Remembered, StateAssumption
<1>1. /\ log' \in Seq(Int) /\ Len(log') = n + 1 /\ log' # <<>>
      /\ \A i \in 1..n : log'[i] = log[i]
      /\ log'[n + 1] = id
      /\ highest' = id
  <2>1. log' = Append(log, id) /\ highest' = id
    BY DEF Remember
  <2>2. log \in Seq(Int)
    BY <1>0
  <2>3. log' \in Seq(Int) /\ Len(log') = n + 1 /\ log'[n + 1] = id
    BY <2>1, <2>2
  <2>4. \A i \in 1..n : log'[i] = log[i]
    BY <2>1, <2>2
  <2>5. log' # <<>>
    BY <1>0, <2>3
  <2> QED BY <2>1, <2>3, <2>4, <2>5
<1>2. /\ ids \in Seq(Int) /\ Len(ids) = k + 1
      /\ \A i \in 1..k + 1 : ids[i] = log'[n - k + i]
  <2>1. ASSUME NEW i \in 1..k PROVE ids[i] = log'[n - k + i]
    <3>1. ids[i] = recent[i] /\ recent[i] = log[n - k + i] /\ n - k + i \in 1..n
      BY <1>0 DEF LogInv, Remembered
    <3> QED BY <3>1, <1>1
  <2>2. ids[k + 1] = id /\ n - k + (k + 1) = n + 1
    BY <1>0
  <2>3. ids \in Seq(Int) /\ Len(ids) = k + 1
    BY <1>0
  <2>4. ASSUME NEW i \in 1..k + 1 PROVE i \in 1..k \/ i = k + 1
    BY <1>0
  <2> QED BY <1>1, <2>1, <2>2, <2>3, <2>4
<1>3. recent' = IF k + 1 > MaxRecent THEN Tail(ids) ELSE ids
  BY <1>2 DEF Remember
<1> HIDE DEF ids
<1>4. Remembered'
  <2>1. CASE k + 1 > MaxRecent
    <3>1. /\ recent' \in Seq(Int) /\ Len(recent') = k
          /\ \A i \in 1..k : recent'[i] = ids[i + 1]
      BY <1>0, <1>2, <1>3, <2>1
    <3>2. k = MaxRecent
      BY <1>0, <2>1
    <3>3. ASSUME NEW i \in 1..k PROVE recent'[i] = log'[n + 1 - k + i]
      <4>1. i + 1 \in 1..k + 1 /\ n - k + (i + 1) = n + 1 - k + i
        BY <1>0
      <4> QED BY <4>1, <3>1, <1>2
    <3> QED BY <1>0, <1>1, <3>1, <3>2, <3>3 DEF Remembered
  <2>2. CASE ~(k + 1 > MaxRecent)
    <3>1. recent' = ids /\ k < MaxRecent
      BY <1>0, <1>3, <2>2
    <3>2. k = n
      BY <1>0, <3>1 DEF LogInv, Remembered
    <3>3. ASSUME NEW i \in 1..k + 1 PROVE recent'[i] = log'[(n + 1) - (k + 1) + i]
      <4>1. n - k + i = (n + 1) - (k + 1) + i
        BY <1>0
      <4> QED BY <4>1, <3>1, <1>2
    <3>4. recent' \in Seq(Int) /\ Len(recent') = k + 1
      BY <1>2, <3>1
    <3> QED BY <1>0, <1>1, <3>1, <3>2, <3>3, <3>4 DEF Remembered
  <2> QED BY <2>1, <2>2
<1>5. ASSUME NEW i \in 1..n, log[i] = id
      PROVE  (\E m \in i + 1..n : log[m] < id) \/ n + 1 - i > MaxRecent
  <2>1. CASE id \notin Range(recent)
    <3>1. ASSUME i > n - k PROVE FALSE
      <4> DEFINE x == i - (n - k)
      <4>1. x \in 1..k /\ n - k + x = i
        BY <1>0, <3>1
      <4> HIDE DEF x
      <4>2. recent[x] = log[n - k + x]
        BY <4>1 DEF LogInv, Remembered
      <4>3. x \in DOMAIN recent
        BY <1>0, <4>1
      <4> QED BY <4>1, <4>2, <4>3, <1>5, <2>1 DEF Range
    <3>2. k < n
      BY <1>0, <3>1
    <3>3. k = MaxRecent
      BY <1>0, <3>2 DEF LogInv, Remembered
    <3> QED BY <1>0, <3>1, <3>3
  <2>2. CASE ~(id <= highest)
    <3>1. log[n] < id
      <4>1. log # <<>> /\ log[n] \in Int
        BY <1>0
      <4> QED BY <4>1, <2>2 DEF LogInv, Remembered
    <3>2. i # n
      BY <3>1, <1>5
    <3>3. n \in i + 1..n
      BY <1>0, <3>2
    <3> QED BY <3>1, <3>3
  <2> QED BY <2>1, <2>2 DEF Repeated
<1>6. RepeatsFiltered'
  <2> SUFFICES ASSUME NEW i \in 1..n + 1, NEW j \in 1..n + 1, i < j, log'[i] = log'[j]
               PROVE  \/ \E m \in i + 1..j - 1 : log'[m] < log'[i]
                      \/ j - i > MaxRecent
    <3>1. DOMAIN log' = 1..n + 1
      BY <1>0, <1>1
    <3> QED BY <3>1 DEF RepeatsFiltered
  <2>1. CASE j \in 1..n
    <3>1. i \in 1..n /\ i \in DOMAIN log /\ j \in DOMAIN log
      BY <1>0, <2>1
    <3>2. \/ \E m \in i + 1..j - 1 : log[m] < log[i]
          \/ j - i > MaxRecent
      BY <1>1, <2>1, <3>1 DEF LogInv, RepeatsFiltered
    <3>3. \A m \in i + 1..j - 1 : m \in 1..n
      BY <1>0, <2>1
    <3>4. \A m \in i + 1..j - 1 : log'[m] = log[m]
      BY <1>1, <3>3
    <3>5. log'[i] = log[i]
      BY <1>1, <3>1
    <3> QED BY <3>2, <3>4, <3>5
  <2>2. CASE j = n + 1
    <3>1. i \in 1..n /\ log[i] = id /\ log'[i] = id
      BY <1>0, <1>1, <2>2
    <3>2. \A m \in i + 1..n : m \in 1..n /\ m \in i + 1..j - 1
      BY <1>0, <2>2
    <3>3. CASE \E m \in i + 1..n : log[m] < id
      <4>1. PICK m \in i + 1..n : log[m] < id
        BY <3>3
      <4>2. log'[m] < log'[i] /\ m \in i + 1..j - 1
        BY <1>1, <3>1, <3>2, <4>1
      <4> QED BY <4>2
    <3>4. CASE n + 1 - i > MaxRecent
      BY <2>2, <3>4
    <3>5. (\E m \in i + 1..n : log[m] < id) \/ n + 1 - i > MaxRecent
      BY <1>5, <3>1
    <3> QED BY <3>3, <3>4, <3>5
  <2> QED BY <1>0, <2>1, <2>2
<1> QED BY <1>4, <1>6 DEF LogInv

LEMMA LogStep == OrderInv /\ LogInv /\ [Next]_vars => LogInv'
<1> SUFFICES ASSUME OrderInv, LogInv, [Next]_vars PROVE LogInv'
  OBVIOUS
<1>1. CASE UNCHANGED <<log, recent, highest>>
  BY <1>1 DEF LogInv, Remembered, RepeatsFiltered
<1>2. CASE Receiving
  <2>1. PICK m \in down : Receive(m)
    BY <1>2 DEF Receiving
  <2>2. CASE Ignored(m)
    BY <1>1, <2>1, <2>2 DEF Receive, state
  <2>3. CASE ~Ignored(m)
    <3>1. m.id \in Int /\ ~Repeated(m.id) /\ Remember(m.id)
      BY <2>1, <2>3 DEF Receive, Ignored, OrderInv, Numbers, IsMessage
    <3> QED BY <3>1, RememberStep
  <2> QED BY <2>2, <2>3
<1>3. CASE Reconnect \/ Revive
  <2>1. log' = <<>> /\ recent' = <<>> /\ highest' = 0 /\ MaxRecent \in Nat
    BY <1>3, StateAssumption DEF Reconnect, Revive, Reset, StateAssumption
  <2> QED BY <2>1 DEF LogInv, Remembered, RepeatsFiltered
<1>4. CASE \/ \E r \in Requests : Submit(r) \/ Cancel(r)
           \/ Send \/ Answering \/ RefuseSeq("seqlow") \/ RefuseSeq("seqhigh")
           \/ Telling \/ Rotate \/ Tick \/ Jump \/ UNCHANGED vars
  <2>1. CASE Telling
    BY <1>1, <2>1, Told DEF OrderInv
  <2> QED BY <1>1, <1>4, <2>1 DEF Submit, Cancel, Send, Answering, Serve, Refuse, RefuseSeq,
          Rotate, Tick, Jump, vars, state, ghosts
<1> QED BY <1>2, <1>3, <1>4 DEF Next, Telling

(* A message that was handled is handled again only after one with a lower *)
(* id, or when MaxRecent others have pushed it out of what is remembered.  *)
THEOREM NoneRepeated == Spec => []RepeatsFiltered
<1>1. LogInv => RepeatsFiltered
  BY DEF LogInv
<1> QED BY <1>1, InitLog, LogStep, OrderInvariant, PTL DEF Spec

-----------------------------------------------------------------------------
(* Dictionaries and queues                                                 *)

(* The positions of a set have ranks from 1 on, each has another one.      *)
At(I) == [k \in 1..Cardinality(I) |-> CHOOSE i \in I : Rank(I, i) = k]

Enumerates(at, n, I) ==
  /\ n \in Nat /\ at \in [1..n -> I]
  /\ \A k, l \in 1..n : at[k] = at[l] => k = l
  /\ \A i \in I : \E k \in 1..n : at[k] = i

LEMMA Positions ==
  ASSUME NEW I, I \subseteq Nat, IsFiniteSet(I)
  PROVE  Enumerates(At(I), Cardinality(I), I)
<1> DEFINE n == Cardinality(I)
           at == [k \in 1..n |-> CHOOSE i \in I : Rank(I, i) = k]
           below(i) == {j \in I : j <= i}
           rank == [i \in I |-> Rank(I, i)]
<1>1. n \in Nat /\ IsFiniteSet(1..n) /\ Cardinality(1..n) = n
  <2>1. n \in Nat
    BY FS_CardinalityType
  <2> HIDE DEF n
  <2> QED BY <2>1, FS_Interval
<1>2. ASSUME NEW i \in I
      PROVE  Rank(I, i) = Cardinality(below(i)) /\ IsFiniteSet(below(i)) /\ i \in below(i)
             /\ Rank(I, i) \in 1..n
  <2>1. below(i) \in SUBSET I /\ i \in below(i)
    OBVIOUS
  <2>2. IsFiniteSet(below(i)) /\ Cardinality(below(i)) <= n
    BY <2>1, FS_Subset
  <2>3. Cardinality(below(i)) \in Nat /\ Cardinality(below(i)) # 0
    <3>1. below(i) # {}
      BY <2>1
    <3> HIDE DEF below
    <3> QED BY <2>2, <3>1, FS_EmptySet, FS_CardinalityType
  <2> QED BY <1>1, <2>1, <2>2, <2>3 DEF Rank
<1>3. ASSUME NEW i \in I, NEW j \in I, i < j PROVE Rank(I, i) # Rank(I, j)
  <2>1. below(i) \in SUBSET below(j) /\ j \in below(j) /\ j \notin below(i)
    <3>1. i \in Nat /\ j \in Nat
      OBVIOUS
    <3>2. \A x \in I : x <= i => x <= j
      BY <1>3, <3>1
    <3>3. j <= j /\ ~(j <= i)
      BY <1>3, <3>1
    <3> QED BY <3>2, <3>3
  <2>2. Cardinality(below(i)) # Cardinality(below(j))
    <3>1. below(i) # below(j) /\ IsFiniteSet(below(j))
      BY <2>1, <1>2
    <3> HIDE DEF below
    <3> QED BY <2>1, <3>1, FS_Subset
  <2> QED BY <1>2, <2>2
<1>4. \A i, j \in I : Rank(I, i) = Rank(I, j) => i = j
  <2> SUFFICES ASSUME NEW i \in I, NEW j \in I, Rank(I, i) = Rank(I, j) PROVE i = j
    OBVIOUS
  <2>1. ~(i < j) /\ ~(j < i)
    BY <1>3
  <2>2. i \in Nat /\ j \in Nat
    OBVIOUS
  <2> QED BY <2>1, <2>2
<1>5. rank \in [I -> 1..n] /\ \A i \in I : rank[i] = Rank(I, i)
  BY <1>2
<1> HIDE DEF rank, n
<1>6. rank \in Surjection(I, 1..n)
  <2>1. rank \in Injection(I, 1..n)
    BY <1>4, <1>5 DEF Injection, IsInjective
  <2> QED BY <1>1, <2>1, FS_Injection DEF n
<1>7. \A k \in 1..n : \E i \in I : Rank(I, i) = k
  BY <1>5, <1>6 DEF Surjection
<1>8. \A k \in 1..n : at[k] \in I /\ Rank(I, at[k]) = k
  BY <1>7
<1>9. \A i \in I : at[Rank(I, i)] = i
  BY <1>2, <1>4, <1>8
<1>10. at \in [1..n -> I]
  BY <1>8
<1> HIDE DEF at
<1>11. \A k, l \in 1..n : at[k] = at[l] => k = l
  BY <1>8
<1>12. \A i \in I : \E k \in 1..n : at[k] = i
  BY <1>2, <1>9
<1> QED BY <1>1, <1>10, <1>11, <1>12 DEF at, n, At, Enumerates

(* What is picked is what is at the positions, each of them once.          *)
LEMMA Picked ==
  ASSUME NEW S, NEW s \in Seq(S), NEW I \in SUBSET DOMAIN s
  PROVE  /\ Enumerates(At(I), Cardinality(I), I)
         /\ Pick(s, I) = [k \in 1..Cardinality(I) |-> s[At(I)[k]]]
         /\ Pick(s, I) \in Seq(S)
<1>1. I \subseteq Nat /\ IsFiniteSet(I)
  <2>1. DOMAIN s = 1..Len(s) /\ Len(s) \in Nat
    OBVIOUS
  <2>2. IsFiniteSet(1..Len(s))
    BY <2>1, FS_Interval
  <2> QED BY <2>1, <2>2, FS_Subset
<1>2. Enumerates(At(I), Cardinality(I), I)
  BY <1>1, Positions
<1>3. Pick(s, I) = [k \in 1..Cardinality(I) |-> s[At(I)[k]]]
  BY DEF Pick, At
<1>4. Cardinality(I) \in Nat /\ \A k \in 1..Cardinality(I) : At(I)[k] \in DOMAIN s /\ s[At(I)[k]] \in S
  BY <1>2 DEF Enumerates
<1>5. Pick(s, I) \in [1..Cardinality(I) -> S]
  BY <1>3, <1>4
<1>6. Pick(s, I) \in Seq(S)
  BY <1>4, <1>5
<1> QED BY <1>2, <1>3, <1>6

Entry == [id : Nat, req : Requests]

(* The ids are the keys. *)
Dictionary(d) ==
  d \in Seq(Entry) /\ \A i, j \in DOMAIN d : d[i].id = d[j].id => i = j

Distinct(q) == \A i, j \in DOMAIN q : q[i] = q[j] => i = j

In(q, r) == \E i \in DOMAIN q : q[i] = r
Held(d, r) == \E i \in DOMAIN d : d[i].req = r
Within(e, d) == \A i \in DOMAIN e : \E j \in DOMAIN d : e[i] = d[j]

(* A request is queued or pending, once; a pending one has its last id.    *)
Tidy(q, d, ids) ==
  /\ q \in Seq(Requests) /\ Distinct(q)
  /\ Dictionary(d)
  /\ \A i \in DOMAIN d : d[i].id = ids[d[i].req]
  /\ \A i \in DOMAIN d : ~In(q, d[i].req)

LEMMA EntryFields ==
  ASSUME NEW d \in Seq(Entry)
  PROVE  \A i \in DOMAIN d : d[i] \in Entry /\ d[i].id \in Nat /\ d[i].req \in Requests
<1>1. \A i \in DOMAIN d : d[i] \in Entry
  OBVIOUS
<1>2. \A x \in Entry : x.id \in Nat /\ x.req \in Requests
  BY DEF Entry
<1> QED BY <1>1, <1>2

LEMMA PickDictionary ==
  ASSUME NEW d, Dictionary(d), NEW I \in SUBSET DOMAIN d
  PROVE  /\ Dictionary(Pick(d, I))
         /\ \A k \in DOMAIN Pick(d, I) : \E i \in I : Pick(d, I)[k] = d[i]
         /\ \A i \in I : \E k \in DOMAIN Pick(d, I) : Pick(d, I)[k] = d[i]
<1>0. d \in Seq(Entry)
  BY DEF Dictionary
<1> DEFINE n == Cardinality(I)
           at == At(I)
<1>1. Enumerates(at, n, I) /\ Pick(d, I) = [k \in 1..n |-> d[at[k]]] /\ Pick(d, I) \in Seq(Entry)
  BY <1>0, Picked
<1> HIDE DEF n, at
<1>2. DOMAIN Pick(d, I) = 1..n /\ \A k \in 1..n : Pick(d, I)[k] = d[at[k]] /\ at[k] \in I
  BY <1>1 DEF Enumerates
<1>3. \A k, l \in 1..n : d[at[k]].id = d[at[l]].id => k = l
  BY <1>1, <1>2 DEF Dictionary, Enumerates
<1>4. \A k \in DOMAIN Pick(d, I) : \E i \in I : Pick(d, I)[k] = d[i]
  BY <1>2
<1>5. \A i \in I : \E k \in DOMAIN Pick(d, I) : Pick(d, I)[k] = d[i]
  BY <1>1, <1>2 DEF Enumerates
<1>6. \A k, l \in DOMAIN Pick(d, I) : Pick(d, I)[k].id = Pick(d, I)[l].id => k = l
  BY <1>2, <1>3
<1> QED BY <1>1, <1>4, <1>5, <1>6, Zenon DEF Dictionary

LEMMA TidyRemoval ==
  ASSUME NEW q, NEW d, NEW ids, Tidy(q, d, ids), NEW I \in SUBSET DOMAIN d
  PROVE  Tidy(q, Pick(d, I), ids)
<1>1. Dictionary(Pick(d, I)) /\ \A k \in DOMAIN Pick(d, I) : \E i \in I : Pick(d, I)[k] = d[i]
  BY PickDictionary DEF Tidy
<1>2. \A i \in I : i \in DOMAIN d
  OBVIOUS
<1> HIDE DEF Pick
<1> QED BY <1>1, <1>2 DEF Tidy

(* What is taken out of the dictionary is put behind the queue.            *)
LEMMA TidyRequeued ==
  ASSUME NEW q, NEW d, NEW ids, Tidy(q, d, ids), NEW e, Dictionary(e), Within(e, d),
         NEW d2, Dictionary(d2), Within(d2, d),
         \A i \in DOMAIN e, j \in DOMAIN d2 : e[i] # d2[j]
  PROVE  /\ Tidy(q \o Entries(e), d2, ids)
         /\ \A r : In(q \o Entries(e), r) <=> In(q, r) \/ Held(e, r)
<1> DEFINE es == Entries(e)
           n == Len(q)
           k == Len(e)
           qs == q \o es
<1>1. /\ q \in Seq(Requests) /\ n \in Nat /\ DOMAIN q = 1..n
      /\ e \in Seq(Entry) /\ k \in Nat /\ DOMAIN e = 1..k
  BY DEF Tidy, Dictionary
<1>2. \A i \in 1..k : e[i] \in Entry /\ e[i].req \in Requests
  BY <1>1, EntryFields
<1>3. es \in Seq(Requests) /\ Len(es) = k /\ \A i \in 1..k : es[i] = e[i].req
  <2>1. es = [i \in 1..k |-> e[i].req]
    BY <1>1 DEF Entries
  <2>2. es \in [1..k -> Requests]
    BY <1>2, <2>1
  <2> QED BY <1>1, <2>1, <2>2
<1> HIDE DEF es
<1>4. /\ qs \in Seq(Requests) /\ DOMAIN qs = 1..n + k
      /\ \A i \in 1..n : qs[i] = q[i]
      /\ \A i \in 1..k : qs[n + i] = e[i].req
  <2>1. /\ qs \in Seq(Requests) /\ Len(qs) = n + k
        /\ \A i \in 1..n + k : qs[i] = IF i <= n THEN q[i] ELSE es[i - n]
    <3>1. /\ q \o es \in Seq(Requests) /\ Len(q \o es) = Len(q) + Len(es)
          /\ \A i \in 1..Len(q) + Len(es) : (q \o es)[i] = IF i <= Len(q) THEN q[i] ELSE es[i - Len(q)]
      BY <1>1, <1>3, ConcatProperties
    <3> HIDE DEF n, k
    <3>2. Len(es) = k /\ Len(q) = n
      BY <1>3 DEF n
    <3> QED BY <3>1, <3>2
  <2>2. \A i \in 1..n : i \in 1..n + k /\ i <= n
    BY <1>1
  <2>3. \A i \in 1..k : n + i \in 1..n + k /\ ~(n + i <= n) /\ n + i - n = i
    BY <1>1
  <2>4. n + k \in Nat
    BY <1>1
  <2> HIDE DEF qs
  <2>5. DOMAIN qs = 1..n + k
    BY <2>1, <2>4
  <2>6. \A i \in 1..n : qs[i] = q[i]
    BY <2>1, <2>2
  <2>7. \A i \in 1..k : qs[n + i] = e[i].req
    BY <1>3, <2>1, <2>3
  <2> QED BY <2>1, <2>5, <2>6, <2>7
<1>5. \A x \in 1..n + k : x \in 1..n \/ \E i \in 1..k : x = n + i
  <2> SUFFICES ASSUME NEW x \in 1..n + k, x \notin 1..n PROVE \E i \in 1..k : x = n + i
    OBVIOUS
  <2>1. x - n \in 1..k /\ x = n + (x - n)
    BY <1>1
  <2> QED BY <2>1
<1>6. \A i \in 1..n : i \in 1..n + k
  BY <1>1
<1>7. \A i \in 1..k : n + i \in 1..n + k
  BY <1>1
<1> HIDE DEF qs
<1>8. \A r : In(qs, r) <=> In(q, r) \/ Held(e, r)
  <2>1. ASSUME NEW r, In(qs, r) PROVE In(q, r) \/ Held(e, r)
    <3>1. PICK x \in 1..n + k : qs[x] = r
      BY <2>1, <1>4 DEF In
    <3>2. CASE x \in 1..n
      BY <3>1, <3>2, <1>1, <1>4 DEF In
    <3>3. CASE \E i \in 1..k : x = n + i
      BY <3>1, <3>3, <1>1, <1>4 DEF Held
    <3> QED BY <1>5, <3>2, <3>3
  <2>2. ASSUME NEW r, In(q, r) PROVE In(qs, r)
    BY <2>2, <1>1, <1>4, <1>6 DEF In
  <2>3. ASSUME NEW r, Held(e, r) PROVE In(qs, r)
    <3>1. PICK i \in 1..k : e[i].req = r
      BY <2>3, <1>1 DEF Held
    <3>2. n + i \in DOMAIN qs /\ qs[n + i] = r
      BY <3>1, <1>4, <1>7
    <3> QED BY <3>2 DEF In
  <2> QED BY <2>1, <2>2, <2>3
<1>9. \A i, j \in 1..k : e[i].req = e[j].req => i = j
  <2> SUFFICES ASSUME NEW i \in 1..k, NEW j \in 1..k, e[i].req = e[j].req PROVE i = j
    OBVIOUS
  <2>1. PICK a \in DOMAIN d, b \in DOMAIN d : e[i] = d[a] /\ e[j] = d[b]
    BY <1>1 DEF Within
  <2>2. e[i].id = e[j].id
    BY <2>1 DEF Tidy
  <2> QED BY <1>1, <2>2 DEF Dictionary
<1>10. \A i \in 1..k : ~In(q, e[i].req)
  BY <1>1 DEF Within, Tidy
<1>11. Distinct(qs)
  <2> SUFFICES ASSUME NEW x \in 1..n + k, NEW y \in 1..n + k, qs[x] = qs[y] PROVE x = y
    BY <1>4 DEF Distinct
  <2>1. CASE x \in 1..n /\ y \in 1..n
    BY <2>1, <1>1, <1>4 DEF Tidy, Distinct
  <2>2. CASE \E i, j \in 1..k : x = n + i /\ y = n + j
    <3>1. PICK i \in 1..k, j \in 1..k : x = n + i /\ y = n + j
      BY <2>2
    <3>2. e[i].req = e[j].req
      BY <3>1, <1>4
    <3> QED BY <3>1, <3>2, <1>9
  <2>3. ASSUME NEW i \in 1..n, NEW j \in 1..k PROVE qs[i] # qs[n + j]
    <3>1. qs[i] = q[i] /\ qs[n + j] = e[j].req /\ i \in DOMAIN q
      BY <1>1, <1>4
    <3> QED BY <3>1, <1>10 DEF In
  <2>4. CASE x \in 1..n /\ \E j \in 1..k : y = n + j
    BY <2>3, <2>4
  <2>5. CASE y \in 1..n /\ \E i \in 1..k : x = n + i
    BY <2>3, <2>5
  <2> QED BY <1>5, <2>1, <2>2, <2>4, <2>5
<1>12. \A j \in DOMAIN d2 : \A i \in 1..k : d2[j].req # e[i].req
  <2> SUFFICES ASSUME NEW j \in DOMAIN d2, NEW i \in 1..k, d2[j].req = e[i].req PROVE FALSE
    OBVIOUS
  <2>1. PICK a \in DOMAIN d, b \in DOMAIN d : e[i] = d[a] /\ d2[j] = d[b]
    BY <1>1 DEF Within
  <2>2. d[a].id = d[b].id
    BY <2>1 DEF Tidy
  <2>3. e[i] = d2[j]
    BY <2>1, <2>2 DEF Tidy, Dictionary
  <2> QED BY <1>1, <2>3
<1>13. \A j \in DOMAIN d2 : ~In(qs, d2[j].req)
  <2>1. \A j \in DOMAIN d2 : ~In(q, d2[j].req)
    BY DEF Within, Tidy
  <2>2. \A j \in DOMAIN d2 : ~Held(e, d2[j].req)
    BY <1>1, <1>12 DEF Held
  <2> QED BY <1>8, <2>1, <2>2
<1>14. \A j \in DOMAIN d2 : d2[j].id = ids[d2[j].req]
  BY DEF Within, Tidy
<1> QED BY <1>4, <1>8, <1>11, <1>13, <1>14 DEF Tidy, es, qs

LEMMA TidyResent ==
  ASSUME NEW q, NEW d, NEW ids, Tidy(q, d, ids), NEW I \in SUBSET DOMAIN d
  PROVE  LET e  == Pick(d, I)
             d2 == Pick(d, DOMAIN d \ I)
         IN /\ Tidy(q \o Entries(e), d2, ids) /\ Within(d2, d)
            /\ \A r : In(q, r) \/ Held(d, r) <=> In(q \o Entries(e), r) \/ Held(d2, r)
<1> DEFINE e  == Pick(d, I)
           d2 == Pick(d, DOMAIN d \ I)
<1>0. Dictionary(d) /\ DOMAIN d \ I \in SUBSET DOMAIN d
  BY DEF Tidy
<1>1. /\ Dictionary(e)
      /\ \A k \in DOMAIN e : \E i \in I : e[k] = d[i]
      /\ \A i \in I : \E k \in DOMAIN e : e[k] = d[i]
  BY <1>0, PickDictionary
<1>2. /\ Dictionary(d2)
      /\ \A k \in DOMAIN d2 : \E i \in DOMAIN d \ I : d2[k] = d[i]
      /\ \A i \in DOMAIN d \ I : \E k \in DOMAIN d2 : d2[k] = d[i]
  <2> DEFINE J == DOMAIN d \ I
  <2>1. J \in SUBSET DOMAIN d
    OBVIOUS
  <2> HIDE DEF J
  <2>2. /\ Dictionary(Pick(d, J))
        /\ \A k \in DOMAIN Pick(d, J) : \E i \in J : Pick(d, J)[k] = d[i]
        /\ \A i \in J : \E k \in DOMAIN Pick(d, J) : Pick(d, J)[k] = d[i]
    BY <1>0, <2>1, PickDictionary
  <2> QED BY <2>2 DEF J
<1> HIDE DEF e, d2
<1>3. Within(e, d) /\ Within(d2, d)
  BY <1>1, <1>2 DEF Within
<1>4. \A i \in DOMAIN e, j \in DOMAIN d2 : e[i] # d2[j]
  <2> SUFFICES ASSUME NEW i \in DOMAIN e, NEW j \in DOMAIN d2, e[i] = d2[j] PROVE FALSE
    OBVIOUS
  <2>1. PICK a \in I, b \in DOMAIN d \ I : e[i] = d[a] /\ d2[j] = d[b]
    BY <1>1, <1>2
  <2>2. a = b
    BY <2>1 DEF Tidy, Dictionary
  <2> QED BY <2>2
<1>5. Tidy(q \o Entries(e), d2, ids) /\ \A r : In(q \o Entries(e), r) <=> In(q, r) \/ Held(e, r)
  BY <1>1, <1>2, <1>3, <1>4, TidyRequeued
<1>6. \A r : Held(d, r) <=> Held(e, r) \/ Held(d2, r)
  <2>1. ASSUME NEW r, Held(d, r) PROVE Held(e, r) \/ Held(d2, r)
    <3>1. PICK i \in DOMAIN d : d[i].req = r
      BY <2>1 DEF Held
    <3> QED BY <3>1, <1>1, <1>2 DEF Held
  <2>2. ASSUME NEW r, Held(e, r) \/ Held(d2, r) PROVE Held(d, r)
    BY <2>2, <1>3 DEF Held, Within
  <2> QED BY <2>1, <2>2
<1> QED BY <1>3, <1>5, <1>6 DEF e, d2

Messages(msgs, k) ==
  /\ msgs = [i \in 1..k |-> msgs[i]]
  /\ \A i \in 1..k : msgs[i].id \in Nat /\ msgs[i].req \in Requests
  /\ \A i, j \in 1..k : msgs[i].id = msgs[j].id => i = j

Merged(put, d, msgs, k) ==
  /\ Dictionary(put)
  /\ \A x \in DOMAIN put :
       \/ \E i \in DOMAIN d : put[x] = d[i] /\ \A j \in 1..k : msgs[j].id # d[i].id
       \/ \E j \in 1..k : put[x] = [id |-> msgs[j].id, req |-> msgs[j].req]
  /\ (\A i \in DOMAIN d, j \in 1..k : d[i].id # msgs[j].id) =>
       /\ \A i \in DOMAIN d : \E x \in DOMAIN put : put[x] = d[i]
       /\ \A j \in 1..k : \E x \in DOMAIN put : put[x] = [id |-> msgs[j].id, req |-> msgs[j].req]

(* Messages with different ids are put into a dictionary: every entry that *)
(* is not one of theirs was there, and unless an id was there already      *)
(* nothing is replaced. *)
LEMMA Putting ==
  ASSUME NEW d, Dictionary(d), NEW k \in Nat, NEW msgs, Messages(msgs, k)
  PROVE  Merged(Put(d, msgs), d, msgs, k)
<1> DEFINE entry(m) == [id |-> m.id, req |-> m.req]
           new == {j \in DOMAIN msgs : \A i \in DOMAIN d : d[i].id # msgs[j].id}
           again(id) == {m \in Range(msgs) : m.id = id}
           old == [i \in DOMAIN d |-> IF again(d[i].id) = {} THEN d[i]
                                      ELSE entry(CHOOSE m \in again(d[i].id) : TRUE)]
           es == [j \in DOMAIN msgs |-> entry(msgs[j])]
           fresh == Pick(es, new)
           put == old \o fresh
<1>0. Put(d, msgs) = put
  BY DEF Put
<1>m. /\ msgs = [i \in 1..k |-> msgs[i]]
      /\ \A i \in 1..k : msgs[i].id \in Nat /\ msgs[i].req \in Requests
      /\ \A i, j \in 1..k : msgs[i].id = msgs[j].id => i = j
  BY DEF Messages
<1>1. DOMAIN msgs = 1..k /\ d \in Seq(Entry) /\ DOMAIN d = 1..Len(d) /\ Len(d) \in Nat
  BY <1>m DEF Dictionary
<1>2. \A i \in DOMAIN d : d[i] \in Entry /\ d[i].id \in Nat
  BY <1>1, EntryFields
<1>3. \A j \in 1..k : entry(msgs[j]) \in Entry /\ es[j] = entry(msgs[j]) /\ es[j].id = msgs[j].id
  BY <1>m, <1>1 DEF Entry
<1>4. es \in Seq(Entry) /\ DOMAIN es = 1..k
  <2>1. es \in [1..k -> Entry]
    BY <1>1, <1>3
  <2> QED BY <2>1, <1>1
<1>5. \A i \in DOMAIN d : \/ old[i] = d[i] /\ again(d[i].id) = {}
                          \/ \E j \in 1..k : old[i] = es[j] /\ msgs[j].id = d[i].id
  <2> SUFFICES ASSUME NEW i \in DOMAIN d, again(d[i].id) # {}
               PROVE  \E j \in 1..k : old[i] = es[j] /\ msgs[j].id = d[i].id
    OBVIOUS
  <2> DEFINE m == CHOOSE m \in again(d[i].id) : TRUE
  <2>1. m \in again(d[i].id) /\ old[i] = entry(m)
    OBVIOUS
  <2> HIDE DEF m
  <2>2. PICK j \in 1..k : m = msgs[j]
    BY <1>1, <2>1 DEF Range
  <2> QED BY <1>3, <2>1, <2>2
<1>6. \A i \in DOMAIN d : again(d[i].id) = {} <=> \A j \in 1..k : msgs[j].id # d[i].id
  BY <1>1 DEF Range
<1> HIDE DEF again
<1>7. old \in Seq(Entry) /\ DOMAIN old = DOMAIN d /\ Len(old) = Len(d)
      /\ \A i \in DOMAIN d : old[i].id = d[i].id
  <2>1. \A i \in DOMAIN d : old[i] \in Entry /\ old[i].id = d[i].id
    <3> SUFFICES ASSUME NEW i \in DOMAIN d PROVE old[i] \in Entry /\ old[i].id = d[i].id
      OBVIOUS
    <3>1. CASE old[i] = d[i]
      BY <3>1, <1>2
    <3>2. CASE \E j \in 1..k : old[i] = es[j] /\ msgs[j].id = d[i].id
      BY <3>2, <1>3
    <3> QED BY <3>1, <3>2, <1>5
  <2>2. DOMAIN old = 1..Len(d)
    BY <1>1
  <2> HIDE DEF old
  <2>3. old \in [1..Len(d) -> Entry]
    <3>1. old = [i \in 1..Len(d) |-> old[i]]
      BY <1>1 DEF old
    <3> QED BY <3>1, <2>1, <1>1
  <2> QED BY <1>1, <2>1, <2>2, <2>3
<1> HIDE DEF old, es
<1>8. new \in SUBSET DOMAIN es
  BY <1>1, <1>4
<1>9. \A j \in new : j \in 1..k /\ \A i \in DOMAIN d : d[i].id # msgs[j].id
  BY <1>1
<1>9a. (\A i \in DOMAIN d, j \in 1..k : d[i].id # msgs[j].id) => \A j \in 1..k : j \in new
  BY <1>1
<1> HIDE DEF new
<1> DEFINE n == Cardinality(new)
           at == At(new)
<1>10. Enumerates(at, n, new) /\ fresh = [x \in 1..n |-> es[at[x]]] /\ fresh \in Seq(Entry)
  BY <1>4, <1>8, Picked
<1> HIDE DEF n, at
<1>11. /\ n \in Nat /\ fresh \in Seq(Entry) /\ fresh = [x \in 1..n |-> es[at[x]]]
       /\ \A x \in 1..n : at[x] \in new
       /\ \A x, y \in 1..n : at[x] = at[y] => x = y
       /\ \A i \in new : \E x \in 1..n : at[x] = i
  BY <1>10 DEF Enumerates
<1>12. Len(fresh) = n /\ \A x \in 1..n : fresh[x] = es[at[x]] /\ at[x] \in new
  BY <1>11
<1>13. fresh \in Seq(Entry)
  BY <1>11
<1> HIDE DEF fresh
<1> DEFINE l == Len(d)
<1>14. /\ put \in Seq(Entry) /\ DOMAIN put = 1..l + n
       /\ \A i \in 1..l : put[i] = old[i] /\ i \in 1..l + n /\ i \in DOMAIN d
       /\ \A x \in 1..n : put[l + x] = es[at[x]] /\ l + x \in 1..l + n
  <2>0. l \in Nat /\ n \in Nat /\ Len(old) = l /\ Len(fresh) = n
    BY <1>1, <1>7, <1>12
  <2>1. /\ put \in Seq(Entry) /\ Len(put) = l + n
        /\ \A i \in 1..l + n : put[i] = IF i <= l THEN old[i] ELSE fresh[i - l]
    <3>1. /\ put \in Seq(Entry) /\ Len(put) = Len(old) + Len(fresh)
          /\ \A i \in 1..Len(old) + Len(fresh) : put[i] = IF i <= Len(old) THEN old[i] ELSE fresh[i - Len(old)]
      <4>1. old \in Seq(Entry) /\ fresh \in Seq(Entry)
        BY <1>7, <1>13
      <4> QED BY <4>1, ConcatProperties
    <3> HIDE DEF put, l
    <3> QED BY <3>1, <2>0
  <2>2. \A i \in 1..l : i \in 1..l + n /\ i <= l /\ i \in DOMAIN d
    BY <1>1, <2>0
  <2>3. \A i \in 1..n : l + i \in 1..l + n /\ ~(l + i <= l) /\ l + i - l = i
    BY <2>0
  <2>4. l + n \in Nat
    BY <2>0
  <2> HIDE DEF put, l
  <2>5. DOMAIN put = 1..l + n
    BY <2>1, <2>4
  <2>6. \A i \in 1..l : put[i] = old[i]
    BY <2>1, <2>2
  <2>7. \A i \in 1..n : put[l + i] = es[at[i]]
    <3>1. ASSUME NEW i \in 1..n PROVE put[l + i] = fresh[i]
      <4> DEFINE x == l + i
      <4>1. x \in 1..l + n /\ ~(x <= l) /\ x - l = i
        BY <2>0, <2>3
      <4> HIDE DEF x
      <4>2. put[x] = fresh[x - l]
        BY <2>1, <4>1
      <4> QED BY <4>1, <4>2 DEF x
    <3> QED BY <3>1, <1>12
  <2> QED BY <2>1, <2>2, <2>3, <2>5, <2>6, <2>7
<1>15. \A x \in 1..l + n : x \in 1..l \/ \E y \in 1..n : x = l + y
  <2> SUFFICES ASSUME NEW x \in 1..l + n, x \notin 1..l PROVE \E y \in 1..n : x = l + y
    OBVIOUS
  <2>1. x - l \in 1..n /\ x = l + (x - l)
    BY <1>1, <1>11
  <2> QED BY <2>1
<1>16. DOMAIN d = 1..l
  BY <1>1
<1> HIDE DEF put, l
<1>17. \A x \in 1..n : put[l + x].id = msgs[at[x]].id /\ at[x] \in 1..k
  BY <1>3, <1>9, <1>12, <1>14
<1>18. Dictionary(put)
  <2> SUFFICES ASSUME NEW x \in 1..l + n, NEW y \in 1..l + n, put[x].id = put[y].id PROVE x = y
    BY <1>14 DEF Dictionary
  <2>1. CASE x \in 1..l /\ y \in 1..l
    <3>1. x \in DOMAIN d /\ y \in DOMAIN d /\ d[x].id = d[y].id
      BY <2>1, <1>7, <1>14
    <3> QED BY <3>1 DEF Dictionary
  <2>2. CASE \E a, b \in 1..n : x = l + a /\ y = l + b
    <3>1. PICK a \in 1..n, b \in 1..n : x = l + a /\ y = l + b
      BY <2>2
    <3>2. msgs[at[a]].id = msgs[at[b]].id /\ at[a] \in 1..k /\ at[b] \in 1..k
      BY <3>1, <1>17
    <3>3. at[a] = at[b]
      BY <1>m, <3>2
    <3> QED BY <3>1, <3>3, <1>11
  <2>3. ASSUME NEW i \in 1..l, NEW b \in 1..n PROVE put[i].id # put[l + b].id
    <3>1. put[i].id = d[i].id /\ i \in DOMAIN d
      BY <1>7, <1>14
    <3>2. put[l + b].id = msgs[at[b]].id /\ at[b] \in new
      BY <1>12, <1>17
    <3> QED BY <3>1, <3>2, <1>9
  <2> QED BY <1>15, <2>1, <2>2, <2>3
<1>19. ASSUME NEW x \in DOMAIN put
       PROVE  \/ \E i \in DOMAIN d : put[x] = d[i] /\ \A j \in 1..k : msgs[j].id # d[i].id
              \/ \E j \in 1..k : put[x] = entry(msgs[j])
  <2>1. CASE x \in 1..l
    <3>1. x \in DOMAIN d /\ put[x] = old[x]
      BY <2>1, <1>14
    <3>2. CASE old[x] = d[x] /\ again(d[x].id) = {}
      BY <3>1, <3>2, <1>6
    <3>3. CASE \E j \in 1..k : old[x] = es[j] /\ msgs[j].id = d[x].id
      BY <3>1, <3>3, <1>3
    <3> QED BY <3>1, <3>2, <3>3, <1>5
  <2>2. CASE \E y \in 1..n : x = l + y
    BY <2>2, <1>3, <1>9, <1>12, <1>14
  <2> QED BY <1>14, <1>15, <2>1, <2>2
<1>20. ASSUME \A i \in DOMAIN d, j \in 1..k : d[i].id # msgs[j].id
       PROVE  /\ \A i \in DOMAIN d : \E x \in DOMAIN put : put[x] = d[i]
              /\ \A j \in 1..k : \E x \in DOMAIN put : put[x] = entry(msgs[j])
  <2>1. \A i \in DOMAIN d : put[i] = d[i] /\ i \in DOMAIN put
    BY <1>5, <1>14, <1>16, <1>20
  <2>2. ASSUME NEW j \in 1..k PROVE \E x \in DOMAIN put : put[x] = entry(msgs[j])
    <3>1. j \in new
      BY <1>9a, <1>20
    <3>2. PICK x \in 1..n : at[x] = j
      BY <3>1, <1>11
    <3> QED BY <3>2, <1>3, <1>14
  <2> QED BY <2>1, <2>2
<1> QED BY <1>0, <1>18, <1>19, <1>20 DEF Merged

-----------------------------------------------------------------------------
(* Types                                                                   *)

Outcomes == {"new", "waiting", "answered", "error", "cancelled"}

(* The clocks, the faults so far, and flags.                               *)
Ground ==
  /\ big \subseteq Requests /\ skew \in Skews
  /\ loop \in {"on", "dead"}
  /\ count \in [DOMAIN Bound -> Nat]
  /\ time = Start + count["tick"] /\ time <= MaxTime

(* Ids are natural numbers.                                                *)
Naturals ==
  /\ last \in Nat /\ highest \in Nat /\ top \in Nat /\ epoch \in Nat
  /\ \A m \in down : m.id \in Nat

Salts == salt \in Nat /\ \A m \in down : m.salt \in Nat

Carried(u, f) ==
  \A i \in DOMAIN u : \A j \in DOMAIN u[i].msgs :
    /\ u[i].msgs[j].id \in Nat
    /\ u[i].msgs[j].req \in Requests
    /\ f[u[i].msgs[j].req] # "new"

(* Requests that are queued, pending or on their way were submitted.       *)
Requested ==
  /\ fut \in [Requests -> Outcomes] /\ ran \subseteq Requests
  /\ msgId \in [Requests -> Nat] /\ contId \in [Requests -> Nat]
  /\ Tidy(queue, pending, msgId)
  /\ \A r : In(queue, r) \/ Held(pending, r) => fut[r] # "new"
  /\ Carried(up, fut)

TypeInv == Ground /\ Naturals /\ Salts /\ Requested

LEMMA Counted ==
  ASSUME count \in [DOMAIN Bound -> Nat], NEW what \in DOMAIN Bound, Count(what)
  PROVE  /\ count' \in [DOMAIN Bound -> Nat]
         /\ what # "tick" => count'["tick"] = count["tick"]
<1>1. count' = [count EXCEPT ![what] = @ + 1] /\ "tick" \in DOMAIN Bound
  BY DEF Count, Bound
<1> QED BY <1>1

LEMMA GroundStep == Ground /\ [Next]_vars => Ground'
<1> SUFFICES ASSUME Ground, [Next]_vars PROVE Ground'
  OBVIOUS
<1>0. DOMAIN Bound = {"tick", "jump", "rotate", "refuse", "note", "box", "resend", "reconnect",
                     "cancel"}
  BY DEF Bound
<1>1. big' \subseteq Requests /\ loop' \in {"on", "dead"}
  BY DEF Ground, Next, Submit, Cancel, Send, Answering, Serve, Refuse, RefuseSeq, Notify, Rotate,
     Enclose, Receiving, Receive, HandleResult, HandleNote, HandleSalt, HandleTime, HandleSeq, Tick, Jump,
     Reconnect, Revive, Reset, vars, clock, state, packer
<1>2. CASE Tick
  <2>1. count["tick"] < MaxTime - Start /\ count' = [count EXCEPT !["tick"] = @ + 1]
        /\ time' = time + 1 /\ skew' = skew
    BY <1>2 DEF Tick, Count, Bound
  <2>2. count' \in [DOMAIN Bound -> Nat] /\ count'["tick"] = count["tick"] + 1 /\ count["tick"] \in Nat
    BY <1>0, <2>1 DEF Ground
  <2>3. time' = Start + count'["tick"] /\ time' <= MaxTime
    BY <2>1, <2>2, StateAssumption DEF Ground, StateAssumption
  <2> QED BY <1>1, <2>1, <2>2, <2>3 DEF Ground
<1>3. CASE ~Tick
  <2>1. time' = time /\ skew' \in Skews
    BY <1>3 DEF Ground, Next, Submit, Cancel, Send, Answering, Serve, Refuse, RefuseSeq, Notify, Rotate,
       Enclose, Receiving, Receive, Jump, Reconnect, Revive, Reset, vars, clock
  <2>2. \/ UNCHANGED count
        \/ \E what \in DOMAIN Bound \ {"tick"} : Count(what)
    BY <1>0, <1>3 DEF Next, Submit, Cancel, Send, Answering, Serve, Refuse, RefuseSeq, Notify, Rotate,
       Enclose, Receiving, Receive, Delivered, Jump, Reconnect, Revive, vars
  <2>3. count' \in [DOMAIN Bound -> Nat] /\ count'["tick"] = count["tick"]
    BY <2>2, Counted DEF Ground
  <2> QED BY <1>1, <2>1, <2>3 DEF Ground
<1> QED BY <1>2, <1>3

LEMMA NaturalIds ==
  ASSUME NEW l \in Nat, NEW now \in Int
  PROVE  NewId(l, now) \in Nat
BY DEF NewId

LEMMA NaturalCorrections ==
  ASSUME Numbers, last \in Nat, NEW id \in Int, NEW f \in 0..Slots - 1
  PROVE  /\ \A o \in Int, l \in Nat : UpdateTimeOffset(id, o, l, f).last \in Nat
         /\ \A m : m.id = id => LET c == FirstOffset(m, f) IN
              /\ c.last \in Nat /\ c.offset \in Int
              /\ UpdateTimeOffset(id, c.offset, c.last, f).last \in Nat
<1>1. ASSUME NEW o \in Int, NEW l \in Nat
      PROVE  LET c == UpdateTimeOffset(id, o, l, f) IN c.last \in Nat /\ c.offset \in Int
  <2>1. (time + skew + o) * Slots + f \in Int
    BY StateAssumption DEF StateAssumption, Numbers
  <2>2. NewId(l, (time + skew + o) * Slots + f) \in Nat /\ Correct(id) \in Int
    BY <2>1, NaturalIds, ClockNumbers
  <2> QED BY <2>2 DEF UpdateTimeOffset
<1>2. ASSUME NEW m, m.id = id
      PROVE  FirstOffset(m, f).last \in Nat /\ FirstOffset(m, f).offset \in Int
  BY <1>1, <1>2 DEF FirstOffset, Numbers
<1> QED BY <1>1, <1>2

LEMMA NaturalStep == OrderInv /\ Naturals /\ [Next]_vars => Naturals'
<1> SUFFICES ASSUME OrderInv, Naturals, [Next]_vars PROVE Naturals'
  OBVIOUS
<1>0. /\ Numbers /\ NextId \in Nat
  BY StateAssumption DEF NextId, OrderInv, Numbers, Naturals, StateAssumption
<1>1. CASE Send
  <2>1. UNCHANGED <<highest, top, epoch, down>>
    BY <1>1 DEF Send, server, ghosts
  <2>2. last' \in Nat
    <3>1. CASE last' = last
      BY <3>1 DEF Naturals
    <3>2. CASE \E batch : \E f \in Instants(Len(batch)) : Mail(batch, Reading(f)) /\ \E n \in Nat : batch = [i \in 1..n |-> batch[i]]
      <4>1. PICK batch : \E f \in Instants(Len(batch)) : Mail(batch, Reading(f)) /\ \E n \in Nat : batch = [i \in 1..n |-> batch[i]]
        BY <3>2
      <4>2. PICK f \in 0..Slots - 1 : Mail(batch, Reading(f)) /\ \E n \in Nat : batch = [i \in 1..n |-> batch[i]]
        BY <4>1, <1>0, ClockNumbers
      <4>3. NewId(last, Reading(f)) \in Nat /\ Len(batch) \in Nat
        <5>1. Reading(f) \in Int /\ last \in Nat
          BY <1>0, ClockNumbers DEF Naturals
        <5> QED BY <5>1, <4>2, NaturalIds
      <4> QED BY <4>2, <4>3 DEF Mail, Packet
    <3>3. \A q : \E n \in Nat : Batch(q) = [i \in 1..n |-> Batch(q)[i]]
      <4> SUFFICES ASSUME NEW q PROVE \E n \in Nat : Batch(q) = [i \in 1..n |-> Batch(q)[i]]
        OBVIOUS
      <4>1. PICK n \in Nat : Batch(q) = [i \in 1..n |-> q[i]]
        BY BatchIsSequence
      <4> QED BY <4>1
    <3> QED BY <1>1, <3>1, <3>2, <3>3 DEF Send
  <2> QED BY <2>1, <2>2 DEF Naturals
<1>2. CASE Serve
  <2>1. UNCHANGED <<highest, last, epoch>>
    BY <1>2 DEF Serve, packer, state
  <2> DEFINE p == Head(up)
             fresh == {i \in DOMAIN p.msgs : \A s \in seen : s.id # p.msgs[i].id}
  <2>2. /\ top' = IF fresh = {} THEN top ELSE NextId + Len(p.msgs) - 1
        /\ down' = down \cup {Reply("result", p.msgs[i].id, i - 1) : i \in fresh}
        /\ up # <<>>
    BY <1>2 DEF Serve
  <2>3. PICK M : p.msgs \in Seq(M)
    <3>1. PICK P : up \in Seq(P)
      BY DEF OrderInv, Shape
    <3>2. 1 \in DOMAIN up /\ p = up[1]
      BY <2>2, <3>1
    <3> QED BY <3>2 DEF OrderInv, Shape
  <2>4. \A i \in fresh : i \in Nat /\ i >= 1 /\ i <= Len(p.msgs)
    BY <2>3
  <2>5. Len(p.msgs) \in Nat
    BY <2>3
  <2> HIDE DEF p, fresh
  <2>6. top' \in Nat
    BY <1>0, <2>2, <2>4, <2>5 DEF Naturals
  <2>7. \A i \in fresh : \A ref : Reply("result", ref, i - 1).id \in Nat
    BY <1>0, <2>4 DEF Reply
  <2>8. \A m \in down' : m.id \in Nat
    BY <2>2, <2>7 DEF Naturals
  <2> QED BY <2>1, <2>6, <2>8 DEF Naturals
<1>3. CASE (\E t \in {"salt", "low", "high"} : Refuse(t)) \/ RefuseSeq("seqlow") \/ RefuseSeq("seqhigh")
  <2>1. UNCHANGED <<last, highest, epoch>> /\ top' = NextId
    BY <1>3 DEF Refuse, RefuseSeq, packer, state, ghosts
  <2>2. \A t, ref : Reply(t, ref, 0).id \in Nat
    BY <1>0 DEF Reply
  <2>3. \A m \in down' : m.id \in Nat
    BY <1>3, <2>2 DEF Refuse, RefuseSeq, Naturals
  <2> QED BY <1>0, <2>1, <2>3 DEF Naturals
<1>4. CASE Receiving
  <2>1. PICK m \in down : Receive(m)
    BY <1>4 DEF Receiving
  <2>2. m.id \in Nat /\ m.id \in Int /\ IsMessage(m)
    BY DEF Naturals, OrderInv, Numbers
  <2>3. top' = top
    BY <2>1 DEF Receive, server
  <2>4. \A x \in down' : x.id \in Nat
    <3>1. [m EXCEPT !.sent = time].id = m.id
      BY <2>2 DEF IsMessage
    <3> QED BY <2>1, <2>2, <3>1 DEF Receive, Delivered, Naturals
  <2>5. CASE Ignored(m)
    BY <2>1, <2>3, <2>4, <2>5 DEF Receive, state, Naturals
  <2>6. CASE ~Ignored(m)
    <3>1. highest' = m.id
      BY <2>1, <2>6 DEF Receive, Remember
    <3>2. epoch' \in Nat
      BY <2>1, <2>6 DEF Receive, HandleResult, HandleNote, HandleSalt, HandleTime, HandleSeq, NewEpoch, Naturals
    <3>3. last \in Nat /\ offset \in Int /\ Instants(0) \subseteq 0..Slots - 1
      BY <1>0, ClockNumbers DEF Naturals, Numbers
    <3>4. CASE HandleResult(m) \/ HandleNote(m)
      BY <2>2, <2>3, <2>4, <3>1, <3>2, <3>3, <3>4 DEF HandleResult, HandleNote, Naturals
    <3>5. CASE HandleSalt(m) \/ HandleSeq(m)
      <4>1. PICK f \in 0..Slots - 1 : Clock(FirstOffset(m, f))
        BY <3>3, <3>5 DEF HandleSalt, HandleSeq
      <4>2. last' \in Nat
        BY <1>0, <2>2, <3>3, <4>1, NaturalCorrections DEF Clock
      <4> QED BY <2>2, <2>3, <2>4, <3>1, <3>2, <4>2 DEF Naturals
    <3>6. CASE HandleTime(m)
      <4>1. PICK f \in 0..Slots - 1 :
              LET c == FirstOffset(m, f) IN Clock(UpdateTimeOffset(m.id, c.offset, c.last, f))
        BY <3>3, <3>6 DEF HandleTime
      <4>2. last' \in Nat
        BY <1>0, <2>2, <3>3, <4>1, NaturalCorrections DEF Clock
      <4> QED BY <2>2, <2>3, <2>4, <3>1, <3>2, <4>2 DEF Naturals
    <3> QED BY <2>1, <2>6, <3>4, <3>5, <3>6 DEF Receive
  <2> QED BY <2>5, <2>6
<1>5. CASE Reconnect \/ Revive
  BY <1>5 DEF Reconnect, Revive, Reset, Naturals
<1>6. CASE \/ \E r \in Requests : Submit(r) \/ Cancel(r)
           \/ Rotate \/ Tick \/ Jump \/ UNCHANGED vars
  BY <1>6 DEF Submit, Cancel, Rotate, Tick, Jump, vars, state, server, ghosts, Naturals
<1>7. CASE Telling
  <2>1. UNCHANGED <<last, highest, epoch>> /\ top' = NextId
    BY <1>0, <1>7, Told
  <2>2. Reply("note", 0, 0).id \in Nat /\ Reply("session", 0, 0).id \in Nat
        /\ \A m : Boxed(m).id \in Nat
    BY <1>0 DEF Reply, Boxed
  <2>3. \A m \in down' : m.id \in Nat
    BY <1>0, <1>7, <2>2, Told DEF Naturals
  <2> QED BY <1>0, <2>1, <2>3 DEF Naturals
<1> QED BY <1>1, <1>2, <1>3, <1>4, <1>5, <1>6, <1>7 DEF Next, Answering, Telling

LEMMA SaltsStep == OrderInv /\ Ground /\ Salts /\ [Next]_vars => Salts'
<1> SUFFICES ASSUME OrderInv, Ground, Salts, [Next]_vars PROVE Salts'
  OBVIOUS
<1>1. \A t, ref, i : Reply(t, ref, i).salt \in Nat
  <2>1. count["rotate"] \in Nat
    BY DEF Ground, Bound
  <2> QED BY <2>1 DEF Reply, CurrentSalt
<1>2. CASE Serve
  <2>1. UNCHANGED salt /\ \A m \in down' : m \in down \/ \E ref, i : m = Reply("result", ref, i)
    BY <1>2 DEF Serve, state
  <2> QED BY <1>1, <2>1 DEF Salts
<1>3. CASE (\E t \in {"salt", "low", "high"} : Refuse(t)) \/ RefuseSeq("seqlow") \/ RefuseSeq("seqhigh")
  <2>1. UNCHANGED salt /\ \A m \in down' : m \in down \/ \E t, ref, i : m = Reply(t, ref, i)
    BY <1>3 DEF Refuse, RefuseSeq, state
  <2> QED BY <1>1, <2>1 DEF Salts
<1>4. CASE Telling
  <2>1. \A m \in down : Boxed(m).salt \in Nat
    BY DEF Boxed, Salts
  <2> QED BY <1>1, <1>4, <2>1, Told DEF OrderInv, Salts
<1>5. CASE Receiving
  <2>1. PICK m \in down : Receive(m)
    BY <1>5 DEF Receiving
  <2>2. m.salt \in Nat /\ [m EXCEPT !.sent = time].salt = m.salt
    BY DEF Salts, OrderInv, Numbers, IsMessage
  <2>3. \A x \in down' : x.salt \in Nat
    BY <2>1, <2>2 DEF Receive, Delivered, Salts
  <2>4. salt' = salt \/ salt' = m.salt
    BY <2>1 DEF Receive, state, HandleResult, HandleNote, HandleSalt, HandleTime, HandleSeq
  <2> QED BY <2>2, <2>3, <2>4 DEF Salts
<1>6. CASE \/ \E r \in Requests : Submit(r) \/ Cancel(r)
           \/ Send \/ Rotate \/ Tick \/ Jump \/ Reconnect \/ Revive \/ UNCHANGED vars
  BY <1>6 DEF Submit, Cancel, Send, Rotate, Tick, Jump, Reconnect, Revive, Reset, vars, state, Salts
<1> QED BY <1>2, <1>3, <1>4, <1>5, <1>6 DEF Next, Answering, Telling

-----------------------------------------------------------------------------
(* Where the requests are                                                  *)

LEMMA TidyAppended ==
  ASSUME NEW q, NEW d, NEW ids, Tidy(q, d, ids), NEW r \in Requests, ~In(q, r), ~Held(d, r)
  PROVE  /\ Tidy(Append(q, r), d, ids)
         /\ \A s : In(Append(q, r), s) <=> In(q, s) \/ s = r
<1> DEFINE n == Len(q)
           qs == Append(q, r)
<1>1. /\ n \in Nat /\ DOMAIN q = 1..n
      /\ qs \in Seq(Requests) /\ DOMAIN qs = 1..n + 1
      /\ \A i \in 1..n : qs[i] = q[i] /\ i \in 1..n + 1
      /\ qs[n + 1] = r /\ n + 1 \in 1..n + 1
  BY DEF Tidy
<1>2. \A x \in 1..n + 1 : x \in 1..n \/ x = n + 1
  BY <1>1
<1> HIDE DEF qs, n
<1>3. \A s : In(qs, s) <=> In(q, s) \/ s = r
  BY <1>1, <1>2 DEF In
<1>4. Distinct(qs)
  BY <1>1, <1>2 DEF Distinct, In, Tidy
<1>5. \A i \in DOMAIN d : ~In(qs, d[i].req)
  BY <1>3 DEF Held, Tidy
<1> QED BY <1>1, <1>3, <1>4, <1>5 DEF Tidy, qs

(* What a handler does to the requests: it takes some out of pending, to   *)
(* queue them again or because they are answered. *)
LEMMA Handled ==
  ASSUME Requested, NEW m,
         HandleResult(m) \/ HandleNote(m) \/ HandleSalt(m) \/ HandleTime(m) \/ HandleSeq(m)
  PROVE  /\ Tidy(queue', pending', msgId) /\ Within(pending', pending)
         /\ fut' \in [Requests -> Outcomes]
         /\ \A r : In(queue', r) \/ Held(pending', r) => In(queue, r) \/ Held(pending, r)
         /\ \A r : In(queue, r) \/ Held(pending, r) =>
              \/ In(queue', r) \/ Held(pending', r)
              \/ fut'[r] # "waiting"
         /\ \A r \in Requests :
              \/ fut'[r] = fut[r]
              \/ /\ m.type = "result" /\ fut[r] = "waiting" /\ fut'[r] = "answered"
                 /\ \E i \in DOMAIN pending : pending[i].id = m.ref /\ pending[i].req = r
<1>0. Tidy(queue, pending, msgId) /\ fut \in [Requests -> Outcomes]
  BY DEF Requested
<1>1. CASE HandleResult(m)
  <2> DEFINE I == {i \in DOMAIN pending : pending[i].id # m.ref}
             heard == {e.req : e \in {x \in Range(pending) : x.id = m.ref}}
  <2>1. /\ m.type = "result" /\ queue' = queue /\ pending' = Pick(pending, I)
        /\ fut' = [r \in Requests |-> IF r \in heard /\ CanSet(r) THEN "answered" ELSE fut[r]]
    BY <1>1 DEF HandleResult
  <2>2. I \in SUBSET DOMAIN pending
    OBVIOUS
  <2>3. Tidy(queue, pending', msgId)
    BY <1>0, <2>1, <2>2, TidyRemoval
  <2>4. /\ \A k \in DOMAIN pending' : \E i \in I : pending'[k] = pending[i]
        /\ \A i \in I : \E k \in DOMAIN pending' : pending'[k] = pending[i]
    BY <1>0, <2>1, <2>2, PickDictionary DEF Tidy
  <2>5. \A r : r \in heard <=> \E i \in DOMAIN pending : pending[i].id = m.ref /\ pending[i].req = r
    BY DEF Range
  <2> HIDE DEF heard
  <2>6. Within(pending', pending)
    BY <2>4 DEF Within
  <2>7. fut' \in [Requests -> Outcomes]
    BY <1>0, <2>1 DEF Outcomes
  <2>8. \A r \in Requests :
              \/ fut'[r] = fut[r]
              \/ /\ fut[r] = "waiting" /\ fut'[r] = "answered" /\ r \in heard
    BY <2>1 DEF CanSet
  <2>9. ASSUME NEW r, Held(pending, r)
        PROVE  Held(pending', r) \/ fut'[r] # "waiting"
    <3>1. PICK i \in DOMAIN pending : pending[i].req = r
      BY <2>9 DEF Held
    <3>2. CASE i \in I
      BY <3>1, <3>2, <2>4 DEF Held
    <3>3. CASE i \notin I
      <4>1. r \in heard
        BY <3>1, <3>3, <2>5
      <4>2. r \in Requests
        <5>1. pending \in Seq(Entry)
          BY <1>0 DEF Tidy, Dictionary
        <5> QED BY <3>1, <5>1, EntryFields
      <4> QED BY <4>1, <4>2, <2>1 DEF CanSet
    <3> QED BY <3>2, <3>3
  <2>10. \A r : Held(pending', r) => Held(pending, r)
    BY <2>6 DEF Held, Within
  <2> QED BY <2>1, <2>3, <2>5, <2>6, <2>7, <2>8, <2>9, <2>10
<1>2. CASE HandleNote(m)
  <2>1. queue' = queue /\ pending' = pending /\ fut' = fut
    BY <1>2 DEF HandleNote
  <2>2. Within(pending, pending)
    BY DEF Within
  <2> QED BY <1>0, <2>1, <2>2
<1>3. CASE HandleSalt(m) \/ HandleTime(m) \/ HandleSeq(m)
  <2> DEFINE I == Popped(m.ref)
  <2>1. fut' = fut /\ Resend(m.ref)
    BY <1>3 DEF HandleSalt, HandleTime, HandleSeq
  <2>2. I \in SUBSET DOMAIN pending
    BY DEF Popped
  <2> HIDE DEF I
  <2>3. /\ pending' = Pick(pending, DOMAIN pending \ I)
        /\ queue' = queue \o Entries(Pick(pending, I))
    BY <2>1 DEF Resend, I
  <2>4. /\ Tidy(queue', pending', msgId) /\ Within(pending', pending)
        /\ \A r : In(queue, r) \/ Held(pending, r) <=> In(queue', r) \/ Held(pending', r)
    BY <1>0, <2>2, <2>3, TidyResent
  <2> QED BY <1>0, <2>1, <2>4
<1> QED BY <1>1, <1>2, <1>3

LEMMA BatchIsPrefix ==
  ASSUME NEW S, NEW q \in Seq(S)
  PROVE  \E n \in 0..Len(q) : Batch(q) = [i \in 1..n |-> q[i]]
<1> DEFINE ends == {n \in 0..MaxLength + 1 :
                      n \in {MaxLength + 1, MaxSize} \/ (n < Len(q) => q[n + 1] \in big)}
           l == Len(q)
<1>0. l \in Nat /\ MaxLength \in Nat
  BY StateAssumption DEF StateAssumption
<1>1. ends \subseteq Nat /\ MaxLength + 1 \in ends
  BY <1>0
<1>2. l <= MaxLength + 1 => l \in ends
  BY <1>0
<1> HIDE DEF ends
<1>3. Min(ends) \in Nat /\ \A y \in ends : Min(ends) <= y
  BY <1>1, Least
<1>4. Min(ends) \in 0..l
  BY <1>0, <1>1, <1>2, <1>3
<1> QED BY <1>4 DEF Batch, ends

(* The packer takes some requests out of the front of the queue, tells     *)
(* those that are too big, and makes a packet of the others. *)
LEMMA Packs ==
  ASSUME queue \in Seq(Requests), fut \in [Requests -> Outcomes], Send
  PROVE  \E a \in 0..Len(queue) : \E b \in a..Len(queue) :
           /\ queue' \in Seq(Requests) /\ Len(queue') = Len(queue) - b
           /\ \A i \in 1..Len(queue) - b : queue'[i] = queue[b + i]
           /\ fut' \in [Requests -> Outcomes]
           /\ \A r \in Requests : fut'[r] = fut[r] \/ (fut[r] = "waiting" /\ fut'[r] = "error")
           /\ \A i \in 1..a : fut'[queue[i]] # "waiting"
           /\ \/ b = a /\ UNCHANGED <<last, sequence, msgId, contId, pending, up>>
              \/ b > a /\ \E f \in Instants(b - a) : Mail([i \in 1..b - a |-> queue[a + i]], Reading(f))
<1> DEFINE l == Len(queue)
           big0 == {n \in 0..l : n < l => queue[n + 1] \notin big}
           n == Oversized
           fails == SubSeq(queue, 1, n)
           bad == {i \in 1..n : fut[fails[i]] # "waiting"}
           told == IF bad = {} THEN Range(fails) ELSE Range(SubSeq(fails, 1, Min(bad) - 1))
           rest == SubSeq(queue, n + 1, l)
           batch == Batch(rest)
<1>1. l \in Nat /\ DOMAIN queue = 1..l /\ \A i \in 1..l : queue[i] \in Requests
  OBVIOUS
<1>2. n \in 0..l
  <2>1. big0 \subseteq Nat /\ l \in big0
    BY <1>1
  <2> HIDE DEF big0
  <2>2. Min(big0) \in big0
    BY <2>1, Least
  <2> QED BY <2>2 DEF Oversized, big0
<1>3. /\ fut' = [r \in Requests |-> IF r \in told THEN "error" ELSE fut[r]]
      /\ \/ /\ bad # {}
            /\ queue' = SubSeq(queue, Min(bad) + 1, l)
            /\ UNCHANGED <<last, sequence, msgId, contId, pending, up>>
         \/ /\ bad = {}
            /\ queue' = SubSeq(rest, Len(batch) + 1, Len(rest))
            /\ IF batch = <<>>
               THEN UNCHANGED <<last, sequence, msgId, contId, pending, up>>
               ELSE \E f \in Instants(Len(batch)) : Mail(batch, Reading(f))
  BY DEF Send
<1> HIDE DEF n
<1>4. /\ fails \in Seq(Requests) /\ Len(fails) = n /\ \A i \in 1..n : fails[i] = queue[i]
      /\ \A i \in 1..n : i \in 1..l
  <2>1. \A i \in 1..n : queue[i] \in Requests /\ i \in 1..l
    BY <1>1, <1>2
  <2>2. n \in Nat /\ n - 1 + 1 = n /\ (IF 1 <= n THEN n - 1 + 1 ELSE 0) = n
    BY <1>2
  <2>3. /\ fails \in Seq(Requests) /\ Len(fails) = IF 1 <= n THEN n - 1 + 1 ELSE 0
        /\ \A i \in 1..n - 1 + 1 : fails[i] = queue[1 + i - 1]
    BY <2>1, <2>2, SubSeqProperties
  <2>4. \A i \in 1..n : 1 + i - 1 = i
    BY <2>2
  <2> QED BY <2>1, <2>2, <2>3, <2>4
<1> HIDE DEF fails
<1>5. CASE bad # {}
  <2> DEFINE b == Min(bad)
  <2>1. b \in 1..n /\ b \in bad /\ \A i \in bad : b <= i
    <3>1. bad \subseteq Nat
      BY <1>2
    <3> HIDE DEF bad
    <3>2. Min(bad) \in bad /\ \A y \in bad : Min(bad) <= y
      BY <1>5, <3>1, Least
    <3> QED BY <3>2 DEF bad
  <2>2. b \in Nat /\ b <= n /\ n <= l /\ b \in 0..l /\ b \in b..l
    BY <1>1, <1>2, <2>1
  <2>3. /\ queue' = SubSeq(queue, b + 1, l)
        /\ UNCHANGED <<last, sequence, msgId, contId, pending, up>>
        /\ told = Range(SubSeq(fails, 1, b - 1))
    BY <1>3, <1>5
  <2> HIDE DEF bad, b
  <2>4. \A r : r \in told => \E i \in 1..b - 1 : r = queue[i]
    <3>1. \A i \in 1..b - 1 : fails[i] \in Requests /\ i \in 1..n /\ fails[i] = queue[i]
      BY <1>4, <2>2
    <3>2. b - 1 \in Int /\ b - 1 - 1 + 1 = b - 1 /\ (IF 1 <= b - 1 THEN b - 1 - 1 + 1 ELSE 0) = b - 1
      BY <2>1, <2>2
    <3>3. /\ SubSeq(fails, 1, b - 1) \in Seq(Requests)
          /\ Len(SubSeq(fails, 1, b - 1)) = IF 1 <= b - 1 THEN b - 1 - 1 + 1 ELSE 0
          /\ \A i \in 1..b - 1 - 1 + 1 : SubSeq(fails, 1, b - 1)[i] = fails[1 + i - 1]
      BY <3>1, <3>2, SubSeqProperties
    <3>4. \A i \in 1..b - 1 : 1 + i - 1 = i
      BY <2>2
    <3>5. DOMAIN SubSeq(fails, 1, b - 1) = 1..b - 1
      BY <3>2, <3>3
    <3>6. \A i \in 1..b - 1 : SubSeq(fails, 1, b - 1)[i] = queue[i]
      BY <3>1, <3>2, <3>3, <3>4
    <3> HIDE DEF told
    <3> QED BY <2>3, <3>5, <3>6 DEF Range
  <2>4a. \A i \in 1..b - 1 : queue[i] \in told
    <3>1. \A i \in 1..b - 1 : fails[i] \in Requests /\ i \in 1..n /\ fails[i] = queue[i]
      BY <1>4, <2>2
    <3>2. b - 1 \in Int /\ b - 1 - 1 + 1 = b - 1 /\ (IF 1 <= b - 1 THEN b - 1 - 1 + 1 ELSE 0) = b - 1
      BY <2>1, <2>2
    <3>3. /\ SubSeq(fails, 1, b - 1) \in Seq(Requests)
          /\ Len(SubSeq(fails, 1, b - 1)) = IF 1 <= b - 1 THEN b - 1 - 1 + 1 ELSE 0
          /\ \A i \in 1..b - 1 - 1 + 1 : SubSeq(fails, 1, b - 1)[i] = fails[1 + i - 1]
      BY <3>1, <3>2, SubSeqProperties
    <3>4. \A i \in 1..b - 1 : 1 + i - 1 = i
      BY <2>2
    <3>5. DOMAIN SubSeq(fails, 1, b - 1) = 1..b - 1
      BY <3>2, <3>3
    <3>6. \A i \in 1..b - 1 : SubSeq(fails, 1, b - 1)[i] = queue[i]
      BY <3>1, <3>2, <3>3, <3>4
    <3> HIDE DEF told
    <3> QED BY <2>3, <3>5, <3>6 DEF Range
  <2>5. \A i \in 1..b - 1 : fut[queue[i]] = "waiting"
    <3> SUFFICES ASSUME NEW i \in 1..b - 1, fut[queue[i]] # "waiting" PROVE FALSE
      OBVIOUS
    <3>1. i \in 1..n /\ i < b /\ i \in Nat
      BY <1>2, <2>2
    <3>2. i \in bad
      BY <3>1, <1>4 DEF bad
    <3> QED BY <2>1, <2>2, <3>1, <3>2
  <2>6. fut[queue[b]] # "waiting" /\ b \in 1..l
    BY <1>4, <2>1 DEF bad
  <2> HIDE DEF told
  <2>7. fut' \in [Requests -> Outcomes] /\ \A r \in Requests : fut'[r] = IF r \in told THEN "error" ELSE fut[r]
    BY <1>3 DEF Outcomes
  <2>8. \A r \in Requests : fut'[r] = fut[r] \/ (fut[r] = "waiting" /\ fut'[r] = "error")
    BY <2>4, <2>5, <2>7
  <2>9. \A i \in 1..b : fut'[queue[i]] # "waiting"
    <3>1. \A i \in 1..b : queue[i] \in Requests /\ (i \in 1..b - 1 \/ i = b)
      BY <1>1, <2>2
    <3> QED BY <2>4a, <2>6, <2>7, <3>1
  <2>10. /\ queue' \in Seq(Requests) /\ Len(queue') = l - b
         /\ \A i \in 1..l - b : queue'[i] = queue[b + i]
    <3>1. \A i \in b + 1..l : queue[i] \in Requests
      BY <1>1, <2>2
    <3>0. b \in Nat /\ b <= l /\ l \in Nat
      BY <1>1, <1>2, <2>2
    <3>2. b + 1 \in Int /\ l \in Int /\ l - (b + 1) + 1 = l - b
          /\ (IF b + 1 <= l THEN l - (b + 1) + 1 ELSE 0) = l - b
      <4> HIDE DEF l
      <4> QED BY <3>0
    <3>3. /\ queue' \in Seq(Requests) /\ Len(queue') = IF b + 1 <= l THEN l - (b + 1) + 1 ELSE 0
          /\ \A i \in 1..l - (b + 1) + 1 : queue'[i] = queue[b + 1 + i - 1]
      BY <2>3, <3>1, <3>2, SubSeqProperties
    <3>4. \A i \in 1..l - b : b + 1 + i - 1 = b + i
      BY <1>1, <2>2
    <3> QED BY <3>2, <3>3, <3>4
  <2> QED BY <2>2, <2>3, <2>7, <2>8, <2>9, <2>10
<1>6. CASE bad = {}
  <2> DEFINE k == l - n
  <2>0. k \in Nat /\ n \in Nat /\ n + k = l
    BY <1>1, <1>2
  <2> HIDE DEF k
  <2>1. rest \in Seq(Requests) /\ Len(rest) = k /\ \A i \in 1..k : rest[i] = queue[n + i]
    <3>1. \A i \in n + 1..l : queue[i] \in Requests
      BY <1>1, <2>0
    <3>2. n + 1 \in Int /\ l \in Int /\ l - (n + 1) + 1 = k /\ (IF n + 1 <= l THEN l - (n + 1) + 1 ELSE 0) = k
      <4> HIDE DEF l
      <4> QED BY <1>1, <2>0
    <3>3. /\ rest \in Seq(Requests) /\ Len(rest) = IF n + 1 <= l THEN l - (n + 1) + 1 ELSE 0
          /\ \A i \in 1..l - (n + 1) + 1 : rest[i] = queue[n + 1 + i - 1]
      BY <3>1, <3>2, SubSeqProperties
    <3>4. \A i \in 1..k : n + 1 + i - 1 = n + i
      BY <2>0
    <3> QED BY <3>2, <3>3, <3>4
  <2> HIDE DEF rest
  <2>2. PICK c \in 0..k : batch = [i \in 1..c |-> rest[i]]
    BY <2>0, <2>1, BatchIsPrefix
  <2>3. c \in Nat /\ c <= k /\ Len(batch) = c
    BY <2>0, <2>2
  <2>4. batch = [i \in 1..c |-> queue[n + i]]
    <3>1. \A i \in 1..c : i \in 1..k
      BY <2>0, <2>3
    <3> QED BY <2>1, <2>2, <3>1
  <2>5. batch = <<>> <=> c = 0
    BY <2>3, <2>4
  <2>6. /\ queue' = SubSeq(rest, c + 1, k)
        /\ IF batch = <<>>
           THEN UNCHANGED <<last, sequence, msgId, contId, pending, up>>
           ELSE \E f \in Instants(c) : Mail(batch, Reading(f))
        /\ told = Range(fails)
    BY <1>3, <1>6, <2>1, <2>3
  <2> HIDE DEF batch
  <2> DEFINE b == n + c
  <2>7. b \in n..l /\ b - n = c /\ l - b = k - c /\ (b = n <=> c = 0) /\ (b > n <=> c # 0)
    BY <2>0, <2>3
  <2>8. /\ queue' \in Seq(Requests) /\ Len(queue') = k - c
        /\ \A i \in 1..k - c : queue'[i] = queue[b + i]
    <3>1. \A i \in c + 1..k : rest[i] \in Requests
      BY <2>0, <2>1, <2>3
    <3>2. c + 1 \in Int /\ k \in Int /\ k - (c + 1) + 1 = k - c
          /\ (IF c + 1 <= k THEN k - (c + 1) + 1 ELSE 0) = k - c
      BY <2>0, <2>3
    <3>3. /\ queue' \in Seq(Requests) /\ Len(queue') = IF c + 1 <= k THEN k - (c + 1) + 1 ELSE 0
          /\ \A i \in 1..k - (c + 1) + 1 : queue'[i] = rest[c + 1 + i - 1]
      BY <2>6, <3>1, <3>2, SubSeqProperties
    <3>4. \A i \in 1..k - c : c + 1 + i - 1 = c + i /\ c + i \in 1..k /\ n + (c + i) = b + i
      BY <2>0, <2>3
    <3>5. \A i \in 1..k - c : queue'[i] = rest[c + i]
      BY <3>2, <3>3, <3>4
    <3> QED BY <2>1, <3>2, <3>3, <3>4, <3>5
  <2>9. \A r : r \in told <=> \E i \in 1..n : r = queue[i]
    <3>1. DOMAIN fails = 1..n
      BY <1>4, <2>0
    <3> HIDE DEF told
    <3> QED BY <1>4, <2>6, <3>1 DEF Range
  <2>10. \A i \in 1..n : fut[queue[i]] = "waiting" /\ queue[i] \in Requests
    BY <1>1, <1>4, <1>6
  <2> HIDE DEF told, bad, b
  <2>11. fut' \in [Requests -> Outcomes] /\ \A r \in Requests : fut'[r] = IF r \in told THEN "error" ELSE fut[r]
    BY <1>3 DEF Outcomes
  <2>12. \A r \in Requests : fut'[r] = fut[r] \/ (fut[r] = "waiting" /\ fut'[r] = "error")
    BY <2>9, <2>10, <2>11
  <2>13. \A i \in 1..n : fut'[queue[i]] # "waiting"
    BY <2>9, <2>10, <2>11
  <2>14. \/ b = n /\ UNCHANGED <<last, sequence, msgId, contId, pending, up>>
         \/ b > n /\ \E f \in Instants(b - n) : Mail([i \in 1..b - n |-> queue[n + i]], Reading(f))
    BY <2>4, <2>5, <2>6, <2>7
  <2> QED BY <1>2, <2>7, <2>8, <2>11, <2>12, <2>13, <2>14
<1> QED BY <1>5, <1>6

Posted(batch, now, k) ==
  LET p == Packet(batch, now)
      first == NewId(last, now)
  IN
  /\ msgId' \in [Requests -> Nat] /\ contId' \in [Requests -> Nat]
  /\ Tidy(queue', pending', msgId')
  /\ up' = Append(up, p) /\ DOMAIN p.msgs = 1..k
  /\ \A i \in 1..k : /\ p.msgs[i].id = first + (i - 1) /\ p.msgs[i].id \in Nat
                     /\ p.msgs[i].req = batch[i]
                     /\ batch[i] \in Requests /\ In(queue, batch[i])
  /\ \A x \in DOMAIN pending' :
       \/ \E i \in DOMAIN pending : /\ pending'[x] = pending[i]
                                    /\ \A j \in 1..k : p.msgs[j].id # pending[i].id
       \/ \E j \in 1..k : pending'[x].id = p.msgs[j].id /\ pending'[x].req = batch[j]
  /\ (\A i \in DOMAIN pending, j \in 1..k : pending[i].id # p.msgs[j].id) =>
       /\ \A r : Held(pending, r) => Held(pending', r)
       /\ \A j \in 1..k : Held(pending', batch[j])

(* The messages of a packet are pending, each with the id it was given.    *)
LEMMA Mailed ==
  ASSUME Tidy(queue, pending, msgId), msgId \in [Requests -> Nat], contId \in [Requests -> Nat],
         last \in Nat, NEW a \in Nat, NEW k \in Nat \ {0}, a + k <= Len(queue),
         NEW batch, batch = [i \in 1..k |-> queue[a + i]], NEW now \in Int, Mail(batch, now),
         queue' \in Seq(Requests), Len(queue') = Len(queue) - (a + k),
         \A i \in 1..Len(queue) - (a + k) : queue'[i] = queue[a + k + i]
  PROVE  Posted(batch, now, k)
<1> DEFINE p == Packet(batch, now)
           first == NewId(last, now)
           l == Len(queue)
           msgs == p.msgs
<1>0. /\ l \in Nat /\ DOMAIN queue = 1..l /\ queue \in Seq(Requests) /\ Distinct(queue)
      /\ Dictionary(pending)
  BY DEF Tidy
<1>1. first \in Nat
  BY NaturalIds
<1>2. Len(batch) = k /\ DOMAIN batch = 1..k
  OBVIOUS
<1> HIDE DEF first
<1>3. /\ p.msgs = [i \in 1..k |-> Message(batch[i], i, now)]
      /\ p.id = first + (IF k > 1 THEN k ELSE 0)
  BY <1>2 DEF Packet, first
<1>4. /\ msgId' = [r \in Requests |-> IF r \in Range(batch)
                                      THEN p.msgs[CHOOSE i \in DOMAIN batch : batch[i] = r].id
                                      ELSE msgId[r]]
      /\ contId' = IF k = 1 THEN contId
                   ELSE [r \in Requests |-> IF r \in Range(batch) THEN p.id ELSE contId[r]]
      /\ pending' = Put(pending, p.msgs)
      /\ up' = Append(up, p)
  BY <1>2 DEF Mail
<1> HIDE DEF p
<1>5. \A i \in 1..k : batch[i] = queue[a + i] /\ a + i \in 1..l
  <2>1. \A i \in 1..k : batch[i] = queue[a + i]
    OBVIOUS
  <2>2. l \in Nat /\ a + k <= l
    BY <1>0
  <2> HIDE DEF l
  <2>3. \A i \in 1..k : a + i \in 1..l
    BY <2>2
  <2> QED BY <2>1, <2>3
<1>6. \A i \in 1..k : batch[i] \in Requests /\ In(queue, batch[i])
  <2>1. \A i \in 1..l : queue[i] \in Requests /\ i \in DOMAIN queue
    BY <1>0
  <2> QED BY <1>5, <2>1 DEF In
<1>7. \A i \in 1..k : msgs[i].id = first + (i - 1) /\ msgs[i].id \in Nat /\ msgs[i].req = batch[i]
  <2>1. \A i \in 1..k : msgs[i].id = first + i - 1 /\ msgs[i].req = batch[i]
    BY <1>3 DEF Message, first
  <2>2. \A i \in 1..k : first + i - 1 = first + (i - 1) /\ first + i - 1 \in Nat
    BY <1>1
  <2> QED BY <2>1, <2>2
<1>8. msgs = [i \in 1..k |-> msgs[i]] /\ DOMAIN msgs = 1..k
  BY <1>3
<1>9. \A i, j \in 1..k : msgs[i].id = msgs[j].id => i = j
  <2>1. SUFFICES ASSUME NEW i \in 1..k, NEW j \in 1..k, msgs[i].id = msgs[j].id PROVE i = j
    OBVIOUS
  <2>2. first + (i - 1) = first + (j - 1)
    BY <1>7, <2>1
  <2> QED BY <1>1, <2>2
<1>10. \A i, j \in 1..k : batch[i] = batch[j] => i = j
  <2> SUFFICES ASSUME NEW i \in 1..k, NEW j \in 1..k, batch[i] = batch[j] PROVE i = j
    OBVIOUS
  <2>1. a + i = a + j
    BY <1>0, <1>5 DEF Distinct
  <2> QED BY <2>1
<1> HIDE DEF msgs
<1>11. /\ Dictionary(pending')
       /\ \A x \in DOMAIN pending' :
              \/ \E i \in DOMAIN pending : /\ pending'[x] = pending[i]
                                           /\ \A j \in 1..k : msgs[j].id # pending[i].id
              \/ \E j \in 1..k : pending'[x] = [id |-> msgs[j].id, req |-> msgs[j].req]
       /\ (\A i \in DOMAIN pending, j \in 1..k : pending[i].id # msgs[j].id) =>
              /\ \A i \in DOMAIN pending : \E x \in DOMAIN pending' : pending'[x] = pending[i]
              /\ \A j \in 1..k : \E x \in DOMAIN pending' :
                   pending'[x] = [id |-> msgs[j].id, req |-> msgs[j].req]
  <2>1. \A i \in 1..k : msgs[i].id \in Nat /\ msgs[i].req \in Requests
    BY <1>6, <1>7
  <2>2. pending' = Put(pending, msgs) /\ k \in Nat
    BY <1>4 DEF msgs
  <2>3. Messages(msgs, k)
    BY <1>8, <1>9, <2>1 DEF Messages
  <2>4. Merged(Put(pending, msgs), pending, msgs, k)
    BY <1>0, <2>2, <2>3, Putting
  <2> QED BY <2>2, <2>4 DEF Merged
<1>12. \A x \in DOMAIN pending' :
              \/ \E i \in DOMAIN pending : /\ pending'[x] = pending[i]
                                           /\ \A j \in 1..k : msgs[j].id # pending[i].id
              \/ \E j \in 1..k : /\ pending'[x].id = msgs[j].id
                                 /\ pending'[x].req = batch[j]
  <2>1. ASSUME NEW x \in DOMAIN pending', NEW j \in 1..k,
               pending'[x] = [id |-> msgs[j].id, req |-> msgs[j].req]
        PROVE  pending'[x].id = msgs[j].id /\ pending'[x].req = batch[j]
    <3>1. msgs[j].req = batch[j]
      BY <1>7
    <3> QED BY <2>1, <3>1
  <2> QED BY <1>11, <2>1, Zenon
<1>13. (\A i \in DOMAIN pending, j \in 1..k : pending[i].id # msgs[j].id) =>
              /\ \A r : Held(pending, r) => Held(pending', r)
              /\ \A j \in 1..k : Held(pending', batch[j])
  <2> SUFFICES ASSUME \A i \in DOMAIN pending, j \in 1..k : pending[i].id # msgs[j].id
               PROVE  /\ \A r : Held(pending, r) => Held(pending', r)
                      /\ \A j \in 1..k : Held(pending', batch[j])
    OBVIOUS
  <2>1. \A i \in DOMAIN pending : \E x \in DOMAIN pending' : pending'[x] = pending[i]
    BY <1>11
  <2>2. ASSUME NEW j \in 1..k PROVE \E x \in DOMAIN pending' : pending'[x].req = batch[j]
    <3>1. PICK x \in DOMAIN pending' : pending'[x] = [id |-> msgs[j].id, req |-> msgs[j].req]
      BY <1>11
    <3>2. msgs[j].req = batch[j]
      BY <1>7
    <3>3. x \in DOMAIN pending' /\ pending'[x].req = msgs[j].req
      BY <3>1
    <3> QED BY <3>2, <3>3, Zenon
  <2>3. ASSUME NEW r, Held(pending, r) PROVE Held(pending', r)
    <3>1. PICK i \in DOMAIN pending : pending[i].req = r
      BY <2>3 DEF Held
    <3>2. PICK x \in DOMAIN pending' : pending'[x] = pending[i]
      BY <2>1
    <3>3. x \in DOMAIN pending' /\ pending'[x].req = r
      BY <3>1, <3>2
    <3> QED BY <3>3, Zenon DEF Held
  <2>4. \A j \in 1..k : Held(pending', batch[j])
    BY <2>2, Zenon DEF Held
  <2> QED BY <2>3, <2>4
<1>14. \A i \in 1..k : msgId'[batch[i]] = msgs[i].id
  <2> SUFFICES ASSUME NEW i \in 1..k PROVE msgId'[batch[i]] = msgs[i].id
    OBVIOUS
  <2> DEFINE c == CHOOSE x \in DOMAIN batch : batch[x] = batch[i]
  <2>1. c \in 1..k /\ batch[c] = batch[i]
    BY <1>2
  <2>2. c = i
    BY <1>10, <2>1
  <2> HIDE DEF c
  <2>3. batch[i] \in Range(batch) /\ batch[i] \in Requests
    BY <1>2, <1>6 DEF Range
  <2>4. msgId'[batch[i]] = p.msgs[c].id
    BY <1>4, <2>3 DEF c
  <2> QED BY <2>2, <2>4 DEF msgs
<1>15. \A r \in Requests : (\A i \in 1..k : r # batch[i]) => msgId'[r] = msgId[r]
  BY <1>2, <1>4 DEF Range
<1>16. msgId' \in [Requests -> Nat]
  <2>1. \A r \in Requests : msgId'[r] \in Nat
    <3> SUFFICES ASSUME NEW r \in Requests PROVE msgId'[r] \in Nat
      OBVIOUS
    <3>1. CASE \E i \in 1..k : r = batch[i]
      <4>1. PICK i \in 1..k : r = batch[i]
        BY <3>1
      <4>2. msgId'[batch[i]] = msgs[i].id /\ msgs[i].id \in Nat
        BY <1>7, <1>14
      <4> QED BY <4>1, <4>2
    <3>2. CASE \A i \in 1..k : r # batch[i]
      BY <3>2, <1>15
    <3> QED BY <3>1, <3>2
  <2>2. msgId' = [r \in Requests |-> msgId'[r]]
    BY <1>4
  <2> QED BY <2>1, <2>2
<1>17. contId' \in [Requests -> Nat]
  <2>1. p.id \in Nat
    BY <1>1, <1>3
  <2> QED BY <1>4, <2>1
<1>18. \A i \in 1..l - (a + k) : queue'[i] = queue[a + k + i] /\ a + k + i \in 1..l
  BY <1>0
<1>19. DOMAIN queue' = 1..l - (a + k)
  OBVIOUS
<1>20. Distinct(queue')
  <2> SUFFICES ASSUME NEW i \in 1..l - (a + k), NEW j \in 1..l - (a + k), queue'[i] = queue'[j]
               PROVE  i = j
    BY <1>19 DEF Distinct
  <2>1. a + k + i = a + k + j
    BY <1>0, <1>18 DEF Distinct
  <2> QED BY <2>1
<1>21. \A r : In(queue', r) => In(queue, r) /\ \A j \in 1..k : r # batch[j]
  <2> SUFFICES ASSUME NEW r, In(queue', r) PROVE In(queue, r) /\ \A j \in 1..k : r # batch[j]
    OBVIOUS
  <2>1. PICK i \in 1..l - (a + k) : queue'[i] = r
    BY <1>19 DEF In
  <2>2. queue[a + k + i] = r /\ a + k + i \in 1..l
    BY <1>18, <2>1
  <2>3. ASSUME NEW j \in 1..k, r = batch[j] PROVE FALSE
    <3>1. queue[a + j] = queue[a + k + i] /\ a + j \in DOMAIN queue /\ a + k + i \in DOMAIN queue
      BY <1>0, <1>5, <2>2, <2>3
    <3>2. a + k + i = a + j
      BY <1>0, <3>1, Zenon DEF Distinct
    <3> QED BY <3>2
  <2> QED BY <1>0, <2>2, <2>3 DEF In
<1>22. ASSUME NEW x \in DOMAIN pending'
       PROVE  pending'[x].id = msgId'[pending'[x].req] /\ ~In(queue', pending'[x].req)
  <2>1. CASE \E j \in 1..k : pending'[x].id = msgs[j].id /\ pending'[x].req = batch[j]
    BY <2>1, <1>14, <1>21
  <2>2. CASE \E i \in DOMAIN pending : pending'[x] = pending[i]
    <3>1. PICK i \in DOMAIN pending : pending'[x] = pending[i]
      BY <2>2
    <3>2. pending[i].id = msgId[pending[i].req] /\ ~In(queue, pending[i].req)
      BY DEF Tidy
    <3>3. pending[i].req \in Requests
      BY <1>0, EntryFields DEF Dictionary
    <3>4. \A j \in 1..k : pending[i].req # batch[j]
      BY <1>6, <3>2
    <3> QED BY <1>15, <1>21, <3>1, <3>2, <3>3, <3>4
  <2> QED BY <1>12, <2>1, <2>2
<1>23. Tidy(queue', pending', msgId')
  BY <1>11, <1>20, <1>22 DEF Tidy
<1> QED BY <1>4, <1>6, <1>7, <1>8, <1>12, <1>13, <1>16, <1>17, <1>23 DEF msgs, p, first, Posted

LEMMA TidyRequests ==
  ASSUME NEW q, NEW d, NEW ids, Tidy(q, d, ids)
  PROVE  \A r : In(q, r) \/ Held(d, r) => r \in Requests
<1>1. \A i \in DOMAIN q : q[i] \in Requests
  BY DEF Tidy
<1>2. \A i \in DOMAIN d : d[i].req \in Requests
  BY EntryFields DEF Tidy, Dictionary
<1> QED BY <1>1, <1>2 DEF In, Held

LEMMA TidySuffix ==
  ASSUME NEW q, NEW d, NEW ids, Tidy(q, d, ids), NEW b \in 0..Len(q),
         NEW s \in Seq(Requests), Len(s) = Len(q) - b,
         \A i \in 1..Len(q) - b : s[i] = q[b + i]
  PROVE  Tidy(s, d, ids) /\ \A r : In(s, r) => In(q, r)
<1>1. Len(q) \in Nat /\ DOMAIN q = 1..Len(q) /\ DOMAIN s = 1..Len(q) - b /\ b \in Nat
  BY DEF Tidy
<1>2. \A i \in 1..Len(q) - b : s[i] = q[b + i] /\ b + i \in 1..Len(q)
  BY <1>1
<1>3. Distinct(s)
  <2> SUFFICES ASSUME NEW i \in 1..Len(q) - b, NEW j \in 1..Len(q) - b, s[i] = s[j]
               PROVE  i = j
    BY <1>1 DEF Distinct
  <2>0. q[b + i] = q[b + j] /\ b + i \in DOMAIN q /\ b + j \in DOMAIN q
    BY <1>1, <1>2
  <2>1. b + i = b + j
    BY <2>0 DEF Tidy, Distinct
  <2> QED BY <1>1, <2>1
<1>4. \A r : In(s, r) => In(q, r)
  BY <1>1, <1>2 DEF In
<1> QED BY <1>3, <1>4 DEF Tidy

LEMMA CarriedOn ==
  ASSUME NEW u, NEW f, NEW g, Carried(u, f), \A r \in Requests : f[r] # "new" => g[r] # "new"
  PROVE  Carried(u, g)
BY DEF Carried

(* What the callers of send() and the server may rely on.                  *)
Lossless(f, q, d) == \A r \in Requests : f[r] = "waiting" => In(q, r) \/ Held(d, r)

Executed(s, id) == \E x \in s : x.id = id

(* Only what was executed has a result, a pending request with an id that  *)
(* was executed was executed, and an id on its way to the server means the *)
(* request that is pending with it. *)
Earned(w, s) == \A m \in w : m.type = "result" => Executed(s, m.ref)
Sure(d, s, e) == \A i \in DOMAIN d : Executed(s, d[i].id) => d[i].req \in e
Same(d, u) ==
  \A i \in DOMAIN d : \A x \in DOMAIN u : \A j \in DOMAIN u[x].msgs :
    u[x].msgs[j].id = d[i].id => u[x].msgs[j].req = d[i].req

CallInv ==
  /\ Lossless(fut, queue, pending) /\ Earned(down, seen)
  /\ Sure(pending, seen, ran) /\ Same(pending, up)

LEMMA SendRequests ==
  ASSUME OrderInv, Naturals, Requested, Send
  PROVE  /\ Requested'
         /\ \A r \in Requests : fut'[r] = fut[r] \/ (fut[r] = "waiting" /\ fut'[r] = "error")
         /\ ~Coarse /\ CallInv => CallInv'
<1>0. /\ queue \in Seq(Requests) /\ fut \in [Requests -> Outcomes] /\ Tidy(queue, pending, msgId)
      /\ last \in Nat /\ Len(queue) \in Nat /\ DOMAIN queue = 1..Len(queue)
  BY DEF Requested, Tidy, Naturals
<1>1. PICK a \in 0..Len(queue) : \E b \in a..Len(queue) :
           /\ queue' \in Seq(Requests) /\ Len(queue') = Len(queue) - b
           /\ \A i \in 1..Len(queue) - b : queue'[i] = queue[b + i]
           /\ fut' \in [Requests -> Outcomes]
           /\ \A r \in Requests : fut'[r] = fut[r] \/ (fut[r] = "waiting" /\ fut'[r] = "error")
           /\ \A i \in 1..a : fut'[queue[i]] # "waiting"
           /\ \/ b = a /\ UNCHANGED <<last, sequence, msgId, contId, pending, up>>
              \/ b > a /\ \E f \in Instants(b - a) : Mail([i \in 1..b - a |-> queue[a + i]], Reading(f))
  BY <1>0, Packs
<1>2. PICK b \in a..Len(queue) :
           /\ queue' \in Seq(Requests) /\ Len(queue') = Len(queue) - b
           /\ \A i \in 1..Len(queue) - b : queue'[i] = queue[b + i]
           /\ fut' \in [Requests -> Outcomes]
           /\ \A r \in Requests : fut'[r] = fut[r] \/ (fut[r] = "waiting" /\ fut'[r] = "error")
           /\ \A i \in 1..a : fut'[queue[i]] # "waiting"
           /\ \/ b = a /\ UNCHANGED <<last, sequence, msgId, contId, pending, up>>
              \/ b > a /\ \E f \in Instants(b - a) : Mail([i \in 1..b - a |-> queue[a + i]], Reading(f))
  BY <1>1
<1>3. ran' = ran /\ seen' = seen /\ down' = down
  BY DEF Send, server, ghosts
<1>4. \A r \in Requests : fut[r] # "new" => fut'[r] # "new"
  BY <1>2
<1>5. b \in 0..Len(queue) /\ Tidy(queue', pending, msgId) /\ \A r : In(queue', r) => In(queue, r)
  <2>1. b \in 0..Len(queue)
    BY <1>0
  <2> QED BY <1>0, <1>2, <2>1, TidySuffix
<1>6. Carried(up, fut')
  BY <1>4, CarriedOn DEF Requested
<1>7. ASSUME NEW r \in Requests, fut'[r] = "waiting", In(queue, r)
      PROVE  In(queue', r) \/ \E i \in 1..b - a : queue[a + i] = r
  <2>1. PICK i \in 1..Len(queue) : queue[i] = r
    BY <1>0, <1>7 DEF In
  <2>2. i > a
    BY <1>0, <1>2, <1>7, <2>1
  <2>3. CASE i > b
    <3>1. i - b \in 1..Len(queue) - b /\ b + (i - b) = i
      BY <1>0, <2>3
    <3>2. DOMAIN queue' = 1..Len(queue) - b
      BY <1>0, <1>2
    <3>3. queue'[i - b] = r
      BY <1>2, <2>1, <3>1
    <3> QED BY <3>1, <3>2, <3>3 DEF In
  <2>4. CASE i <= b
    <3>1. i - a \in 1..b - a /\ a + (i - a) = i
      BY <1>0, <2>2, <2>4
    <3>2. queue[a + (i - a)] = r
      BY <2>1, <3>1
    <3> QED BY <3>1, <3>2
  <2> QED BY <1>0, <2>3, <2>4
<1>8. CASE b = a /\ UNCHANGED <<last, sequence, msgId, contId, pending, up>>
  <2>1. Requested'
    <3>1. \A r : In(queue', r) \/ Held(pending, r) => fut'[r] # "new"
      BY <1>0, <1>4, <1>5, TidyRequests DEF Requested
    <3> QED BY <1>2, <1>3, <1>5, <1>6, <1>8, <3>1 DEF Requested
  <2>2. CallInv => CallInv'
    <3> SUFFICES ASSUME CallInv PROVE CallInv'
      OBVIOUS
    <3>1. 1..b - a = {}
      BY <1>0, <1>8
    <3>2. Lossless(fut', queue', pending)
      BY <1>2, <1>7, <3>1 DEF CallInv, Lossless
    <3> QED BY <1>3, <1>8, <3>2 DEF CallInv
  <2> QED BY <1>2, <2>1, <2>2
<1>9. CASE b > a /\ \E f \in Instants(b - a) : Mail([i \in 1..b - a |-> queue[a + i]], Reading(f))
  <2> DEFINE k == b - a
             batch == [i \in 1..k |-> queue[a + i]]
  <2>1. PICK f \in Instants(k) : Mail(batch, Reading(f))
    BY <1>9
  <2> DEFINE now == Reading(f)
             p == Packet(batch, now)
             first == NewId(last, now)
  <2>2. k \in Nat \ {0} /\ a \in Nat /\ a + k = b /\ a + k <= Len(queue)
    BY <1>0, <1>9
  <2>3. now \in Int
    BY ClockNumbers DEF OrderInv
  <2>4. batch = [i \in 1..k |-> queue[a + i]] /\ \A i \in 1..k : batch[i] = queue[a + i]
    OBVIOUS
  <2>5. ~Coarse => \A i \in 0..k : first + i \notin InUse
    <3>1. ~Coarse => Free(f, k)
      BY DEF Instants
    <3> QED BY <3>1 DEF Free
  <2> HIDE DEF k, batch
  <2>6. /\ msgId' \in [Requests -> Nat] /\ contId' \in [Requests -> Nat]
        /\ Tidy(queue', pending', msgId')
        /\ up' = Append(up, p) /\ DOMAIN p.msgs = 1..k
        /\ \A i \in 1..k : /\ p.msgs[i].id = first + (i - 1) /\ p.msgs[i].id \in Nat
                           /\ p.msgs[i].req = batch[i]
                           /\ batch[i] \in Requests /\ In(queue, batch[i])
        /\ \A x \in DOMAIN pending' :
              \/ \E i \in DOMAIN pending : /\ pending'[x] = pending[i]
                                           /\ \A j \in 1..k : p.msgs[j].id # pending[i].id
              \/ \E j \in 1..k : /\ pending'[x].id = p.msgs[j].id
                                 /\ pending'[x].req = batch[j]
        /\ (\A i \in DOMAIN pending, j \in 1..k : pending[i].id # p.msgs[j].id) =>
              /\ \A r : Held(pending, r) => Held(pending', r)
              /\ \A j \in 1..k : Held(pending', batch[j])
    <3>1. /\ queue' \in Seq(Requests) /\ Len(queue') = Len(queue) - (a + k)
          /\ \A i \in 1..Len(queue) - (a + k) : queue'[i] = queue[a + k + i]
      BY <1>2, <2>2
    <3>2. msgId \in [Requests -> Nat] /\ contId \in [Requests -> Nat]
      BY DEF Requested
    <3>3. batch = [i \in 1..k |-> queue[a + i]]
      BY <2>4
    <3>4. Mail(batch, now)
      BY <2>1
    <3> HIDE DEF now
    <3>5. Posted(batch, now, k)
      BY <1>0, <2>2, <2>3, <3>1, <3>2, <3>3, <3>4, Mailed
    <3> QED BY <3>5 DEF Posted
  <2> HIDE DEF now, p, first
  <2>7. /\ DOMAIN up' = 1..Len(up) + 1 /\ DOMAIN up = 1..Len(up) /\ Len(up) \in Nat
        /\ \A i \in DOMAIN up : up'[i] = up[i] /\ i \in DOMAIN up'
        /\ up'[Len(up) + 1] = p
        /\ \A x \in DOMAIN up' : x \in DOMAIN up \/ x = Len(up) + 1
    <3>1. PICK P : up \in Seq(P)
      BY DEF OrderInv, Shape
    <3>2. up \in Seq(P \cup {p})
      BY <3>1
    <3> QED BY <2>6, <3>2
  <2>8. \A r : In(queue', r) \/ Held(pending', r) => In(queue, r) \/ Held(pending, r)
    <3> SUFFICES ASSUME NEW x \in DOMAIN pending'
                 PROVE  In(queue, pending'[x].req) \/ Held(pending, pending'[x].req)
      BY <1>5 DEF Held
    <3> QED BY <2>6 DEF Held
  <2>9. Carried(up', fut')
    <3>1. ASSUME NEW x \in DOMAIN up', NEW j \in DOMAIN up'[x].msgs
          PROVE  /\ up'[x].msgs[j].id \in Nat /\ up'[x].msgs[j].req \in Requests
                 /\ fut'[up'[x].msgs[j].req] # "new"
      <4>1. CASE x \in DOMAIN up
        <5>1. up'[x] = up[x]
          BY <4>1, <2>7
        <5> QED BY <4>1, <5>1, <1>6 DEF Carried
      <4>2. CASE x = Len(up) + 1
        <5>1. j \in 1..k /\ up'[x] = p
          BY <4>2, <2>6, <2>7
        <5>2. fut[batch[j]] # "new" /\ batch[j] \in Requests
          BY <5>1, <2>6 DEF Requested
        <5>3. fut'[batch[j]] # "new"
          BY <5>2, <1>4
        <5> QED BY <5>1, <5>2, <5>3, <2>6
      <4> QED BY <4>1, <4>2, <2>7
    <3> QED BY <3>1 DEF Carried
  <2>10. Requested'
    <3>1. \A r : In(queue', r) \/ Held(pending', r) => fut'[r] # "new"
      BY <1>0, <1>4, <2>8, TidyRequests DEF Requested
    <3>2. ran' \subseteq Requests
      BY <1>3 DEF Requested
    <3> QED BY <1>2, <2>6, <2>9, <3>1, <3>2 DEF Requested
  <2>11. ASSUME ~Coarse, CallInv PROVE CallInv'
    <3>1. \A j \in 1..k : p.msgs[j].id \notin InUse
      <4>1. \A j \in 1..k : j - 1 \in 0..k
        BY <2>2
      <4> QED BY <4>1, <2>5, <2>6, <2>11
    <3>2. \A j \in 1..k : \A i \in DOMAIN pending : pending[i].id # p.msgs[j].id
      BY <3>1 DEF InUse
    <3>3. \A j \in 1..k : ~Executed(seen, p.msgs[j].id)
      BY <3>1 DEF InUse, Executed
    <3>4. \A j \in 1..k : \A x \in DOMAIN up : \A i \in DOMAIN up[x].msgs : up[x].msgs[i].id # p.msgs[j].id
      <4>1. \A x \in DOMAIN up : \A i \in DOMAIN up[x].msgs : up[x].msgs[i].id \in InUse
        BY DEF InUse, Range
      <4> QED BY <3>1, <4>1
    <3>5. \A i, j \in 1..k : p.msgs[i].id = p.msgs[j].id => p.msgs[i].req = p.msgs[j].req
      <4> SUFFICES ASSUME NEW i \in 1..k, NEW j \in 1..k, p.msgs[i].id = p.msgs[j].id PROVE i = j
        OBVIOUS
      <4>1. first + (i - 1) = first + (j - 1)
        BY <2>6
      <4>2. first \in Nat
        BY <1>0, <2>3, NaturalIds DEF first
      <4> QED BY <4>1, <4>2
    <3>6. Lossless(fut', queue', pending')
      <4> SUFFICES ASSUME NEW r \in Requests, fut'[r] = "waiting"
                   PROVE  In(queue', r) \/ Held(pending', r)
        BY DEF Lossless
      <4>1. In(queue, r) \/ Held(pending, r)
        BY <1>2, <2>11 DEF CallInv, Lossless
      <4>2. CASE Held(pending, r)
        BY <4>2, <2>6, <3>2
      <4>3. CASE In(queue, r)
        <5>1. CASE In(queue', r)
          BY <5>1
        <5>2. CASE \E i \in 1..k : queue[a + i] = r
          <6>1. PICK i \in 1..k : queue[a + i] = r
            BY <5>2
          <6>2. batch[i] = r
            BY <6>1, <2>4
          <6>3. Held(pending', batch[i])
            BY <2>6, <3>2
          <6> QED BY <6>2, <6>3
        <5> QED BY <4>3, <5>1, <5>2, <1>7 DEF k
      <4> QED BY <4>1, <4>2, <4>3
    <3>7. Sure(pending', seen, ran)
      <4> SUFFICES ASSUME NEW x \in DOMAIN pending', Executed(seen, pending'[x].id)
                   PROVE  pending'[x].req \in ran
        BY DEF Sure
      <4>1. CASE \E i \in DOMAIN pending : pending'[x] = pending[i]
        BY <4>1, <2>11 DEF CallInv, Sure
      <4>2. CASE \E j \in 1..k : pending'[x].id = p.msgs[j].id
        BY <4>2, <3>3
      <4> QED BY <4>1, <4>2, <2>6
    <3>8. Same(pending', up')
      <4> SUFFICES ASSUME NEW x \in DOMAIN pending', NEW y \in DOMAIN up', NEW i \in DOMAIN up'[y].msgs,
                          up'[y].msgs[i].id = pending'[x].id
                   PROVE  up'[y].msgs[i].req = pending'[x].req
        BY DEF Same
      <4>1. CASE \E j \in DOMAIN pending : pending'[x] = pending[j]
        <5>1. PICK j \in DOMAIN pending : pending'[x] = pending[j]
          BY <4>1
        <5>2. CASE y \in DOMAIN up
          <6>1. up'[y] = up[y]
            BY <5>2, <2>7
          <6> QED BY <5>1, <5>2, <6>1, <2>11 DEF CallInv, Same
        <5>3. CASE y = Len(up) + 1
          <6>1. up'[y] = p /\ i \in 1..k
            BY <5>3, <2>6, <2>7
          <6>2. p.msgs[i].id = pending[j].id
            BY <5>1, <6>1
          <6> QED BY <6>1, <6>2, <3>2
        <5> QED BY <5>2, <5>3, <2>7
      <4>2. CASE \E j \in 1..k : pending'[x].id = p.msgs[j].id /\ pending'[x].req = batch[j]
        <5>1. PICK j \in 1..k : pending'[x].id = p.msgs[j].id /\ pending'[x].req = batch[j]
          BY <4>2
        <5>2. CASE y \in DOMAIN up
          <6>1. up'[y] = up[y]
            BY <5>2, <2>7
          <6> QED BY <5>1, <5>2, <6>1, <3>4
        <5>3. CASE y = Len(up) + 1
          <6>1. up'[y] = p /\ i \in 1..k
            BY <5>3, <2>6, <2>7
          <6>2. p.msgs[i].req = p.msgs[j].req /\ p.msgs[j].req = batch[j]
            BY <5>1, <6>1, <2>6, <3>5
          <6> QED BY <5>1, <6>1, <6>2
        <5> QED BY <5>2, <5>3, <2>7
      <4> QED BY <4>1, <4>2, <2>6
    <3> QED BY <1>3, <2>11, <3>6, <3>7, <3>8 DEF CallInv
  <2> QED BY <1>2, <2>10, <2>11
<1> QED BY <1>2, <1>8, <1>9

LEMMA ReceiveRequests ==
  ASSUME OrderInv, Requested, NEW m \in down, Receive(m)
  PROVE  /\ Requested'
         /\ CallInv => CallInv'
         /\ \A r \in Requests :
              \/ fut'[r] = fut[r]
              \/ /\ m.type = "result" /\ fut[r] = "waiting" /\ fut'[r] = "answered"
                 /\ \E i \in DOMAIN pending : pending[i].id = m.ref /\ pending[i].req = r
<1>1. UNCHANGED <<msgId, contId, up, seen, ran>>
  BY DEF Receive, server, packer
<1>2. ASSUME NEW s, Earned(down, s) PROVE Earned(down', s)
  <2>1. [m EXCEPT !.sent = time].type = m.type /\ [m EXCEPT !.sent = time].ref = m.ref
    BY DEF OrderInv, Numbers, IsMessage
  <2>2. \A n \in down' : n \in down \/ n = [m EXCEPT !.sent = time]
    BY DEF Receive, Delivered
  <2> QED BY <1>2, <2>1, <2>2 DEF Earned
<1>3. CASE Ignored(m)
  <2>1. UNCHANGED <<queue, pending, fut>>
    BY <1>3 DEF Receive, packer
  <2> QED BY <1>1, <1>2, <2>1 DEF Requested, CallInv
<1>4. CASE ~Ignored(m)
  <2>1. HandleResult(m) \/ HandleNote(m) \/ HandleSalt(m) \/ HandleTime(m) \/ HandleSeq(m)
    BY <1>4 DEF Receive
  <2>2. /\ Tidy(queue', pending', msgId) /\ Within(pending', pending)
        /\ fut' \in [Requests -> Outcomes]
        /\ \A r : In(queue', r) \/ Held(pending', r) => In(queue, r) \/ Held(pending, r)
        /\ \A r : In(queue, r) \/ Held(pending, r) =>
              \/ In(queue', r) \/ Held(pending', r)
              \/ fut'[r] # "waiting"
        /\ \A r \in Requests :
              \/ fut'[r] = fut[r]
              \/ /\ m.type = "result" /\ fut[r] = "waiting" /\ fut'[r] = "answered"
                 /\ \E i \in DOMAIN pending : pending[i].id = m.ref /\ pending[i].req = r
    BY <2>1, Handled
  <2>3. \A r \in Requests : fut[r] # "new" => fut'[r] # "new"
    BY <2>2
  <2>4. Carried(up', fut')
    BY <1>1, <2>3, CarriedOn DEF Requested
  <2>5. \A r : In(queue', r) \/ Held(pending', r) => fut'[r] # "new"
    <3> SUFFICES ASSUME NEW r, In(queue', r) \/ Held(pending', r) PROVE fut'[r] # "new"
      OBVIOUS
    <3>1. fut[r] # "new" /\ r \in Requests
      BY <2>2, TidyRequests DEF Requested
    <3> QED BY <2>3, <3>1
  <2>6. Requested'
    BY <1>1, <2>2, <2>4, <2>5 DEF Requested
  <2>7. ASSUME CallInv PROVE CallInv'
    <3>1. \A r \in Requests : fut'[r] = "waiting" => fut[r] = "waiting"
      BY <2>2
    <3>2. Lossless(fut', queue', pending')
      BY <2>2, <2>7, <3>1 DEF CallInv, Lossless
    <3>3. Sure(pending', seen, ran)
      BY <2>2, <2>7 DEF CallInv, Sure, Within
    <3>4. Same(pending', up)
      BY <2>2, <2>7 DEF CallInv, Same, Within
    <3> QED BY <1>1, <1>2, <2>7, <3>2, <3>3, <3>4 DEF CallInv
  <2> QED BY <2>2, <2>6, <2>7
<1> QED BY <1>3, <1>4

LEMMA ServerRequests ==
  ASSUME OrderInv, Requested,
         Answering \/ RefuseSeq("seqlow") \/ RefuseSeq("seqhigh")
  PROVE  Requested' /\ (CallInv => CallInv')
<1>1. UNCHANGED <<msgId, contId, fut, queue, pending>> /\ up # <<>> /\ up' = Tail(up)
  BY DEF Answering, Serve, Refuse, RefuseSeq, packer
<1>2. /\ \A x \in DOMAIN up' : up'[x] = up[x + 1] /\ x + 1 \in DOMAIN up
      /\ 1 \in DOMAIN up /\ Head(up) = up[1]
  <2>1. PICK P : up \in Seq(P)
    BY DEF OrderInv, Shape
  <2> QED BY <1>1, <2>1
<1>3. Carried(up', fut')
  BY <1>1, <1>2 DEF Requested, Carried
<1>4. CallInv => Same(pending', up') /\ Lossless(fut', queue', pending')
  BY <1>1, <1>2 DEF CallInv, Same
<1>5. CASE Serve
  <2> DEFINE p == Head(up)
             fresh == {i \in DOMAIN p.msgs : \A s \in seen : s.id # p.msgs[i].id}
  <2>1. /\ seen' = seen \cup {Sent(p, i) : i \in fresh}
        /\ ran' = ran \cup {p.msgs[i].req : i \in fresh}
        /\ down' = down \cup {Reply("result", p.msgs[i].id, i - 1) : i \in fresh}
    BY <1>5 DEF Serve
  <2>2. \A i \in fresh : i \in DOMAIN up[1].msgs /\ p = up[1]
    BY <1>2
  <2>3. \A i \in fresh : Sent(p, i).id = p.msgs[i].id
    BY DEF Sent
  <2>4. \A i \in fresh : \A n \in {i - 1} :
          Reply("result", p.msgs[i].id, n).type = "result" /\ Reply("result", p.msgs[i].id, n).ref = p.msgs[i].id
    BY DEF Reply
  <2> HIDE DEF p, fresh
  <2>5. ran' \subseteq Requests
    BY <1>2, <2>1, <2>2 DEF Requested, Carried
  <2>6. \A id : Executed(seen', id) <=> Executed(seen, id) \/ \E i \in fresh : p.msgs[i].id = id
    BY <2>1, <2>3 DEF Executed
  <2>7. CallInv => Earned(down', seen')
    <3> SUFFICES ASSUME CallInv, NEW m \in down', m.type = "result" PROVE Executed(seen', m.ref)
      BY DEF Earned
    <3>1. CASE m \in down
      BY <3>1, <2>6 DEF CallInv, Earned
    <3>2. CASE \E i \in fresh : m = Reply("result", p.msgs[i].id, i - 1)
      BY <3>2, <2>4, <2>6
    <3> QED BY <2>1, <3>1, <3>2
  <2>8. CallInv => Sure(pending', seen', ran')
    <3> SUFFICES ASSUME CallInv, NEW i \in DOMAIN pending, Executed(seen', pending[i].id)
                 PROVE  pending[i].req \in ran'
      BY <1>1 DEF Sure
    <3>1. CASE Executed(seen, pending[i].id)
      BY <2>1, <3>1 DEF CallInv, Sure
    <3>2. CASE \E j \in fresh : p.msgs[j].id = pending[i].id
      <4>1. PICK j \in fresh : p.msgs[j].id = pending[i].id
        BY <3>2
      <4>2. p.msgs[j].req = pending[i].req
        BY <1>2, <2>2, <4>1 DEF CallInv, Same
      <4> QED BY <2>1, <4>2
    <3> QED BY <2>6, <3>1, <3>2
  <2> QED BY <1>1, <1>3, <1>4, <2>5, <2>7, <2>8 DEF Requested, CallInv
<1>6. CASE (\E t \in {"salt", "low", "high"} : Refuse(t)) \/ RefuseSeq("seqlow") \/ RefuseSeq("seqhigh")
  <2>1. seen' = seen /\ ran' = ran
    BY <1>6 DEF Refuse, RefuseSeq, ghosts
  <2>2. \A m \in down' : m \in down \/ m.type # "result"
    BY <1>6 DEF Refuse, RefuseSeq, Reply
  <2>3. CallInv => Earned(down', seen')
    BY <2>1, <2>2 DEF CallInv, Earned
  <2> QED BY <1>1, <1>3, <1>4, <2>1, <2>3 DEF Requested, CallInv
<1> QED BY <1>5, <1>6 DEF Answering

LEMMA ResetRequests ==
  ASSUME Requested, Reset
  PROVE  Requested' /\ (CallInv => CallInv') /\ fut' = fut
<1>1. /\ UNCHANGED <<msgId, contId, fut, ran>> /\ queue' = queue \o Entries(pending)
      /\ pending' = <<>> /\ up' = <<>> /\ down' = {} /\ seen' = {}
  BY DEF Reset
<1>2. Dictionary(pending) /\ Within(pending, pending)
  BY DEF Requested, Tidy, Within
<1>3. Dictionary(<<>>) /\ Within(<<>>, pending) /\ DOMAIN <<>> = {}
  BY DEF Dictionary, Within
<1>4. /\ Tidy(queue', pending', msgId)
      /\ \A r : In(queue', r) <=> In(queue, r) \/ Held(pending, r)
  <2>1. Tidy(queue, pending, msgId) /\ \A i \in DOMAIN pending, j \in DOMAIN <<>> : pending[i] # <<>>[j]
    BY <1>3 DEF Requested
  <2> QED BY <1>1, <1>2, <1>3, <2>1, TidyRequeued
<1>5. ~ \E r : Held(pending', r)
  BY <1>1 DEF Held
<1>6. Requested'
  BY <1>1, <1>4, <1>5 DEF Requested, Carried
<1>7. CallInv => CallInv'
  BY <1>1, <1>4 DEF CallInv, Lossless, Earned, Sure, Same
<1> QED BY <1>1, <1>6, <1>7

LEMMA OtherRequests ==
  ASSUME Numbers, Requested,
         \/ \E r \in Requests : Submit(r) \/ Cancel(r)
         \/ Telling \/ Rotate \/ Tick \/ Jump \/ UNCHANGED vars
  PROVE  Requested' /\ (CallInv => CallInv')
<1>1. UNCHANGED <<msgId, contId, pending, up, seen, ran>>
  <2>1. CASE Telling
    BY <2>1, Told
  <2> QED BY <2>1 DEF Submit, Cancel, Rotate, Tick, Jump, vars, packer, server, ghosts
<1>2. ASSUME NEW r \in Requests, Submit(r)
      PROVE  Requested' /\ (CallInv => CallInv')
  <2>1. /\ fut[r] = "new" /\ fut' = [fut EXCEPT ![r] = "waiting"] /\ queue' = Append(queue, r)
        /\ down' = down
    BY <1>2 DEF Submit
  <2>2. ~In(queue, r) /\ ~Held(pending, r)
    BY <2>1 DEF Requested
  <2>3. Tidy(queue', pending, msgId) /\ \A s : In(queue', s) <=> In(queue, s) \/ s = r
    BY <2>1, <2>2, TidyAppended DEF Requested
  <2>4. fut' \in [Requests -> Outcomes] /\ fut'[r] = "waiting" /\ \A s \in Requests \ {r} : fut'[s] = fut[s]
    BY <2>1 DEF Requested, Outcomes
  <2>5. \A s \in Requests : fut[s] # "new" => fut'[s] # "new"
    BY <2>4
  <2>6. Carried(up, fut')
    BY <2>5, CarriedOn DEF Requested
  <2>7. ASSUME NEW s, In(queue', s) \/ Held(pending, s) PROVE fut'[s] # "new"
    <3>1. s \in Requests
      BY <2>3, <2>7, TidyRequests
    <3> QED BY <2>3, <2>4, <2>5, <2>7, <3>1 DEF Requested
  <2>8. CallInv => Lossless(fut', queue', pending)
    BY <2>3, <2>4 DEF CallInv, Lossless
  <2> QED BY <1>1, <2>1, <2>3, <2>4, <2>6, <2>7, <2>8 DEF Requested, CallInv
<1>3. ASSUME NEW r \in Requests, Cancel(r)
      PROVE  Requested' /\ (CallInv => CallInv')
  <2>1. /\ fut' = [fut EXCEPT ![r] = "cancelled"] /\ queue' = queue /\ down' = down
    BY <1>3 DEF Cancel
  <2>2. fut' \in [Requests -> Outcomes] /\ \A s \in Requests : fut'[s] = fut[s] \/ fut'[s] = "cancelled"
    BY <2>1 DEF Requested, Outcomes
  <2>3. \A s \in Requests : fut[s] # "new" => fut'[s] # "new"
    BY <2>2
  <2>4. Carried(up, fut')
    BY <2>3, CarriedOn DEF Requested
  <2>5. \A s : In(queue, s) \/ Held(pending, s) => fut'[s] # "new"
    BY <2>3, TidyRequests DEF Requested
  <2>6. CallInv => Lossless(fut', queue, pending)
    BY <2>2 DEF CallInv, Lossless
  <2> QED BY <1>1, <2>1, <2>2, <2>4, <2>5, <2>6 DEF Requested, CallInv
<1>4. CASE Telling
  <2>1. UNCHANGED <<fut, queue>>
    BY <1>4, Told
  <2>2. \A x \in down' : \/ x \in down
                       \/ x.type # "result"
                       \/ \E m \in down : x.type = m.type /\ x.ref = m.ref
    BY <1>4, Told DEF Reply, Boxed
  <2>3. CallInv => Earned(down', seen)
    BY <2>2 DEF CallInv, Earned
  <2> QED BY <1>1, <2>1, <2>3 DEF Requested, CallInv
<1>5. CASE Rotate \/ Tick \/ Jump \/ UNCHANGED vars
  <2>1. UNCHANGED <<fut, queue, down>>
    BY <1>5 DEF Rotate, Tick, Jump, vars, packer
  <2> QED BY <1>1, <2>1 DEF Requested, CallInv
<1> QED BY <1>2, <1>3, <1>4, <1>5

LEMMA RequestedStep == OrderInv /\ TypeInv /\ [Next]_vars => Requested'
<1> SUFFICES ASSUME OrderInv, TypeInv, [Next]_vars PROVE Requested'
  OBVIOUS
<1>0. Requested /\ Naturals
  BY DEF TypeInv
<1>1. CASE Send
  BY <1>0, <1>1, SendRequests
<1>2. CASE Answering \/ RefuseSeq("seqlow") \/ RefuseSeq("seqhigh")
  BY <1>0, <1>2, ServerRequests
<1>3. CASE \/ \E r \in Requests : Submit(r) \/ Cancel(r)
           \/ Telling \/ Rotate \/ Tick \/ Jump \/ UNCHANGED vars
  BY <1>0, <1>3, OtherRequests DEF OrderInv
<1>4. CASE Receiving
  BY <1>0, <1>4, ReceiveRequests DEF Receiving
<1>5. CASE Reconnect \/ Revive
  BY <1>0, <1>5, ResetRequests DEF Reconnect, Revive
<1> QED BY <1>1, <1>2, <1>3, <1>4, <1>5 DEF Next, Telling

LEMMA InitTypes == Init => TypeInv
<1> SUFFICES ASSUME Init PROVE TypeInv
  OBVIOUS
<1>1. Ground
  <2>1. count = [b \in DOMAIN Bound |-> 0] /\ "tick" \in DOMAIN Bound
    BY DEF Init, Bound
  <2>2. count \in [DOMAIN Bound -> Nat] /\ count["tick"] = 0
    BY <2>1
  <2>3. big \subseteq Requests /\ skew \in Skews /\ loop \in {"on", "dead"}
    BY DEF Init, Skews
  <2> QED BY <2>2, <2>3, StateAssumption DEF Init, Ground, StateAssumption
<1>2. Naturals
  BY DEF Init, Naturals
<1>3. Tidy(queue, pending, msgId)
  BY DEF Init, Tidy, Distinct, Dictionary, In
<1>4. Requested
  BY <1>3 DEF Init, Requested, Carried, In, Held, Outcomes
<1>5. Salts
  BY DEF Init, Salts
<1> QED BY <1>1, <1>2, <1>4, <1>5 DEF TypeInv

THEOREM TypeInvariant == Spec => []TypeInv
<1>1. OrderInv /\ TypeInv /\ [Next]_vars => TypeInv'
  BY GroundStep, NaturalStep, SaltsStep, RequestedStep DEF TypeInv
<1> QED BY <1>1, InitTypes, OrderInvariant, PTL DEF Spec

THEOREM LogInvariant == Spec => []LogInv
<1> QED BY InitLog, LogStep, OrderInvariant, PTL DEF Spec

(* Every variable keeps its type, the ids that are remembered stay within  *)
(* their bound, and a pending request is known by the id it was last       *)
(* given: TypeOK, whatever the clock reads. *)
THEOREM Typed == Spec => []TypeOK
<1>1. OrderInv /\ LogInv /\ TypeInv => TypeOK
  <2> SUFFICES ASSUME OrderInv, LogInv, TypeInv PROVE TypeOK
    OBVIOUS
  <2>1. time \in Start..MaxTime
    <3>1. count["tick"] \in Nat
      BY DEF TypeInv, Ground, Bound
    <3> QED BY <3>1, StateAssumption DEF TypeInv, Ground, StateAssumption
  <2>2. Len(recent) <= MaxRecent
    BY DEF LogInv, Remembered
  <2>3. {offset, sequence} \subseteq Int
    BY DEF OrderInv, Numbers
  <2>4. queue \in Seq(Requests) /\ \A i \in DOMAIN pending : pending[i].id = msgId[pending[i].req]
    BY DEF TypeInv, Requested, Tidy
  <2> QED BY <2>1, <2>2, <2>3, <2>4 DEF TypeOK, TypeInv, Ground, Naturals, Salts, Requested, Outcomes
<1> QED BY <1>1, OrderInvariant, LogInvariant, TypeInvariant, PTL

-----------------------------------------------------------------------------
(* What callers are promised, unless the clock shows an id again           *)

LEMMA CallStep == OrderInv /\ TypeInv /\ CallInv /\ [Next]_vars /\ ~Coarse => CallInv'
<1> SUFFICES ASSUME OrderInv, TypeInv, CallInv, [Next]_vars, ~Coarse PROVE CallInv'
  OBVIOUS
<1>0. Requested /\ Naturals
  BY DEF TypeInv
<1>1. CASE Send
  BY <1>0, <1>1, SendRequests
<1>2. CASE Answering \/ RefuseSeq("seqlow") \/ RefuseSeq("seqhigh")
  BY <1>0, <1>2, ServerRequests
<1>3. CASE \/ \E r \in Requests : Submit(r) \/ Cancel(r)
           \/ Telling \/ Rotate \/ Tick \/ Jump \/ UNCHANGED vars
  BY <1>0, <1>3, OtherRequests DEF OrderInv
<1>4. CASE Receiving
  BY <1>0, <1>4, ReceiveRequests DEF Receiving
<1>5. CASE Reconnect \/ Revive
  BY <1>0, <1>5, ResetRequests DEF Reconnect, Revive
<1> QED BY <1>1, <1>2, <1>3, <1>4, <1>5 DEF Next, Telling

THEOREM CallInvariant ==
  ASSUME ~Coarse
  PROVE  Spec => []CallInv
<1>1. Init => CallInv
  BY DEF Init, CallInv, Lossless, Earned, Sure, Same
<1>2. OrderInv /\ TypeInv /\ CallInv /\ [Next]_vars => CallInv'
  BY CallStep
<1> QED BY <1>1, <1>2, OrderInvariant, TypeInvariant, PTL DEF Spec

(* A request somebody waits for is queued or pending: no correction of the *)
(* clock, refusal, reconnection or answer to another loses it, unless the  *)
(* clock shows an id that is in use again (Coarse). *)
THEOREM AlwaysThere ==
  ASSUME ~Coarse
  PROVE  Spec => []NoneLost
<1>1. CallInv => NoneLost
  <2>1. \A r : Held(pending, r) => r \in Range(Entries(pending))
    BY DEF Held, Range, Entries
  <2>2. \A r : In(queue, r) => r \in Range(queue)
    BY DEF In, Range
  <2> QED BY <2>1, <2>2 DEF CallInv, Lossless, NoneLost
<1> QED BY <1>1, CallInvariant, PTL

LEMMA PromiseStep ==
  OrderInv /\ TypeInv /\ CallInv /\ [Next]_vars => [RpcSpec!Next]_<<fut, ran>>
<1> SUFFICES ASSUME OrderInv, TypeInv, CallInv, [Next]_vars PROVE [RpcSpec!Next]_<<fut, ran>>
  OBVIOUS
<1>0. Requested /\ Naturals /\ fut \in [Requests -> Outcomes]
  BY DEF TypeInv, Requested
<1>1. CASE Send
  <2> DEFINE R == {r \in Requests : fut'[r] # fut[r]}
  <2>1. \A r \in Requests : fut'[r] = fut[r] \/ (fut[r] = "waiting" /\ fut'[r] = "error")
    BY <1>0, <1>1, SendRequests
  <2>2. fut' \in [Requests -> Outcomes]
    BY <1>0, <1>1, SendRequests DEF Requested
  <2>3. ran' = ran
    BY <1>1 DEF Send, ghosts
  <2>4. RpcSpec!Settle(R)
    BY <2>1, <2>2, <2>3 DEF RpcSpec!Settle, Outcomes
  <2> QED BY <2>4 DEF RpcSpec!Next
<1>2. CASE Serve
  <2> DEFINE p == Head(up)
             fresh == {i \in DOMAIN p.msgs : \A s \in seen : s.id # p.msgs[i].id}
             R == {p.msgs[i].req : i \in fresh}
  <2>1. ran' = ran \cup R /\ fut' = fut /\ up # <<>>
    BY <1>2 DEF Serve, packer
  <2>2. 1 \in DOMAIN up /\ p = up[1]
    <3>1. PICK P : up \in Seq(P)
      BY DEF OrderInv, Shape
    <3> QED BY <2>1, <3>1
  <2>3. \A r \in R : r \in Requests /\ fut[r] # "new"
    BY <1>0, <2>2 DEF Requested, Carried
  <2> HIDE DEF R
  <2>4. RpcSpec!Execute(R) /\ R \in SUBSET Requests
    BY <2>1, <2>3 DEF RpcSpec!Execute
  <2> QED BY <2>4 DEF RpcSpec!Next
<1>3. ASSUME NEW m \in down, Receive(m) PROVE [RpcSpec!Next]_<<fut, ran>>
  <2> DEFINE R == {r \in Requests : fut'[r] # fut[r]}
  <2>1. /\ \A r \in Requests :
              \/ fut'[r] = fut[r]
              \/ /\ m.type = "result" /\ fut[r] = "waiting" /\ fut'[r] = "answered"
                 /\ \E i \in DOMAIN pending : pending[i].id = m.ref /\ pending[i].req = r
        /\ fut' \in [Requests -> Outcomes]
    BY <1>0, <1>3, ReceiveRequests DEF Requested
  <2>2. ran' = ran
    BY <1>3 DEF Receive
  <2>3. \A r \in R : fut[r] = "waiting" /\ fut'[r] = "answered" /\ r \in ran
    BY <2>1 DEF CallInv, Earned, Sure
  <2>4. RpcSpec!Settle(R)
    BY <2>1, <2>2, <2>3 DEF RpcSpec!Settle, Outcomes
  <2> QED BY <2>4 DEF RpcSpec!Next
<1>4. ASSUME NEW r \in Requests, Submit(r) PROVE [RpcSpec!Next]_<<fut, ran>>
  <2>1. RpcSpec!Submit(r)
    BY <1>4 DEF Submit, RpcSpec!Submit, ghosts
  <2> QED BY <2>1 DEF RpcSpec!Next
<1>5. ASSUME NEW r \in Requests, Cancel(r) PROVE [RpcSpec!Next]_<<fut, ran>>
  <2>1. fut[r] = "waiting" /\ fut' = [fut EXCEPT ![r] = "cancelled"] /\ ran' = ran
    BY <1>5 DEF Cancel, ghosts
  <2>2. RpcSpec!Settle({r})
    BY <1>0, <2>1 DEF RpcSpec!Settle, Outcomes
  <2> QED BY <2>2 DEF RpcSpec!Next
<1>6. CASE \/ \E t \in {"salt", "low", "high"} : Refuse(t)
           \/ RefuseSeq("seqlow") \/ RefuseSeq("seqhigh") \/ Rotate
           \/ Tick \/ Jump \/ Reconnect \/ Revive \/ UNCHANGED vars
  BY <1>6 DEF Refuse, RefuseSeq, Rotate, Tick, Jump, Reconnect, Revive, Reset, vars, packer, ghosts
<1>7. CASE Telling
  BY <1>7, Told DEF OrderInv
<1> QED BY <1>1, <1>2, <1>3, <1>4, <1>5, <1>6, <1>7 DEF Next, Answering, Receiving, Telling

(* The session implements Rpc: a future is settled at most once, and with  *)
(* an answer only after the server executed the request, unless the clock  *)
(* shows an id that is in use again (Coarse). *)
THEOREM Implements ==
  ASSUME ~Coarse
  PROVE  Spec => Promise
<1>1. Init => RpcSpec!Init
  BY DEF Init, RpcSpec!Init
<1>2. OrderInv /\ TypeInv /\ CallInv /\ [Next]_vars => [RpcSpec!Next]_<<fut, ran>>
  BY PromiseStep
<1> QED BY <1>1, <1>2, OrderInvariant, TypeInvariant, CallInvariant, PTL DEF Spec, Promise, RpcSpec!Spec

-----------------------------------------------------------------------------
(* No answer is ignored                                                    *)

(* The clock is not set while anything is on its way, and what the server  *)
(* says, again and again, arrives long before it is too old. *)
Punctual ==
  /\ Calm
  /\ MaxResends \in Nat
  /\ (MaxResends + 2) * Delay + TooNew <= TooOld

(* What the corrected local clock is ahead of the server's. *)
Lead == skew + offset

(* A packet was sent not long ago, and its id shows how far the clock was  *)
(* ahead. *)
Underway(p, t, lead) ==
  /\ p.id \in Int /\ p.sent \in Int
  /\ t <= p.sent + Delay
  /\ lead <= 0 \/ p.sent + lead <= Second(p.id)

(* A message is as old as its journeys are long, and the server executes   *)
(* nothing for a client whose clock is far ahead. *)
Fresh(m, t, lead, n) ==
  /\ m.sent \in Int
  /\ t <= m.sent + Delay
  /\ Second(m.id) <= t
  /\ m.sent <= Second(m.id) + n * Delay
  /\ m.type = "result" => lead <= Delay + TooNew

HeardInv ==
  /\ count["resend"] <= MaxResends
  /\ \A i \in DOMAIN up : Underway(up[i], time, Lead)
  /\ \A m \in down : Fresh(m, time, Lead, count["resend"])
  /\ Heard

(* Ids of a second. *)
LEMMA Seconds ==
  ASSUME NEW id \in Int, NEW s \in Int
  PROVE  /\ Second(id) \in Int
         /\ id < (s + 1) * Slots => Second(id) <= s
         /\ s * Slots <= id => s <= Second(id)
<1>1. Slots \in Nat /\ Slots > 0
  BY StateAssumption DEF StateAssumption
<1> DEFINE q == id \div Slots
<1>2. q \in Int /\ Slots * q <= id /\ id < Slots * q + Slots
  BY <1>1
<1>3. Second(id) = q
  BY DEF Second
<1> HIDE DEF q
<1>4. (id < (s + 1) * Slots => q <= s) /\ (s * Slots <= id => s <= q)
  BY <1>1, <1>2
<1> QED BY <1>2, <1>3, <1>4

(* A correction takes the lead away. *)
LEMMA LeadCorrected ==
  ASSUME Numbers, NEW m \in down, Second(m.id) <= time,
         HandleResult(m) \/ HandleNote(m) \/ HandleSalt(m) \/ HandleTime(m) \/ HandleSeq(m)
  PROVE  offset' = offset \/ skew + offset' <= 0
<1>0. /\ m.id \in Int /\ Instants(0) \subseteq 0..Slots - 1 /\ offset \in Int
      /\ Second(m.id) \in Int /\ skew \in Int /\ time \in Int
  BY ClockNumbers DEF Numbers, IsMessage
<1>1. skew + Correct(m.id) <= 0
  BY <1>0 DEF Correct
<1>2. CASE HandleResult(m) \/ HandleNote(m)
  BY <1>2 DEF HandleResult, HandleNote
<1>3. CASE HandleSalt(m) \/ HandleSeq(m)
  <2>1. PICK f \in 0..Slots - 1 : Clock(FirstOffset(m, f))
    BY <1>0, <1>3 DEF HandleSalt, HandleSeq
  <2>2. offset' \in {offset, Correct(m.id)}
    BY <1>0, <2>1, FirstOffsets DEF Clock
  <2> QED BY <1>1, <2>2
<1>4. CASE HandleTime(m)
  <2>1. PICK f \in 0..Slots - 1 :
          LET c == FirstOffset(m, f) IN Clock(UpdateTimeOffset(m.id, c.offset, c.last, f))
    BY <1>0, <1>4 DEF HandleTime
  <2>2. offset' = Correct(m.id)
    BY <2>1 DEF Clock, UpdateTimeOffset
  <2> QED BY <1>1, <2>2
<1> QED BY <1>2, <1>3, <1>4

(* What is on its way is as it was, but for a lead that was corrected. *)
LEMMA StillUnderway ==
  ASSUME NEW p, NEW t, NEW lead \in Int, NEW l \in Int, Underway(p, t, lead), l = lead \/ l <= 0
  PROVE  Underway(p, t, l)
BY DEF Underway

LEMMA StillFresh ==
  ASSUME NEW m, NEW t \in Int, NEW lead \in Int, NEW l \in Int, NEW n \in Nat, Fresh(m, t, lead, n),
         l = lead \/ l <= 0
  PROVE  Fresh(m, t, l, n)
<1>1. Delay + TooNew \in Nat
  BY StateAssumption DEF StateAssumption
<1> QED BY <1>1 DEF Fresh

(* What is sent again is as fresh as one more journey lets it be. *)
LEMMA FreshAgain ==
  ASSUME NEW m, IsMessage(m), NEW t \in Int, NEW lead \in Int, NEW n \in Nat, Fresh(m, t, lead, n)
  PROVE  /\ Fresh(m, t, lead, n + 1)
         /\ Fresh([m EXCEPT !.sent = t], t, lead, n + 1)
<1>1. Delay \in Nat /\ (n + 1) * Delay = n * Delay + Delay /\ n * Delay \in Int
  BY StateAssumption DEF StateAssumption
<1>2. Second(m.id) \in Int
  BY Seconds DEF IsMessage
<1>3. Fresh(m, t, lead, n + 1)
  BY <1>1, <1>2 DEF Fresh
<1> DEFINE x == [m EXCEPT !.sent = t]
<1>4. x.sent = t /\ x.id = m.id /\ x.type = m.type
  BY DEF IsMessage
<1>5. t <= Second(m.id) + (n + 1) * Delay
  BY <1>1, <1>2 DEF Fresh
<1> HIDE DEF x
<1>6. Fresh(x, t, lead, n + 1)
  BY <1>1, <1>2, <1>3, <1>4, <1>5 DEF Fresh
<1> QED BY <1>3, <1>6 DEF x

(* A new message of the server. *)
LEMMA FreshReply ==
  ASSUME Numbers, NEW i \in Nat, NextId + i < (time + 1) * Slots, NEW type, NEW ref, NEW n \in Nat,
         type = "result" => Lead <= Delay + TooNew
  PROVE  Fresh(Reply(type, ref, i), time, Lead, n)
<1>0. time \in Int /\ Delay \in Nat /\ Slots \in Nat /\ top \in Int /\ n * Delay \in Nat
  BY StateAssumption DEF StateAssumption, Numbers
<1>1. NextId \in Int /\ NextId >= time * Slots
  BY <1>0 DEF NextId
<1> DEFINE id == NextId + i
<1>2. id \in Int /\ id >= time * Slots /\ id < (time + 1) * Slots
  BY <1>0, <1>1
<1>3. Second(id) \in Int /\ Second(id) <= time /\ time <= Second(id)
  <2> HIDE DEF id
  <2> QED BY <1>0, <1>2, Seconds
<1> DEFINE m == Reply(type, ref, i)
<1>4. m.id = id /\ m.type = type /\ m.sent = time
  BY DEF Reply
<1> HIDE DEF m
<1> HIDE DEF id
<1>5. Fresh(m, time, Lead, n)
  BY <1>0, <1>3, <1>4 DEF Fresh
<1> QED BY <1>5 DEF m

(* A message that is put in a container. *)
LEMMA FreshBox ==
  ASSUME Numbers, NextId + 0 < (time + 1) * Slots, NEW m, m.sent = time, NEW n \in Nat,
         Fresh(m, time, Lead, n)
  PROVE  Fresh(Boxed(m), time, Lead, n)
<1>0. time \in Int /\ Delay \in Nat /\ Slots \in Nat /\ top \in Int /\ n * Delay \in Nat
  BY StateAssumption DEF StateAssumption, Numbers
<1>1. NextId \in Int /\ NextId >= time * Slots
  BY <1>0 DEF NextId
<1>2. Second(NextId) \in Int /\ Second(NextId) <= time /\ time <= Second(NextId)
  BY <1>0, <1>1, Seconds
<1> DEFINE x == Boxed(m)
<1>3. x.id = NextId /\ x.type = m.type /\ x.sent = time
  BY DEF Boxed
<1> HIDE DEF x
<1>4. Fresh(x, time, Lead, n)
  BY <1>0, <1>2, <1>3 DEF Fresh
<1> QED BY <1>4 DEF x

LEMMA SendHeard ==
  ASSUME OrderInv, HeardInv, Send
  PROVE  HeardInv'
<1>1. UNCHANGED <<time, skew, offset, down, count, missed>>
  BY DEF Send, clock, server, ghosts
<1>2. CASE up' = up
  BY <1>1, <1>2 DEF HeardInv, Heard, Lead
<1>3. CASE up' # up
  <2>0. PICK rest : /\ Batch(rest) # <<>>
                    /\ \E f \in Instants(Len(Batch(rest))) : Mail(Batch(rest), Reading(f))
    BY <1>3 DEF Send
  <2>1. PICK f \in Instants(Len(Batch(rest))) : Mail(Batch(rest), Reading(f))
    BY <2>0
  <2>2. PICK k \in Nat : Batch(rest) = [i \in 1..k |-> rest[i]]
    BY BatchIsSequence
  <2> DEFINE p == Packet(Batch(rest), Reading(f))
  <2>3. up' = Append(up, p)
    BY <2>1 DEF Mail
  <2>4. Len(Batch(rest)) = k
    BY <2>2
  <2>5. /\ Reading(f) \in Int /\ f \in Nat /\ last \in Int /\ time \in Int /\ Lead \in Int
        /\ Slots \in Nat /\ Delay \in Nat
    <3>0. Numbers /\ Slots \in Nat /\ Delay \in Nat
      BY StateAssumption DEF StateAssumption, OrderInv
    <3>1. last \in Int /\ time \in Int /\ skew \in Int /\ offset \in Int
      BY <3>0 DEF Numbers
    <3>2. f \in 0..Slots - 1
      BY <3>0, ClockNumbers
    <3>3. Reading(f) \in Int
      BY <3>0, <3>2, ClockNumbers
    <3>4. Lead \in Int
      BY <3>1 DEF Lead
    <3> QED BY <3>0, <3>1, <3>2, <3>3, <3>4
  <2>6. NewId(last, Reading(f)) \in Int /\ NewId(last, Reading(f)) >= Reading(f)
    BY <2>5 DEF NewId
  <2>7. Reading(f) >= (time + Lead) * Slots
    <3>1. time + skew + offset = time + Lead
      BY DEF OrderInv, Numbers, Lead
    <3> QED BY <2>5, <3>1 DEF Reading
  <2>8. p.id = NewId(last, Reading(f)) + (IF k > 1 THEN k ELSE 0) /\ p.sent = time
    BY <2>4 DEF Packet
  <2> HIDE DEF p
  <2>9. p.id \in Int /\ (time + Lead) * Slots <= p.id
    BY <2>5, <2>6, <2>7, <2>8
  <2>10. Underway(p, time, Lead)
    <3>1. time + Lead \in Int
      BY <2>5
    <3>2. time + Lead <= Second(p.id)
      BY <2>9, <3>1, Seconds
    <3> QED BY <2>5, <2>8, <2>9, <3>2 DEF Underway
  <2>11. \A i \in DOMAIN up' : up'[i] = p \/ \E j \in DOMAIN up : up'[i] = up[j]
    <3>1. PICK P : up \in Seq(P)
      BY DEF OrderInv, Shape
    <3> QED BY <2>3, <3>1
  <2>12. \A i \in DOMAIN up' : Underway(up'[i], time, Lead)
    BY <2>10, <2>11 DEF HeardInv
  <2> QED BY <1>1, <2>12 DEF HeardInv, Heard, Lead
<1> QED BY <1>2, <1>3

LEMMA ServerHeard ==
  ASSUME OrderInv, Ground, HeardInv,
         \/ Serve
         \/ \E t \in {"salt", "low", "high"} : Refuse(t)
         \/ RefuseSeq("seqlow") \/ RefuseSeq("seqhigh")
  PROVE  HeardInv'
<1>1. /\ up # <<>> /\ up' = Tail(up)
      /\ UNCHANGED <<time, skew, offset, missed>> /\ count'["resend"] = count["resend"]
      /\ count["resend"] \in Nat
  BY DEF Serve, Refuse, RefuseSeq, clock, state, ghosts, Count, Bound, Ground
<1>2. /\ 1 \in DOMAIN up /\ Head(up) = up[1]
      /\ \A i \in DOMAIN up' : \E j \in DOMAIN up : up'[i] = up[j]
  <2>1. PICK P : up \in Seq(P)
    BY DEF OrderInv, Shape
  <2>2. /\ 1 \in DOMAIN up /\ Head(up) = up[1] /\ DOMAIN up' = 1..Len(up) - 1 /\ Len(up) \in Nat
        /\ DOMAIN up = 1..Len(up) /\ \A i \in DOMAIN up' : up'[i] = up[i + 1]
    BY <1>1, <2>1
  <2>3. \A i \in DOMAIN up' : i + 1 \in DOMAIN up /\ up'[i] = up[i + 1]
    BY <2>2
  <2> QED BY <2>2, <2>3
<1>3. \A i \in DOMAIN up' : Underway(up'[i], time, Lead)
  BY <1>2 DEF HeardInv
<1> DEFINE p == Head(up)
           n == count["resend"]
<1>4. Underway(p, time, Lead) /\ time \in Int /\ Lead \in Int /\ Numbers /\ n \in Nat
  BY <1>1, <1>2 DEF HeardInv, OrderInv, Numbers, Lead
<1>5. ASSUME NEW m \in down', m \notin down PROVE Fresh(m, time, Lead, n)
  <2>1. CASE Serve
    <3> DEFINE fresh == {i \in DOMAIN p.msgs : \A s \in seen : s.id # p.msgs[i].id}
    <3>1. /\ ~(Second(p.id) > time + TooNew)
          /\ Room(Len(p.msgs) - 1)
          /\ \E i \in fresh : m = Reply("result", p.msgs[i].id, i - 1)
      BY <2>1, <1>5 DEF Serve, Faults
    <3>2. PICK i \in DOMAIN p.msgs : m = Reply("result", p.msgs[i].id, i - 1)
      BY <3>1
    <3>3. i - 1 \in Nat /\ i - 1 <= Len(p.msgs) - 1 /\ Len(p.msgs) \in Nat
      <4>1. PICK M : p.msgs \in Seq(M)
        BY <1>2 DEF OrderInv, Shape
      <4> HIDE DEF p
      <4> QED BY <4>1
    <3> HIDE DEF p, n
    <3>4. NextId + (i - 1) < (time + 1) * Slots
      <4>1. NextId \in Int /\ (time + 1) * Slots \in Int
        BY <1>4, ClockNumbers, StateAssumption DEF StateAssumption
      <4>2. NextId + (Len(p.msgs) - 1) < (time + 1) * Slots
        BY <3>1 DEF Room
      <4> QED BY <3>3, <4>1, <4>2
    <3>5. Lead <= Delay + TooNew
      <4>1. Second(p.id) \in Int /\ Delay \in Nat /\ TooNew \in Nat
        BY <1>4, Seconds, StateAssumption DEF StateAssumption, Underway
      <4> QED BY <1>4, <3>1, <4>1 DEF Underway
    <3> QED BY <1>4, <3>2, <3>3, <3>4, <3>5, FreshReply
  <2>2. CASE ~Serve
    <3>1. PICK t \in {"salt", "low", "high", "seqlow", "seqhigh"} :
            Room(0) /\ down' = down \cup {Reply(t, p.id, 0)}
      BY <2>2 DEF Refuse, RefuseSeq
    <3>2. m = Reply(t, p.id, 0) /\ t # "result" /\ NextId + 0 < (time + 1) * Slots
      BY <1>5, <3>1 DEF Room
    <3> HIDE DEF p, n
    <3> QED BY <1>4, <3>2, FreshReply
  <2> QED BY <2>1, <2>2
<1>6. \A m \in down' : Fresh(m, time, Lead, n)
  BY <1>5 DEF HeardInv
<1> QED BY <1>1, <1>3, <1>6 DEF HeardInv, Heard, Lead

(* What is remembered was handled. *)
LEMMA RecentLogged ==
  ASSUME LogInv
  PROVE  Range(recent) \subseteq Range(log)
<1>1. /\ log \in Seq(Int) /\ recent \in Seq(Int) /\ Len(recent) <= Len(log)
      /\ \A i \in 1..Len(recent) : recent[i] = log[Len(log) - Len(recent) + i]
  BY DEF LogInv, Remembered
<1>2. ASSUME NEW i \in DOMAIN recent PROVE recent[i] \in Range(log)
  <2>1. /\ DOMAIN log = 1..Len(log) /\ DOMAIN recent = 1..Len(recent)
        /\ Len(log) \in Nat /\ Len(recent) \in Nat
    BY <1>1
  <2>2. recent[i] = log[Len(log) - Len(recent) + i]
    BY <1>1, <2>1
  <2>3. Len(log) - Len(recent) + i \in DOMAIN log
    <3>1. i \in Nat /\ 1 <= i /\ i <= Len(recent) /\ Len(recent) <= Len(log)
      BY <1>1, <2>1
    <3>2. Len(log) - Len(recent) + i \in 1..Len(log)
      BY <2>1, <3>1
    <3> QED BY <2>1, <3>2
  <2> QED BY <2>2, <2>3 DEF Range
<1> QED BY <1>2 DEF Range

LEMMA ReceiveHeard ==
  ASSUME OrderInv, Ground, LogInv, HeardInv, Punctual, NEW m \in down, Receive(m)
  PROVE  HeardInv'
<1> DEFINE n == count["resend"]
<1>0. /\ Numbers /\ IsMessage(m) /\ time \in Int /\ Lead \in Int /\ n \in Nat /\ n <= MaxResends
      /\ Fresh(m, time, Lead, n) /\ Second(m.id) \in Int /\ skew \in Int /\ offset \in Int
      /\ {Delay, TooOld, TooNew} \subseteq Nat
  BY Seconds, StateAssumption DEF OrderInv, Numbers, HeardInv, Lead, Ground, Bound, StateAssumption, IsMessage
<1>1. UNCHANGED <<up, time, skew>>
  BY DEF Receive, clock, server
<1>2. offset' \in Int /\ (Lead' = Lead \/ Lead' <= 0)
  <2>1. CASE Ignored(m)
    BY <1>0, <1>1, <2>1 DEF Receive, state, Lead
  <2>2. CASE ~Ignored(m)
    <3>1. HandleResult(m) \/ HandleNote(m) \/ HandleSalt(m) \/ HandleTime(m) \/ HandleSeq(m)
      BY <2>2 DEF Receive
    <3>2. offset' \in Int
      BY <1>0, <3>1, HandlersCorrect
    <3>3. offset' = offset \/ skew + offset' <= 0
      BY <1>0, <3>1, LeadCorrected DEF Fresh
    <3> QED BY <1>1, <3>2, <3>3 DEF Lead
  <2> QED BY <2>1, <2>2
<1>3. Lead' \in Int
  BY <1>0, <1>1, <1>2 DEF Lead
<1>4. \A i \in DOMAIN up' : Underway(up'[i], time', Lead')
  BY <1>0, <1>1, <1>2, <1>3, StillUnderway DEF HeardInv
<1>5. n' \in Nat /\ n' <= MaxResends /\ \A x \in down' : Fresh(x, time, Lead, n')
  <2>1. CASE down' = down \ {m} /\ UNCHANGED count
    BY <1>0, <2>1 DEF HeardInv
  <2>2. CASE down' = (down \ {m}) \cup {[m EXCEPT !.sent = time]} /\ Count("resend")
    <3>1. n' = n + 1 /\ n < MaxResends
      BY <2>2 DEF Count, Ground, Bound
    <3>2. \A x \in down : IsMessage(x) /\ Fresh(x, time, Lead, n)
      BY DEF HeardInv, OrderInv, Numbers
    <3> HIDE DEF n
    <3>3. \A x \in down : Fresh(x, time, Lead, n + 1)
      BY <1>0, <3>2, FreshAgain
    <3>4. Fresh([m EXCEPT !.sent = time], time, Lead, n + 1)
      BY <1>0, FreshAgain
    <3>5. n + 1 \in Nat /\ n + 1 <= MaxResends
      BY <1>0, <3>1 DEF Punctual
    <3> QED BY <2>2, <3>1, <3>3, <3>4, <3>5
  <2> QED BY <2>1, <2>2 DEF Receive, Delivered
<1>6. \A x \in down' : Fresh(x, time', Lead', n')
  <2> HIDE DEF n
  <2> QED BY <1>0, <1>1, <1>2, <1>3, <1>5, StillFresh
<1>7. Heard'
  <2>1. CASE m.type = "result" /\ Ignored(m) /\ m.id \notin Range(log) /\ ~Behind
    <3>1. ~Repeated(m.id)
      <4>1. Range(recent) \subseteq Range(log)
        BY RecentLogged
      <4> QED BY <2>1, <4>1 DEF Repeated
    <3>2. ~Timely(m)
      BY <2>1, <3>1 DEF Ignored, IsService, Service
    <3> DEFINE delta == time + skew + offset - Second(m.id)
    <3>3. delta = Lead + (time - Second(m.id)) /\ delta \in Int
      BY <1>0 DEF Lead
    <3>4. -delta <= TooNew
      <4>1. Lead >= -TooNew
        BY <1>0, <2>1 DEF Behind, Lead
      <4>2. time - Second(m.id) >= 0
        BY <1>0 DEF Fresh
      <4> HIDE DEF delta
      <4> QED BY <1>0, <3>3, <4>1, <4>2
    <3>5. delta <= TooOld
      <4>1. time <= Second(m.id) + n * Delay + Delay /\ Lead <= Delay + TooNew
        BY <1>0, <2>1 DEF Fresh
      <4>2. n * Delay <= MaxResends * Delay /\ n * Delay \in Nat /\ MaxResends * Delay \in Nat
        BY <1>0 DEF Punctual
      <4>3. MaxResends * Delay + 2 * Delay + TooNew <= TooOld
        BY <1>0 DEF Punctual
      <4> HIDE DEF delta, n
      <4> QED BY <1>0, <3>3, <4>1, <4>2, <4>3
    <3> QED BY <3>2, <3>4, <3>5 DEF Timely
  <2>2. CASE ~(m.type = "result" /\ Ignored(m) /\ m.id \notin Range(log) /\ ~Behind)
    BY <2>2 DEF Receive, Matters, Service, HeardInv, Heard
  <2> QED BY <2>1, <2>2
<1> QED BY <1>4, <1>5, <1>6, <1>7 DEF HeardInv

LEMMA OtherHeard ==
  ASSUME OrderInv, Ground, HeardInv, Punctual,
         \/ \E r \in Requests : Submit(r) \/ Cancel(r)
         \/ Telling \/ Rotate \/ Tick \/ Jump \/ UNCHANGED vars
  PROVE  HeardInv'
<1> DEFINE n == count["resend"]
<1>0. /\ Numbers /\ time \in Int /\ Lead \in Int /\ n \in Nat
  BY DEF OrderInv, Numbers, Lead, Ground, Bound
<1>1. n' = n /\ UNCHANGED <<up, offset, missed>>
  <2>1. CASE Telling
    BY <1>0, <2>1, Told DEF Count, Bound, Ground
  <2> QED BY <2>1 DEF Submit, Cancel, Rotate, Tick, Jump, vars, state, server, ghosts, Count,
          Bound, Ground
<1>2. CASE Telling
  <2>1. UNCHANGED <<time, skew>> /\ NextId + 0 < (time + 1) * Slots
    BY <1>0, <1>2, Told
  <2>2. Fresh(Reply("note", 0, 0), time, Lead, n) /\ Fresh(Reply("session", 0, 0), time, Lead, n)
    <3> HIDE DEF n
    <3> QED BY <1>0, <2>1, FreshReply
  <2>3. ASSUME NEW m \in down, m.sent = time PROVE Fresh(Boxed(m), time, Lead, n)
    <3>1. Fresh(m, time, Lead, n)
      BY DEF HeardInv
    <3> HIDE DEF n
    <3> QED BY <1>0, <2>1, <2>3, <3>1, FreshBox
  <2>4. \A x \in down' : Fresh(x, time, Lead, n)
    <3>1. \A x \in down : Fresh(x, time, Lead, n)
      BY DEF HeardInv
    <3> HIDE DEF n
    <3> QED BY <1>0, <1>2, <2>2, <2>3, <3>1, Told
  <2> QED BY <1>1, <2>1, <2>4 DEF HeardInv, Heard, Lead
<1>3. CASE Tick
  <2>1. time' = time + 1 /\ UNCHANGED <<skew, down>> /\ \A t \in OnItsWay : time < t + Delay
    BY <1>3 DEF Tick, server
  <2>2. Delay \in Nat /\ Lead' = Lead
    BY <1>1, <2>1, StateAssumption DEF StateAssumption, Lead
  <2>3. ASSUME NEW i \in DOMAIN up PROVE Underway(up[i], time + 1, Lead)
    <3>1. time < up[i].sent + Delay /\ Underway(up[i], time, Lead)
      BY <2>1 DEF OnItsWay, HeardInv
    <3> QED BY <1>0, <2>2, <3>1 DEF Underway
  <2>4. ASSUME NEW x \in down PROVE Fresh(x, time + 1, Lead, n)
    <3>1. time < x.sent + Delay /\ Fresh(x, time, Lead, n) /\ x.id \in Int
      BY <2>1 DEF OnItsWay, HeardInv, OrderInv, Numbers, IsMessage
    <3>2. Second(x.id) \in Int
      BY <3>1, Seconds
    <3> HIDE DEF n
    <3> QED BY <1>0, <2>2, <3>1, <3>2 DEF Fresh
  <2> QED BY <1>1, <2>1, <2>2, <2>3, <2>4 DEF HeardInv, Heard
<1>4. CASE Jump
  <2>1. OnItsWay = {} /\ UNCHANGED down
    BY <1>4 DEF Jump, Punctual, server
  <2>2. DOMAIN up' = {} /\ down' = {}
    BY <1>1, <2>1 DEF OnItsWay
  <2> QED BY <1>1, <2>2 DEF HeardInv, Heard
<1>5. CASE UNCHANGED <<time, skew, down>>
  BY <1>1, <1>5 DEF HeardInv, Heard, Lead
<1> QED BY <1>2, <1>3, <1>4, <1>5 DEF Submit, Cancel, Rotate, vars, clock, server

LEMMA HeardStep == OrderInv /\ Ground /\ LogInv /\ HeardInv /\ Punctual /\ [Next]_vars => HeardInv'
<1> SUFFICES ASSUME OrderInv, Ground, LogInv, HeardInv, Punctual, [Next]_vars PROVE HeardInv'
  OBVIOUS
<1>1. CASE Send
  BY <1>1, SendHeard
<1>2. CASE Answering \/ RefuseSeq("seqlow") \/ RefuseSeq("seqhigh")
  BY <1>2, ServerHeard DEF Answering
<1>3. CASE \/ \E r \in Requests : Submit(r) \/ Cancel(r)
           \/ Telling \/ Rotate \/ Tick \/ Jump \/ UNCHANGED vars
  BY <1>3, OtherHeard
<1>4. CASE Receiving
  BY <1>4, ReceiveHeard DEF Receiving
<1>5. CASE Reconnect \/ Revive
  <2>1. /\ up' = <<>> /\ down' = {} /\ missed' = missed
        /\ count'["resend"] = count["resend"]
    BY <1>5 DEF Reconnect, Revive, Reset, Count, Ground, Bound
  <2> QED BY <2>1 DEF HeardInv, Heard
<1> QED BY <1>1, <1>2, <1>3, <1>4, <1>5 DEF Next, Telling

(* The answer to a request is not ignored unless the clock fell back: what *)
(* travels long enough to be too old, or meets a clock that was set, is    *)
(* excluded (Punctual); corrections of the clock, refusals, repetitions    *)
(* and reconnections are not. *)
THEOREM AlwaysHeard ==
  ASSUME Punctual
  PROVE  Spec => []Heard
<1>1. Init => HeardInv
  BY DEF Init, HeardInv, Heard, Bound, Punctual
<1>2. OrderInv /\ Ground /\ LogInv /\ HeardInv /\ [Next]_vars => HeardInv'
  BY HeardStep
<1>3. TypeInv => Ground
  BY DEF TypeInv
<1>4. HeardInv => Heard
  BY DEF HeardInv
<1> QED BY <1>1, <1>2, <1>3, <1>4, OrderInvariant, TypeInvariant, LogInvariant, PTL DEF Spec

=============================================================================
