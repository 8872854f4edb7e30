-------------------------- MODULE MessageBoxProofs --------------------------
(***************************************************************************)
(* Proofs about MessageBox, for every value of its constants.              *)
(***************************************************************************)
EXTENDS MessageBox, TLAPS

-----------------------------------------------------------------------------
(* Types, operator by operator.                                            *)

(* What becomes of the deadlines keeps their type. *)
LEMMA MoveType ==
  ASSUME TypeOK, NEW S \in SUBSET Entries, NEW t, MoveNextDeadline(S, t)
  PROVE  next_deadline' \in Entries
BY DEF TypeOK, MoveNextDeadline, Known

LEMMA ResetType ==
  ASSUME TypeOK, NEW S \in SUBSET Entries, NEW t \in 0..T, ResetDeadlines(S, t)
  PROVE  left' \in [Entries -> 0..T] /\ next_deadline' \in Entries
<1>1. left' \in [Entries -> 0..T]
  BY DEF TypeOK, ResetDeadlines, Reset
<1>2. next_deadline' \in Entries
  BY MoveType DEF ResetDeadlines
<1> QED BY <1>1, <1>2

LEMMA EndGetDiffType ==
  ASSUME TypeOK, NEW c \in Entries, EndGetDiff(c)
  PROVE  /\ left' \in [Entries -> 0..T] /\ next_deadline' \in Entries
         /\ getting' \subseteq Entries
<1>1. T \in 0..T /\ {c} \in SUBSET Entries
  BY BoundsAssumption
<1>2. left' \in [Entries -> 0..T] /\ next_deadline' \in Entries
  BY <1>1, ResetType DEF EndGetDiff
<1>3. getting' \subseteq Entries
  BY DEF EndGetDiff, TypeOK
<1> QED BY <1>2, <1>3

(* Everything the server or a difference delivers is an update. *)
LEMMA DeliverableType ==
  ASSUME TypeOK
  PROVE  /\ Deliverable \subseteq Update
         /\ ChannelDeliverable \subseteq Update
         /\ \A e \in Entries : \A lo, hi : Others(e, lo, hi) \subseteq Update
<1>1. \A e \in Entries : log[e] \subseteq PtsUpdate
  BY DEF TypeOK
<1>2. Channels \subseteq Entries
  BY DEF Entries
<1> QED BY <1>1, <1>2 DEF Deliverable, ChannelDeliverable, Update, Others

(* A pts the server may answer with is a natural number. *)
LEMMA BoundaryType ==
  ASSUME TypeOK, NEW e \in Entries, NEW lo \in Nat, NEW n,
         NEW p \in Boundaries(e, lo, n)
  PROVE  p \in Nat /\ p >= lo
BY DEF Boundaries, TypeOK, PtsUpdate

LEMMA PositionsType ==
  ASSUME NEW e, NEW k, NEW lo \in Nat, NEW hi \in Nat
  PROVE  Positions(e, k, lo, hi) \subseteq Nat
BY DEF Positions

LEMMA CoverType ==
  ASSUME NEW u \in PtsUpdate
  PROVE  Cover(u) \subseteq Nat /\ FirstPts(u) \in Nat
         /\ FirstPts(u) - u.count \in Nat \cup {Unknown} /\ u.entry \in Entries
         /\ u.pts \in Nat
BY DEF Cover, FirstPts, PtsUpdate, Unknown

-----------------------------------------------------------------------------
(* Type correctness.                                                       *)

LEMMA InitType == Init => TypeOK
<1> SUFFICES ASSUME Init PROVE TypeOK
  OBVIOUS
<1>1. map \in [Entries -> Nat \cup {Unknown}] /\ base = map
  BY DEF Init
<1>2. left \in [Entries -> 0..T]
  BY BoundsAssumption DEF Init
<1>3. gapLeft \in [Entries -> 0..G] /\ spts \in [Entries -> 0..MaxPts]
  BY BoundsAssumption DEF Init
<1>4. call \in [seq : 0..MaxSeq, then : {"return", "endDiff", "endChannel", "stopped"},
                entry : Entries]
  BY BoundsAssumption DEF Init, Socket, Entries
<1>5. req \in [entry : Entries, pts : Nat \cup {Unknown}, qts : Nat \cup {Unknown},
               spts : Nat, sqts : Nat]
  BY DEF Init, NoReq, Entries
<1>6. /\ gaps \in [Entries -> SUBSET PtsUpdate] /\ log \in [Entries -> SUBSET PtsUpdate]
      /\ handed \in [Entries -> SUBSET Nat] /\ passed \in [Entries -> SUBSET Nat]
      /\ jumped \in [Entries -> SUBSET Nat]
  BY DEF Init
<1>7. next_deadline \in Entries /\ seq \in 0..MaxSeq /\ errors \in 0..MaxErrors
      /\ loads \in 0..MaxLoads /\ rows \in [Channels -> Nat \cup {Unknown}]
  BY BoundsAssumption DEF Init, Entries
<1> QED BY <1>1, <1>2, <1>3, <1>4, <1>5, <1>6, <1>7 DEF Init, TypeOK

LEMMA ApplyPtsInfoType ==
  ASSUME TypeOK, NEW u \in PtsUpdate, NEW rest \in [Entries -> SUBSET PtsUpdate],
         ApplyPtsInfo(u, rest)
  PROVE  /\ map' \in [Entries -> Nat \cup {Unknown}]
         /\ left' \in [Entries -> 0..T]
         /\ gaps' \in [Entries -> SUBSET PtsUpdate]
         /\ gapLeft' \in [Entries -> 0..G]
         /\ result' \in BOOLEAN
         /\ base' \in [Entries -> Nat \cup {Unknown}]
         /\ handed' \in [Entries -> SUBSET Nat]
         /\ passed' \in [Entries -> SUBSET Nat]
         /\ jumped' \in [Entries -> SUBSET Nat]
         /\ twice' \in BOOLEAN
<1>0. /\ Cover(u) \subseteq Nat /\ FirstPts(u) \in Nat
      /\ FirstPts(u) - u.count \in Nat \cup {Unknown}
      /\ u.entry \in Entries /\ u.pts \in Nat
  BY CoverType
<1>1. CASE (Fetching(u) \/ Handled(u)) /\ gaps' = rest
           /\ UNCHANGED <<map, left, gapLeft, result, ghosts>>
  BY <1>1 DEF TypeOK, ghosts
<1>2. CASE Early(u) /\ Stash(u, rest) /\ UNCHANGED <<map, left, result, ghosts>>
  BY <1>0, <1>2, BoundsAssumption DEF TypeOK, Stash, ghosts
<1>3. CASE Fits(u) /\ Apply(u) /\ gaps' = rest /\ result' = TRUE /\ UNCHANGED gapLeft
  BY <1>0, <1>3 DEF TypeOK, Apply, Hand
<1>4. CASE First(u) /\ Begin(u) /\ gaps' = rest /\ result' = TRUE /\ UNCHANGED gapLeft
  BY <1>0, <1>4, BoundsAssumption DEF TypeOK, Begin, Track
<1> QED BY <1>1, <1>2, <1>3, <1>4 DEF ApplyPtsInfo

LEMMA ApplyNewType == TypeOK /\ ApplyNew => TypeOK'
<1> SUFFICES ASSUME TypeOK, ApplyNew PROVE TypeOK'
  OBVIOUS
<1>1. PICK u \in todo :
        /\ todo' = todo \ {u}
        /\ \/ /\ u.kind = "tooLong"
              /\ TryBeginGetDiff(u.entry)
              /\ UNCHANGED <<map, left, touched, result, ghosts>>
           \/ /\ u.kind = "plain"
              /\ result' = TRUE
              /\ UNCHANGED <<map, left, gap, getting, touched, ghosts>>
           \/ /\ HasPts(u)
              /\ Touch(u)
              /\ ApplyPtsInfo(u, gaps)
              /\ UNCHANGED getting
  BY DEF ApplyNew
<1>2. UNCHANGED <<next_deadline, seq, pc, batch, call, req, server, lasting>>
  BY DEF ApplyNew
<1>3. u \in Update /\ todo' \subseteq Update /\ pc' = "apply"
  BY <1>1, <1>2 DEF TypeOK, ApplyNew
<1>4. CASE u.kind = "tooLong"
  <2>1. TryBeginGetDiff(u.entry) /\ UNCHANGED <<map, left, touched, result, ghosts>>
    BY <1>1, <1>4 DEF HasPts
  <2>2. getting' \subseteq Entries /\ gaps' \in [Entries -> SUBSET PtsUpdate]
        /\ gapLeft' \in [Entries -> 0..G]
    BY <2>1, BoundsAssumption DEF TryBeginGetDiff, TypeOK, gap, Known
  <2> QED BY <1>2, <1>3, <2>1, <2>2 DEF TypeOK, server, lasting, ghosts
<1>5. CASE u.kind = "plain"
  BY <1>1, <1>2, <1>3, <1>5 DEF TypeOK, HasPts, gap, server, lasting, ghosts
<1>6. CASE HasPts(u)
  <2>1. u \in PtsUpdate
    BY <1>3, <1>6 DEF Update, HasPts, TooLongMark, Plain
  <2>2. touched' \subseteq Entries
    BY <1>1, <1>6, <2>1, CoverType DEF Touch, HasPts, TypeOK
  <2>3. ApplyPtsInfo(u, gaps) /\ UNCHANGED getting
    BY <1>1, <1>6 DEF HasPts
  <2> QED BY <1>2, <1>3, <2>1, <2>2, <2>3, ApplyPtsInfoType DEF TypeOK, server, lasting
<1> QED BY <1>1, <1>4, <1>5, <1>6

LEMMA ReturnType ==
  ASSUME TypeOK, Return
  PROVE  /\ seq' \in 0..MaxSeq /\ batch' \subseteq Update /\ todo' = {}
         /\ pc' \in {"idle", "endDiff", "endChannel", "stopped"}
         /\ touched' \subseteq Entries /\ result' \in BOOLEAN
         /\ call' \in [seq : 0..MaxSeq, then : {"return", "endDiff", "endChannel", "stopped"},
                       entry : Entries]
<1>1. Socket \in [seq : 0..MaxSeq, then : {"return", "endDiff", "endChannel", "stopped"},
                  entry : Entries]
  BY BoundsAssumption DEF Socket, Entries
<1> QED BY <1>1 DEF Return, NewSeq, TypeOK

LEMMA EndOfPassType == TypeOK /\ EndOfPass => TypeOK'
<1> SUFFICES ASSUME TypeOK, EndOfPass PROVE TypeOK'
  OBVIOUS
<1>1. ResetDeadlines(touched, T)
      /\ UNCHANGED <<map, gap, getting, req, server, lasting, ghosts>>
  BY DEF EndOfPass
<1>2. left' \in [Entries -> 0..T] /\ next_deadline' \in Entries
  BY <1>1, ResetType, BoundsAssumption DEF TypeOK
<1>3. CASE pc' = "retry" /\ todo' = UNION {gaps[e] : e \in Entries}
           /\ UNCHANGED <<seq, batch, touched, result, call>>
  <2>1. todo' \subseteq PtsUpdate
    BY <1>3 DEF TypeOK
  <2> QED BY <1>1, <1>2, <1>3, <2>1 DEF TypeOK, gap, server, lasting, ghosts
<1>4. CASE Return
  BY <1>1, <1>2, <1>4, ReturnType DEF TypeOK, gap, server, lasting, ghosts
<1> QED BY <1>3, <1>4 DEF EndOfPass

LEMMA RetryGapType == TypeOK /\ RetryGap => TypeOK'
<1> SUFFICES ASSUME TypeOK, RetryGap PROVE TypeOK'
  OBVIOUS
<1>1. PICK u \in todo :
        /\ todo' = todo \ {u}
        /\ ApplyPtsInfo(u, [gaps EXCEPT ![u.entry] = @ \ {u}])
  BY DEF RetryGap
<1>2. UNCHANGED <<next_deadline, getting, seq, pc, batch, touched, call, req,
                 server, lasting>>
  BY DEF RetryGap
<1>3. u \in PtsUpdate /\ todo' \subseteq PtsUpdate /\ pc' = "retry"
  BY <1>1, <1>2 DEF RetryGap, TypeOK
<1>4. [gaps EXCEPT ![u.entry] = @ \ {u}] \in [Entries -> SUBSET PtsUpdate]
  BY DEF TypeOK
<1> QED BY <1>1, <1>2, <1>3, <1>4, ApplyPtsInfoType DEF TypeOK, server, lasting

LEMMA EndOfRetryType == TypeOK /\ EndOfRetry => TypeOK'
<1> SUFFICES ASSUME TypeOK, EndOfRetry PROVE TypeOK'
  OBVIOUS
<1>1. gapLeft' \in [Entries -> 0..G]
  BY BoundsAssumption DEF EndOfRetry, TypeOK
<1>2. Return
  BY DEF EndOfRetry
<1> QED BY <1>1, <1>2, ReturnType DEF EndOfRetry, TypeOK, server, lasting, ghosts

LEMMA ReceiveType == TypeOK /\ Receive => TypeOK'
<1> SUFFICES ASSUME TypeOK, Receive PROVE TypeOK'
  OBVIOUS
<1>1. PICK B \in Batches(Deliverable) \ {{}}, s \in 0..MaxSeq :
        Process(B, [Socket EXCEPT !.seq = s])
  BY DEF Receive
<1>2. B \subseteq Update
  BY <1>1, DeliverableType DEF Batches
<1>3. [Socket EXCEPT !.seq = s] \in
        [seq : 0..MaxSeq, then : {"return", "endDiff", "endChannel", "stopped"}, entry : Entries]
  BY DEF Socket, Entries
<1>4. UNCHANGED <<box, req, server, lasting, ghosts>>
  BY DEF Receive
<1> QED BY <1>1, <1>2, <1>3, <1>4 DEF Process, TypeOK, box, gap, server, lasting, ghosts

LEMMA GapType ==
  ASSUME TypeOK, NEW e \in Entries, TryBeginGetDiff(e)
  PROVE  /\ getting' \subseteq Entries /\ gaps' \in [Entries -> SUBSET PtsUpdate]
         /\ gapLeft' \in [Entries -> 0..G]
BY BoundsAssumption DEF TryBeginGetDiff, TypeOK, gap, Known

LEMMA ReceiveGapType == TypeOK /\ ReceiveGap => TypeOK'
<1> SUFFICES ASSUME TypeOK, ReceiveGap PROVE TypeOK'
  OBVIOUS
<1>1. Account \in Entries /\ TryBeginGetDiff(Account)
  BY DEF ReceiveGap, Entries
<1> QED BY <1>1, GapType DEF ReceiveGap, TypeOK, loop, scan, server, lasting, ghosts

LEMMA CheckDeadlinesType == TypeOK /\ CheckDeadlines => TypeOK'
<1> SUFFICES ASSUME TypeOK, CheckDeadlines PROVE TypeOK'
  OBVIOUS
<1>1. /\ getting' \subseteq Entries /\ gaps' \in [Entries -> SUBSET PtsUpdate]
      /\ gapLeft' \in [Entries -> 0..G]
  BY BoundsAssumption DEF CheckDeadlines, TypeOK, Known
<1> QED BY <1>1 DEF CheckDeadlines, TypeOK, loop, scan, server, lasting, ghosts

(* An exception of the box leaves everything but pc as it was. *)
LEMMA DieType ==
  ASSUME TypeOK, Die, UNCHANGED server, errors' \in 0..MaxErrors, UNCHANGED <<loads, rows>>
  PROVE  TypeOK'
BY DEF Die, TypeOK, box, gap, scan, server, ghosts, Update

LEMMA GetDifferenceType == TypeOK /\ GetDifference => TypeOK'
<1> SUFFICES ASSUME TypeOK, GetDifference PROVE TypeOK'
  OBVIOUS
<1>1. CASE Die
  BY <1>1, DieType DEF GetDifference, TypeOK, lasting
<1>2. CASE ~Die
  <2>1. /\ req' = [entry |-> Account, pts |-> map[Account], qts |-> map[Secret],
                   spts |-> spts[Account], sqts |-> spts[Secret]]
        /\ pc' = "wait"
        /\ UNCHANGED <<box, scan, call, ghosts, server, lasting>>
    BY <1>2 DEF GetDifference
  <2>2. req' \in [entry : Entries, pts : Nat \cup {Unknown}, qts : Nat \cup {Unknown},
                  spts : Nat, sqts : Nat]
    BY <2>1, BoundsAssumption DEF TypeOK, Entries
  <2>4. req'.pts # Unknown
    BY <2>1, <1>2 DEF GetDifference, Known, Entries
  <2>3. todo \subseteq Update
    BY DEF TypeOK, Update
  <2> QED BY <2>1, <2>2, <2>3, <2>4 DEF TypeOK, box, gap, scan, server, lasting, ghosts
<1> QED BY <1>1, <1>2

LEMMA SetStateType ==
  ASSUME TypeOK, req.pts # Unknown, NEW p \in Nat, NEW q \in Nat, NEW s \in 0..MaxSeq,
         SetState(p, q, s)
  PROVE  /\ map' \in [Entries -> Nat \cup {Unknown}] /\ left' \in [Entries -> 0..T]
         /\ seq' \in 0..MaxSeq /\ base' \in [Entries -> Nat \cup {Unknown}]
         /\ handed' \in [Entries -> SUBSET Nat] /\ passed' \in [Entries -> SUBSET Nat]
         /\ jumped' \in [Entries -> SUBSET Nat] /\ twice' \in BOOLEAN
<1>1. req.pts \in Nat /\ ReqQts \in Nat
  BY DEF TypeOK, ReqQts
<1>2. /\ Positions(Account, "msg", req.pts, p) \subseteq Nat
      /\ Positions(Secret, "msg", ReqQts, q) \subseteq Nat
      /\ Positions(Account, "other", req.pts, p) \subseteq Nat
      /\ Positions(Secret, "other", ReqQts, q) \subseteq Nat
  BY <1>1, PositionsType
<1>a. map' \in [Entries -> Nat \cup {Unknown}]
  BY DEF SetState, TypeOK
<1>b. left' \in [Entries -> 0..T]
  <2>1. left' = [left EXCEPT ![Account] = T, ![Secret] = T]
    BY DEF SetState
  <2>2. left \in [Entries -> 0..T] /\ T \in 0..T
    BY BoundsAssumption DEF TypeOK
  <2> QED BY <2>1, <2>2
<1>3. map' \in [Entries -> Nat \cup {Unknown}] /\ left' \in [Entries -> 0..T]
      /\ seq' \in 0..MaxSeq
  BY <1>a, <1>b DEF SetState
<1> DEFINE m == Positions(Account, "msg", req.pts, p)
           n == Positions(Secret, "msg", ReqQts, q)
           o == Positions(Account, "other", req.pts, p)
           r == Positions(Secret, "other", ReqQts, q)
<1>4. CASE req.qts = Unknown
  <2>1. /\ base' = [base EXCEPT ![Secret] = 0]
        /\ handed' = [handed EXCEPT ![Account] = @ \cup m, ![Secret] = n]
        /\ passed' = [passed EXCEPT ![Account] = @ \cup o, ![Secret] = r]
        /\ jumped' = [jumped EXCEPT ![Secret] = {}]
        /\ twice' = (twice \/ m \cap handed[Account] # {})
    BY <1>4 DEF SetState
  <2> HIDE DEF m, n, o, r
  <2>2. m \subseteq Nat /\ n \subseteq Nat /\ o \subseteq Nat /\ r \subseteq Nat
    BY <1>2 DEF m, n, o, r
  <2> QED BY <1>3, <2>1, <2>2 DEF TypeOK
<1>5. CASE req.qts # Unknown
  <2>1. /\ handed' = [handed EXCEPT ![Account] = @ \cup m, ![Secret] = @ \cup n]
        /\ passed' = [passed EXCEPT ![Account] = @ \cup o, ![Secret] = @ \cup r]
        /\ twice' = (twice \/ m \cap handed[Account] # {} \/ n \cap handed[Secret] # {})
        /\ UNCHANGED <<base, jumped>>
    BY <1>5 DEF SetState
  <2> HIDE DEF m, n, o, r
  <2>2. m \subseteq Nat /\ n \subseteq Nat /\ o \subseteq Nat /\ r \subseteq Nat
    BY <1>2 DEF m, n, o, r
  <2> QED BY <1>3, <2>1, <2>2 DEF TypeOK
<1> QED BY <1>4, <1>5

LEMMA NoReqType ==
  NoReq \in [entry : Entries, pts : Nat \cup {Unknown}, qts : Nat \cup {Unknown},
            spts : Nat, sqts : Nat]
BY DEF NoReq, Entries

LEMMA ApplyDifferenceType ==
  ASSUME TypeOK, NEW final \in BOOLEAN, ApplyDifference(final) PROVE TypeOK'
<1>1. PICK p \in Boundaries(Account, req.pts, IF final THEN req.spts ELSE 0),
          q \in Boundaries(Secret, ReqQts, IF final THEN req.sqts ELSE 0),
          s \in seq..MaxSeq, X \in Batches(ChannelDeliverable) :
        /\ SetState(p, q, s)
        /\ Process(Others(Account, req.pts, p) \cup Others(Secret, ReqQts, q) \cup X,
                   IF final THEN [Socket EXCEPT !.then = "endDiff"] ELSE Socket)
  BY DEF ApplyDifference
<1>2. req.pts \in Nat /\ req.pts # Unknown /\ ReqQts \in Nat /\ s \in 0..MaxSeq
  BY DEF ApplyDifference, AwaitingDifference, TypeOK, ReqQts
<1>3. p \in Nat /\ q \in Nat
  BY <1>1, <1>2, BoundaryType DEF Entries
<1>4. Others(Account, req.pts, p) \cup Others(Secret, ReqQts, q) \cup X \subseteq Update
  BY <1>1, DeliverableType DEF Batches, Entries
<1>5. [Socket EXCEPT !.then = "endDiff"]
        \in [seq : 0..MaxSeq, then : {"return", "endDiff", "endChannel", "stopped"}, entry : Entries]
      /\ Socket
        \in [seq : 0..MaxSeq, then : {"return", "endDiff", "endChannel", "stopped"}, entry : Entries]
  BY BoundsAssumption DEF Socket, Entries
<1>6. UNCHANGED <<next_deadline, gap, getting, server, lasting>> /\ req' = NoReq
  BY DEF ApplyDifference
<1>7. SetState(p, q, s)
  BY <1>1
<1>8. pc' = "apply" /\ batch' \subseteq Update /\ todo' \subseteq Update
      /\ UNCHANGED <<touched, result>>
      /\ call' \in [seq : 0..MaxSeq, then : {"return", "endDiff", "endChannel", "stopped"},
                    entry : Entries]
  BY <1>1, <1>4, <1>5 DEF Process
<1>9. /\ map' \in [Entries -> Nat \cup {Unknown}] /\ left' \in [Entries -> 0..T]
      /\ seq' \in 0..MaxSeq /\ base' \in [Entries -> Nat \cup {Unknown}]
      /\ handed' \in [Entries -> SUBSET Nat] /\ passed' \in [Entries -> SUBSET Nat]
      /\ jumped' \in [Entries -> SUBSET Nat] /\ twice' \in BOOLEAN
  BY <1>2, <1>3, <1>7, SetStateType
<1> QED BY <1>6, <1>8, <1>9, NoReqType DEF TypeOK, gap, server, lasting

LEMMA ApplyDifferenceEmptyType == TypeOK /\ ApplyDifferenceEmpty => TypeOK'
BY NoReqType DEF ApplyDifferenceEmpty, AwaitingDifference, TypeOK, gap, scan, server,
   lasting, ghosts

LEMMA ApplyDifferenceTooLongType == TypeOK /\ ApplyDifferenceTooLong => TypeOK'
<1> SUFFICES ASSUME TypeOK, ApplyDifferenceTooLong PROVE TypeOK'
  OBVIOUS
<1>1. PICK p \in Boundaries(Account, req.pts, req.spts) :
        /\ map' = [map EXCEPT ![Account] = p]
        /\ jumped' = [jumped EXCEPT ![Account] = @ \cup (req.pts + 1)..p]
  BY DEF ApplyDifferenceTooLong
<1>2. req.pts \in Nat
  BY DEF ApplyDifferenceTooLong, AwaitingDifference, TypeOK
<1>3. p \in Nat
  BY <1>1, <1>2, BoundaryType DEF Entries
<1>a. (req.pts + 1)..p \in SUBSET Nat
  BY <1>2, <1>3
<1>b. jumped \in [Entries -> SUBSET Nat] /\ map \in [Entries -> Nat \cup {Unknown}]
  BY DEF TypeOK
<1>4. map' \in [Entries -> Nat \cup {Unknown}] /\ jumped' \in [Entries -> SUBSET Nat]
  BY <1>1, <1>3, <1>a, <1>b
<1>5. pc' = "endDiff" /\ req' = NoReq /\ todo \subseteq Update
  BY DEF ApplyDifferenceTooLong, AwaitingDifference, TypeOK
<1> QED BY <1>4, <1>5, NoReqType DEF ApplyDifferenceTooLong, TypeOK, gap, scan, server, lasting

LEMMA SocketType ==
  Socket \in [seq : 0..MaxSeq, then : {"return", "endDiff", "endChannel", "stopped"},
             entry : Entries]
BY BoundsAssumption DEF Socket, Entries

(* What is saved, whether the loop goes on or ends. *)
LEMMA StopType ==
  ASSUME TypeOK, SaveStates \/ GoOn \/ StopLoop
  PROVE  rows' \in [Channels -> Nat \cup {Unknown}]
BY DEF SaveStates, GoOn, StopLoop, SavedRows, TypeOK, Entries

LEMMA FailDifferenceType == TypeOK /\ FailDifference => TypeOK'
<1> SUFFICES ASSUME TypeOK, FailDifference PROVE TypeOK'
  OBVIOUS
<1>1. errors' \in 0..MaxErrors
  BY BoundsAssumption DEF FailDifference, TypeOK
<1>2. pc' \in {"endDiff", "idle"} /\ req' = NoReq /\ todo \subseteq Update
  BY DEF FailDifference, AwaitingDifference, TypeOK
<1>3. call' \in [seq : 0..MaxSeq, then : {"return", "endDiff", "endChannel", "stopped"},
                 entry : Entries]
  BY SocketType DEF FailDifference, Socket, TypeOK
<1> QED BY <1>1, <1>2, <1>3, NoReqType DEF FailDifference, TypeOK, box, gap, scan, server, ghosts

LEMMA EndDifferenceType == TypeOK /\ EndDifference => TypeOK'
<1> SUFFICES ASSUME TypeOK, EndDifference PROVE TypeOK'
  OBVIOUS
<1> DEFINE active == {Account, Secret} \cap getting
<1>1. CASE Die
  <2>1. UNCHANGED <<server, errors, loads, rows>>
    <3>1. rows' = rows
      BY <1>1 DEF EndDifference, Die, GoOn, StopLoop
    <3> QED BY <3>1 DEF EndDifference
  <2> QED BY <1>1, <2>1, DieType DEF TypeOK
<1>2. CASE ~Die
  <2>1. /\ getting' = getting \ active
        /\ ResetDeadlines(active, T)
        /\ GoOn \/ StopLoop
        /\ call' = Socket
        /\ UNCHANGED <<map, gap, seq, scan, req, ghosts, server, errors, loads>>
    BY <1>2 DEF EndDifference
  <2>2. left' \in [Entries -> 0..T] /\ next_deadline' \in Entries
    BY <2>1, ResetType, BoundsAssumption DEF TypeOK
  <2>3. todo \subseteq Update
    BY DEF EndDifference, TypeOK
  <2>4. pc' \in {"idle", "stopped"} /\ rows' \in [Channels -> Nat \cup {Unknown}]
    BY <2>1, StopType DEF GoOn, StopLoop
  <2> QED BY <2>1, <2>2, <2>3, <2>4, SocketType DEF TypeOK, gap, scan, server, ghosts
<1> QED BY <1>1, <1>2

LEMMA GiveUpChannelType == TypeOK /\ GiveUpChannel => TypeOK'
<1> SUFFICES ASSUME TypeOK, GiveUpChannel PROVE TypeOK'
  OBVIOUS
<1>1. CASE Die
  BY <1>1, DieType DEF GiveUpChannel, TypeOK, lasting
<1>2. CASE ~Die
  <2>1. PICK c \in NoHash :
          /\ getting' = getting \ {c}
          /\ Evict(c)
          /\ UNCHANGED <<gap, seq, loop>>
    BY <1>2 DEF GiveUpChannel
  <2>2. c \in Entries
    BY EntriesAssumption DEF Entries
  <2>3. next_deadline' \in Entries
    BY <2>1, <2>2, MoveType DEF Evict
  <2>4. /\ map' \in [Entries -> Nat \cup {Unknown}] /\ left' \in [Entries -> 0..T]
        /\ base' \in [Entries -> Nat \cup {Unknown}]
        /\ handed' \in [Entries -> SUBSET Nat] /\ passed' \in [Entries -> SUBSET Nat]
        /\ jumped' \in [Entries -> SUBSET Nat] /\ twice' \in BOOLEAN
    BY <2>1, <2>2, BoundsAssumption DEF Evict, Track, TypeOK
  <2>5. UNCHANGED <<server, lasting>>
    BY DEF GiveUpChannel
  <2> QED BY <2>1, <2>3, <2>4, <2>5 DEF TypeOK, gap, loop, scan, server, lasting
<1> QED BY <1>1, <1>2

LEMMA GetChannelDifferenceType == TypeOK /\ GetChannelDifference => TypeOK'
<1> SUFFICES ASSUME TypeOK, GetChannelDifference PROVE TypeOK'
  OBVIOUS
<1>1. CASE Die
  BY <1>1, DieType DEF GetChannelDifference, TypeOK, lasting
<1>2. CASE ~Die
  <2>1. PICK c \in Channels :
          /\ WantsChannel(c) /\ c \in Known
          /\ req' = [entry |-> c, pts |-> map[c], qts |-> Unknown,
                     spts |-> spts[c], sqts |-> 0]
          /\ pc' = "wait"
          /\ UNCHANGED <<box, scan, call, ghosts, server, lasting>>
    BY <1>2 DEF GetChannelDifference
  <2>2. c \in Entries
    BY DEF Entries
  <2>3. /\ req' \in [entry : Entries, pts : Nat \cup {Unknown}, qts : Nat \cup {Unknown},
                     spts : Nat, sqts : Nat]
        /\ req'.pts # Unknown
    BY <2>1, <2>2, BoundsAssumption DEF TypeOK, Known
  <2>4. todo \subseteq Update
    BY <2>1 DEF TypeOK, WantsChannel
  <2> QED BY <2>1, <2>3, <2>4 DEF TypeOK, box, gap, scan, server, lasting, ghosts
<1> QED BY <1>1, <1>2

(* Clearing a gap. *)
LEMMA ClearGapType ==
  ASSUME TypeOK, NEW c \in Entries, gaps' = [gaps EXCEPT ![c] = {}],
         gapLeft' = [gapLeft EXCEPT ![c] = 0]
  PROVE  gaps' \in [Entries -> SUBSET PtsUpdate] /\ gapLeft' \in [Entries -> 0..G]
BY BoundsAssumption DEF TypeOK

LEMMA AwaitingChannelType ==
  ASSUME TypeOK, AwaitingChannel
  PROVE  /\ req.entry \in Entries /\ req.entry \in Channels
         /\ req.pts \in Nat /\ todo \subseteq Update
BY DEF AwaitingChannel, TypeOK

LEMMA ApplyChannelEmptyType == TypeOK /\ ApplyChannelEmpty => TypeOK'
<1> SUFFICES ASSUME TypeOK, ApplyChannelEmpty PROVE TypeOK'
  OBVIOUS
<1> DEFINE c == req.entry
<1>0. c \in Entries /\ req.pts \in Nat /\ todo \subseteq Update
  BY AwaitingChannelType DEF ApplyChannelEmpty
<1>1. CASE Die
  BY <1>1, DieType DEF ApplyChannelEmpty, TypeOK, lasting
<1>2. CASE ~Die
  <2>1. /\ gaps' = [gaps EXCEPT ![c] = {}]
        /\ gapLeft' = [gapLeft EXCEPT ![c] = 0]
        /\ EndGetDiff(c)
        /\ map' = [map EXCEPT ![c] = req.pts]
        /\ pc' = "idle"
        /\ req' = NoReq
        /\ UNCHANGED <<seq, scan, call, ghosts, server, lasting>>
    BY <1>2 DEF ApplyChannelEmpty
  <2>2. left' \in [Entries -> 0..T] /\ next_deadline' \in Entries
        /\ getting' \subseteq Entries
    BY <1>0, <2>1, EndGetDiffType
  <2>3. map' \in [Entries -> Nat \cup {Unknown}]
    BY <1>0, <2>1 DEF TypeOK
  <2>4. gaps' \in [Entries -> SUBSET PtsUpdate] /\ gapLeft' \in [Entries -> 0..G]
    BY <1>0, <2>1, ClearGapType
  <2> QED BY <1>0, <2>1, <2>2, <2>3, <2>4, NoReqType DEF TypeOK, scan, server, lasting, ghosts
<1> QED BY <1>1, <1>2

LEMMA ApplyChannelTooLongType == TypeOK /\ ApplyChannelTooLong => TypeOK'
<1> SUFFICES ASSUME TypeOK, ApplyChannelTooLong PROVE TypeOK'
  OBVIOUS
<1> DEFINE c == req.entry
<1>0. c \in Entries /\ req.pts \in Nat /\ todo \subseteq Update
  BY AwaitingChannelType DEF ApplyChannelTooLong
<1>1. CASE Die
  BY <1>1, DieType DEF ApplyChannelTooLong, TypeOK, lasting
<1>2. CASE ~Die
  <2>1. PICK p \in Boundaries(c, req.pts, req.spts), t \in 1..T :
          /\ gaps' = [gaps EXCEPT ![c] = {}]
          /\ gapLeft' = [gapLeft EXCEPT ![c] = 0]
          /\ map' = [map EXCEPT ![c] = p]
          /\ ResetDeadlines({c}, t)
          /\ jumped' = [jumped EXCEPT ![c] = @ \cup (req.pts + 1)..p]
          /\ pc' = "idle"
          /\ req' = NoReq
          /\ UNCHANGED <<getting, seq, scan, call, base, handed, passed, twice>>
    BY <1>2 DEF ApplyChannelTooLong
  <2>2. t \in 0..T /\ {c} \in SUBSET Entries
    BY <1>0, BoundsAssumption
  <2>3. left' \in [Entries -> 0..T] /\ next_deadline' \in Entries
    BY <2>1, <2>2, ResetType
  <2>4. p \in Nat
    BY <1>0, <2>1, BoundaryType
  <2>5. (req.pts + 1)..p \in SUBSET Nat
    BY <1>0, <2>4
  <2>6. jumped \in [Entries -> SUBSET Nat] /\ map \in [Entries -> Nat \cup {Unknown}]
    BY DEF TypeOK
  <2>7. map' \in [Entries -> Nat \cup {Unknown}] /\ jumped' \in [Entries -> SUBSET Nat]
    BY <2>1, <2>4, <2>5, <2>6
  <2>8. gaps' \in [Entries -> SUBSET PtsUpdate] /\ gapLeft' \in [Entries -> 0..G]
    BY <1>0, <2>1, ClearGapType
  <2>9. UNCHANGED <<server, lasting>>
    BY DEF ApplyChannelTooLong
  <2> QED BY <1>0, <2>1, <2>3, <2>7, <2>8, <2>9, NoReqType DEF TypeOK, scan, server, lasting
<1> QED BY <1>1, <1>2

LEMMA ApplyChannelType ==
  ASSUME TypeOK, NEW final \in BOOLEAN, ApplyChannel(final) PROVE TypeOK'
<1> DEFINE c == req.entry
<1>0. c \in Entries /\ req.pts \in Nat /\ todo \subseteq Update
  BY AwaitingChannelType DEF ApplyChannel
<1>1. CASE Die
  BY <1>1, DieType DEF ApplyChannel, TypeOK, lasting
<1>2. CASE ~Die
  <2> DEFINE K == [Socket EXCEPT !.then = "endChannel", !.entry = c]
  <2>1. PICK p \in Boundaries(c, req.pts, IF final THEN req.spts ELSE 0) :
          /\ gaps' = [gaps EXCEPT ![c] = {}]
          /\ gapLeft' = [gapLeft EXCEPT ![c] = 0]
          /\ IF final THEN EndGetDiff(c)
                      ELSE UNCHANGED <<getting, left, next_deadline>>
          /\ map' = [map EXCEPT ![c] = p]
          /\ Hand(c, Positions(c, "msg", req.pts, p))
          /\ passed' = [passed EXCEPT ![c] = @ \cup Positions(c, "other", req.pts, p)]
          /\ Process(Others(c, req.pts, p), K)
          /\ req' = NoReq
          /\ UNCHANGED <<seq, base, jumped>>
    BY <1>2 DEF ApplyChannel
  <2>2. p \in Nat
    BY <1>0, <2>1, BoundaryType
  <2>3. left' \in [Entries -> 0..T] /\ next_deadline' \in Entries
        /\ getting' \subseteq Entries
    <3>1. CASE final
      BY <1>0, <2>1, <3>1, EndGetDiffType
    <3>2. CASE ~final
      BY <2>1, <3>2 DEF TypeOK
    <3> QED BY <3>1, <3>2
  <2>4. /\ Positions(c, "msg", req.pts, p) \in SUBSET Nat
        /\ Positions(c, "other", req.pts, p) \in SUBSET Nat
    BY <1>0, <2>2, PositionsType
  <2>5. handed' \in [Entries -> SUBSET Nat] /\ twice' \in BOOLEAN
    BY <2>1, <2>4 DEF Hand, TypeOK
  <2>6. passed' \in [Entries -> SUBSET Nat]
    BY <2>1, <2>4 DEF TypeOK
  <2>7. map' \in [Entries -> Nat \cup {Unknown}]
    BY <2>1, <2>2 DEF TypeOK
  <2>8. gaps' \in [Entries -> SUBSET PtsUpdate] /\ gapLeft' \in [Entries -> 0..G]
    BY <1>0, <2>1, ClearGapType
  <2>9. K \in [seq : 0..MaxSeq, then : {"return", "endDiff", "endChannel", "stopped"},
               entry : Entries]
    BY <1>0, SocketType DEF Socket
  <2>10. Others(c, req.pts, p) \subseteq Update
    BY <1>0, DeliverableType
  <2>11. /\ pc' = "apply" /\ batch' \subseteq Update /\ todo' \subseteq Update
         /\ UNCHANGED <<touched, result>>
         /\ call' \in [seq : 0..MaxSeq, then : {"return", "endDiff", "endChannel", "stopped"},
                       entry : Entries]
    BY <2>1, <2>9, <2>10 DEF Process
  <2>12. UNCHANGED <<server, lasting>>
    BY DEF ApplyChannel
  <2> QED BY <2>1, <2>3, <2>5, <2>6, <2>7, <2>8, <2>11, <2>12, NoReqType
          DEF TypeOK, server, lasting
<1> QED BY <1>1, <1>2

LEMMA EndChannelType == TypeOK /\ EndChannel => TypeOK'
<1> SUFFICES ASSUME TypeOK, EndChannel PROVE TypeOK'
  OBVIOUS
<1>1. CASE Die
  BY <1>1, DieType DEF EndChannel, TypeOK, lasting
<1>2. CASE ~Die
  <2>1. /\ ResetDeadlines({call.entry}, T)
        /\ pc' = "idle"
        /\ call' = Socket
        /\ UNCHANGED <<map, gap, getting, seq, scan, req, ghosts, server, lasting>>
    BY <1>2 DEF EndChannel
  <2>2. left' \in [Entries -> 0..T] /\ next_deadline' \in Entries
    BY <2>1, ResetType, BoundsAssumption DEF TypeOK
  <2>3. todo \subseteq Update
    BY DEF EndChannel, TypeOK
  <2> QED BY <2>1, <2>2, <2>3, SocketType DEF TypeOK, gap, scan, server, lasting, ghosts
<1> QED BY <1>1, <1>2

LEMMA FailChannelType == TypeOK /\ FailChannel => TypeOK'
<1> SUFFICES ASSUME TypeOK, FailChannel PROVE TypeOK'
  OBVIOUS
<1> DEFINE c == req.entry
<1>0. c \in Entries /\ todo \subseteq Update
  BY AwaitingChannelType DEF FailChannel
<1>1. errors' \in 0..MaxErrors /\ UNCHANGED <<loads, server>>
  BY BoundsAssumption DEF FailChannel, TypeOK
<1>2. CASE Die /\ UNCHANGED rows
  BY <1>1, <1>2, DieType
<1>3. CASE pc' = "idle" /\ req' = NoReq /\ UNCHANGED <<box, scan, call, rows, ghosts>>
  BY <1>0, <1>1, <1>3, NoReqType DEF TypeOK, box, gap, scan, server, ghosts
<1>4. CASE /\ gaps' = [gaps EXCEPT ![c] = {}]
           /\ gapLeft' = [gapLeft EXCEPT ![c] = 0]
           /\ getting' = getting \ {c}
           /\ \/ ResetDeadlines({c}, T) /\ (GoOn \/ StopLoop) /\ UNCHANGED <<map, ghosts>>
              \/ Evict(c) /\ GoOn
           /\ req' = NoReq
           /\ UNCHANGED <<seq, scan, call>>
  <2>1. gaps' \in [Entries -> SUBSET PtsUpdate] /\ gapLeft' \in [Entries -> 0..G]
    BY <1>0, <1>4, ClearGapType
  <2>2. /\ left' \in [Entries -> 0..T] /\ next_deadline' \in Entries
        /\ map' \in [Entries -> Nat \cup {Unknown}]
        /\ base' \in [Entries -> Nat \cup {Unknown}]
        /\ handed' \in [Entries -> SUBSET Nat] /\ passed' \in [Entries -> SUBSET Nat]
        /\ jumped' \in [Entries -> SUBSET Nat] /\ twice' \in BOOLEAN
    <3>1. CASE ResetDeadlines({c}, T) /\ UNCHANGED <<map, ghosts>>
      <4>1. EndGetDiff(c)
        BY <1>4, <3>1 DEF EndGetDiff
      <4> QED BY <1>0, <3>1, <4>1, EndGetDiffType DEF TypeOK, ghosts
    <3>2. CASE Evict(c)
      <4>1. next_deadline' \in Entries
        BY <1>0, <3>2, MoveType DEF Evict
      <4> QED BY <1>0, <3>2, <4>1, BoundsAssumption DEF Evict, Track, TypeOK
    <3> QED BY <1>4, <3>1, <3>2
  <2>3. pc' \in {"idle", "stopped"} /\ rows' \in [Channels -> Nat \cup {Unknown}]
    BY <1>4, StopType DEF GoOn, StopLoop
  <2> QED BY <1>0, <1>1, <1>4, <2>1, <2>2, <2>3, NoReqType DEF TypeOK, scan, server
<1> QED BY <1>2, <1>3, <1>4 DEF FailChannel

LEMMA TrySetChannelStateType == TypeOK /\ TrySetChannelState => TypeOK'
<1> SUFFICES ASSUME TypeOK, TrySetChannelState PROVE TypeOK'
  OBVIOUS
<1>0. PICK c \in Channels \ Known : \E p \in Boundaries(c, 1, 0) :
        /\ map' = [map EXCEPT ![c] = p]
        /\ left' = [left EXCEPT ![c] = T]
        /\ Track(c, p, {})
  BY DEF TrySetChannelState
<1>1. PICK p \in Boundaries(c, 1, 0) :
        /\ map' = [map EXCEPT ![c] = p]
        /\ left' = [left EXCEPT ![c] = T]
        /\ Track(c, p, {})
  BY <1>0
<1>2. p \in Nat
  BY <1>1, BoundaryType DEF Entries
<1>3. map' \in [Entries -> Nat \cup {Unknown}]
  BY <1>1, <1>2 DEF TypeOK
<1>4. left' \in [Entries -> 0..T]
  <2>1. left \in [Entries -> 0..T] /\ T \in 0..T
    BY BoundsAssumption DEF TypeOK
  <2> QED BY <1>1, <2>1
<1>5. /\ base' \in [Entries -> Nat \cup {Unknown}]
      /\ handed' \in [Entries -> SUBSET Nat] /\ passed' \in [Entries -> SUBSET Nat]
      /\ jumped' \in [Entries -> SUBSET Nat] /\ twice' \in BOOLEAN
  BY <1>1, <1>2 DEF Track, TypeOK
<1> QED BY <1>3, <1>4, <1>5 DEF TrySetChannelState, TypeOK, gap, loop, scan, server, lasting

LEMMA LoadType == TypeOK /\ Load => TypeOK'
<1> SUFFICES ASSUME TypeOK, Load PROVE TypeOK'
  OBVIOUS
<1>0. SavedRows \in [Channels -> Nat \cup {Unknown}]
  BY DEF SavedRows, TypeOK, Entries
<1>1. map' \in [Entries -> Nat \cup {Unknown}] /\ base' = map'
      /\ rows' \in [Channels -> Nat \cup {Unknown}]
  BY <1>0 DEF Load, TypeOK
<1>2. left' \in [Entries -> 0..T] /\ loads' \in 0..MaxLoads /\ next_deadline' \in Entries
  BY BoundsAssumption DEF Load, TypeOK, Entries
<1>3. pc' = "idle" /\ todo \subseteq Update
  BY DEF Load, Suspended, TypeOK
<1> QED BY <1>1, <1>2, <1>3, NoReqType DEF Load, TypeOK, gap, scan, server

LEMMA SaveType == TypeOK /\ (Save \/ Reconnect) => TypeOK'
<1> SUFFICES ASSUME TypeOK, Save \/ Reconnect PROVE TypeOK'
  OBVIOUS
<1>1. rows' \in [Channels -> Nat \cup {Unknown}]
  BY StopType DEF Save, Reconnect, lasting, TypeOK
<1>2. pc' = "idle" \/ UNCHANGED pc
  BY DEF Save, Reconnect, loop
<1>3. todo \subseteq Update
  BY DEF TypeOK, Update
<1> QED BY <1>1, <1>2, <1>3
        DEF Save, Reconnect, TypeOK, box, gap, loop, scan, server, lasting, ghosts

LEMMA EmitType == TypeOK /\ Emit => TypeOK'
<1> SUFFICES ASSUME TypeOK, Emit PROVE TypeOK'
  OBVIOUS
<1>0. PICK e \in Talking, k \in Kinds :
        \E n \in IF k = "msg" THEN {1} ELSE Counts :
          LET u == [kind |-> k, entry |-> e, pts |-> spts[e] + n, count |-> n]
          IN  /\ u.pts \in 1..MaxPts
              /\ e = Secret => n = 1
              /\ u \notin log[e]
              /\ log' = [log EXCEPT ![e] = @ \cup {u}]
              /\ spts' = [spts EXCEPT ![e] = u.pts]
  BY DEF Emit
<1>1. PICK n \in IF k = "msg" THEN {1} ELSE Counts :
        LET u == [kind |-> k, entry |-> e, pts |-> spts[e] + n, count |-> n]
        IN  /\ u.pts \in 1..MaxPts
            /\ log' = [log EXCEPT ![e] = @ \cup {u}]
            /\ spts' = [spts EXCEPT ![e] = u.pts]
  BY <1>0, Zenon
<1> DEFINE u == [kind |-> k, entry |-> e, pts |-> spts[e] + n, count |-> n]
<1>2. e \in Entries /\ k \in {"msg", "other"} /\ n \in Nat /\ spts[e] \in Nat
  BY BoundsAssumption DEF TypeOK
<1>3. u.pts \in 1..MaxPts /\ u \in PtsUpdate
  BY <1>1, <1>2, BoundsAssumption DEF PtsUpdate
<1>4. log' \in [Entries -> SUBSET PtsUpdate] /\ spts' \in [Entries -> 0..MaxPts]
  BY <1>1, <1>2, <1>3, BoundsAssumption DEF TypeOK
<1> QED BY <1>4 DEF Emit, TypeOK, box, gap, loop, scan, lasting, ghosts

LEMMA TickType == TypeOK /\ Tick => TypeOK'
<1> SUFFICES ASSUME TypeOK, Tick PROVE TypeOK'
  OBVIOUS
<1>1. left' \in [Entries -> 0..T] /\ gapLeft' \in [Entries -> 0..G]
  BY BoundsAssumption DEF Tick, TypeOK, Down
<1> QED BY <1>1 DEF Tick, TypeOK, loop, scan, server, lasting, ghosts

LEMMA NextType == TypeOK /\ [Next]_vars => TypeOK'
<1> SUFFICES ASSUME TypeOK, [Next]_vars PROVE TypeOK'
  OBVIOUS
<1>1. CASE UNCHANGED vars
  BY <1>1 DEF TypeOK, vars, box, gap, loop, scan, server, lasting, ghosts
<1>2. CASE Loop
  BY <1>2, ApplyNewType, EndOfPassType, RetryGapType, EndOfRetryType, CheckDeadlinesType,
     GetDifferenceType, EndDifferenceType, GetChannelDifferenceType, GiveUpChannelType,
     EndChannelType DEF Loop
<1>3. CASE Reply
  BY <1>3, ApplyDifferenceType, ApplyDifferenceEmptyType, ApplyDifferenceTooLongType,
     ApplyChannelType, ApplyChannelEmptyType, ApplyChannelTooLongType DEF Reply
<1>4. CASE ApplyDifference(FALSE) \/ ApplyChannel(FALSE) \/ FailDifference \/ FailChannel
  BY <1>4, ApplyDifferenceType, ApplyChannelType, FailDifferenceType, FailChannelType
<1>5. CASE \/ Receive \/ ReceiveGap \/ TrySetChannelState \/ Save \/ Load \/ Reconnect
           \/ Emit \/ Tick
  BY <1>5, ReceiveType, ReceiveGapType, TrySetChannelStateType, SaveType, LoadType, EmitType,
     TickType
<1> QED BY <1>1, <1>2, <1>3, <1>4, <1>5 DEF Next

(* Every variable of the update state machine keeps its type, whatever the *)
(* server sends and however the requests of the update loop end.           *)
THEOREM TypeCorrect == Spec => []TypeOK
BY InitType, NextType, PTL DEF Spec

=============================================================================
