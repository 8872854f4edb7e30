-------------------------- MODULE MessageBoxSafety --------------------------
(***************************************************************************)
(* Unless the client disconnects and reconnects with catch_up in one life  *)
(* (Load), no exception of the message box is reachable, whatever the      *)
(* server sends, in whatever order, and however the requests end.          *)
(***************************************************************************)
EXTENDS MessageBoxProofs

Fetching2 == {Account, Secret} \cap getting # {}

(* What the place of the update loop says about what is being fetched. *)
LoopInv ==
  /\ pc = "wait" /\ req.entry = Account => Fetching2
  /\ pc = "wait" /\ req.entry # Account => req.entry \in getting
  /\ pc = "endDiff" => Fetching2
  /\ pc = "endChannel" => call.entry \in Known
  /\ pc \in {"apply", "retry"} /\ call.then = "endDiff" => Fetching2
  /\ pc \in {"apply", "retry"} /\ call.then = "endChannel" => call.entry \in Known

(* The inductive invariant. *)
SafeInv ==
  /\ TypeOK
  /\ NoFatal
  /\ loads = 0
  /\ Account \in Known
  /\ next_deadline \in Known
  /\ Consistent
  /\ LoopInv

LEMMA InitSafe == Init => SafeInv
<1> SUFFICES ASSUME Init PROVE SafeInv
  OBVIOUS
<1>1. TypeOK
  BY InitType
<1>2. Account \in Known /\ next_deadline = Account
  BY DEF Init, Known, Entries, Unknown
<1>3. Consistent /\ LoopInv
  BY DEF Init, Consistent, LoopInv
<1> QED BY <1>1, <1>2, <1>3 DEF Init, SafeInv, NoFatal

(* The step lemmas assume the invariant, and the type correctness of the   *)
(* next state, which NextType provides.                                    *)
LEMMA ApplyPtsInfoSafe ==
  ASSUME SafeInv, NEW u \in PtsUpdate, NEW rest \in [Entries -> SUBSET PtsUpdate],
         \A e \in Entries : rest[e] \subseteq gaps[e],
         ApplyPtsInfo(u, rest), UNCHANGED getting
  PROVE  Known \subseteq Known' /\ Consistent'
<1> USE DEF SafeInv
<1>0. u.entry \in Entries /\ u.pts \in Nat /\ FirstPts(u) \in Nat
  BY CoverType
<1>1. map \in [Entries -> Nat \cup {Unknown}] /\ gaps \in [Entries -> SUBSET PtsUpdate]
  BY DEF TypeOK
<1>2. CASE (Fetching(u) \/ Handled(u)) /\ gaps' = rest
           /\ UNCHANGED <<map, left, gapLeft, result, ghosts>>
  BY <1>1, <1>2 DEF Known, Consistent
<1>3. CASE Early(u) /\ Stash(u, rest) /\ UNCHANGED <<map, left, result, ghosts>>
  <2>1. Known' = Known /\ u.entry \in Known \ getting
    BY <1>3 DEF Known, Early
  <2>2. \A e \in Entries : gaps'[e] = IF e = u.entry THEN rest[e] \cup {u} ELSE rest[e]
    BY <1>0, <1>3 DEF Stash
  <2>3. \A e \in Entries : gaps'[e] # {} => e \in Known' \ getting'
    BY <2>1, <2>2 DEF Consistent
  <2>4. ASSUME NEW e \in Entries, NEW v \in gaps'[e] PROVE v.entry = e
    <3>1. (v = u /\ e = u.entry) \/ v \in rest[e]
      BY <2>2
    <3>2. rest[e] \subseteq gaps[e]
      OBVIOUS
    <3> QED BY <3>1, <3>2 DEF Consistent
  <2>5. getting' \subseteq Known'
    BY <2>1 DEF Consistent
  <2> QED BY <2>1, <2>3, <2>4, <2>5 DEF Consistent
<1>4. CASE ((Fits(u) /\ Apply(u)) \/ (First(u) /\ Begin(u))) /\ gaps' = rest
  <2>1. map' = [map EXCEPT ![u.entry] = u.pts] \/ map' = [map EXCEPT ![u.entry] = FirstPts(u)]
    BY <1>4 DEF Apply, Begin
  <2>2. Known \subseteq Known'
    BY <1>0, <1>1, <2>1 DEF Known, Unknown
  <2>3. \A e \in Entries : gaps'[e] \subseteq gaps[e]
    BY <1>4
  <2>4. \A e \in Entries : gaps'[e] # {} => e \in Known' \ getting'
    BY <2>2, <2>3 DEF Consistent
  <2>5. \A e \in Entries : \A v \in gaps'[e] : v.entry = e
    BY <2>3 DEF Consistent
  <2>6. getting' \subseteq Known'
    BY <2>2 DEF Consistent
  <2> QED BY <2>2, <2>4, <2>5, <2>6 DEF Consistent
<1>5. \/ (Fetching(u) \/ Handled(u)) /\ gaps' = rest
           /\ UNCHANGED <<map, left, gapLeft, result, ghosts>>
      \/ Early(u) /\ Stash(u, rest) /\ UNCHANGED <<map, left, result, ghosts>>
      \/ ((Fits(u) /\ Apply(u)) \/ (First(u) /\ Begin(u))) /\ gaps' = rest
  BY DEF ApplyPtsInfo
<1> QED BY <1>2, <1>3, <1>4, <1>5

LEMMA ApplyNewSafe ==
  ASSUME SafeInv, ApplyNew, TypeOK' PROVE SafeInv'
<1> USE DEF SafeInv
<1>1. PICK u \in todo :
        \/ /\ u.kind = "tooLong"
           /\ TryBeginGetDiff(u.entry)
           /\ UNCHANGED <<map, left, touched, result, ghosts>>
        \/ /\ u.kind = "plain"
           /\ result' = TRUE
           /\ UNCHANGED <<map, left, gap, getting, touched, ghosts>>
        \/ /\ HasPts(u)
           /\ Touch(u)
           /\ ApplyPtsInfo(u, gaps)
           /\ UNCHANGED getting
  BY DEF ApplyNew
<1>2. UNCHANGED <<next_deadline, seq, pc, batch, call, req, server, lasting>>
      /\ pc = "apply" /\ u \in Update
  BY DEF ApplyNew, TypeOK
<1>3. Known \subseteq Known' /\ getting \subseteq getting' /\ Consistent'
  <2>1. CASE u.kind = "tooLong"
    <3>1. TryBeginGetDiff(u.entry) /\ UNCHANGED map
      BY <1>1, <2>1 DEF HasPts
    <3>2. gaps \in [Entries -> SUBSET PtsUpdate]
      BY DEF TypeOK
    <3> QED BY <3>1, <3>2 DEF TryBeginGetDiff, Known, Consistent, gap
  <2>2. CASE u.kind = "plain"
    BY <1>1, <2>2 DEF HasPts, gap, Known, Consistent
  <2>3. CASE HasPts(u)
    <3>1. u \in PtsUpdate
      BY <1>2, <2>3 DEF Update, HasPts, TooLongMark, Plain
    <3>2. gaps \in [Entries -> SUBSET PtsUpdate]
      BY DEF TypeOK
    <3>3. ApplyPtsInfo(u, gaps) /\ UNCHANGED getting
      BY <1>1, <2>3 DEF HasPts
    <3> QED BY <3>1, <3>2, <3>3, ApplyPtsInfoSafe
  <2> QED BY <1>1, <2>1, <2>2, <2>3
<1>4. LoopInv'
  BY <1>2, <1>3 DEF LoopInv, Fetching2
<1> QED BY <1>2, <1>3, <1>4 DEF NoFatal, lasting

(* The end of process_updates goes on where its caller wants. *)
LEMMA ReturnSafe ==
  ASSUME SafeInv, Return, pc \in {"apply", "retry"}, UNCHANGED <<map, getting, req>>
  PROVE  LoopInv' /\ NoFatal'
<1> USE DEF SafeInv
<1>1. call.then \in {"return", "endDiff", "endChannel", "stopped"}
  BY DEF TypeOK
<1>2. CASE call.then = "return"
  BY <1>2 DEF Return, LoopInv, NoFatal
<1>3. CASE call.then # "return"
  BY <1>1, <1>3 DEF Return, LoopInv, NoFatal, Fetching2, Known
<1> QED BY <1>2, <1>3

(* Wherever the deadlines are reset, next_deadline stays a known entry. *)
LEMMA MoveSafe ==
  ASSUME SafeInv, NEW S, NEW t, MoveNextDeadline(S, t), S \subseteq Known \/ t = T
  PROVE  next_deadline' \in Known
<1>1. left[next_deadline] <= T /\ left[next_deadline] \in Nat
  BY BoundsAssumption DEF SafeInv, TypeOK
<1> QED BY <1>1, BoundsAssumption DEF SafeInv, MoveNextDeadline

(* Forgetting c leaves next_deadline on another entry: c has the latest     *)
(* deadline, and the account has none later.                                *)
LEMMA EvictSafe ==
  ASSUME SafeInv, NEW c \in Channels, c \in Known, Evict(c)
  PROVE  next_deadline' \in Known \ {c} /\ Known' = Known \ {c}
<1> USE DEF SafeInv
<1> DEFINE lf == Reset({c}, T)
           first == {k \in Known : \A j \in Known : lf[k] <= lf[j]}
<1>1. Account # c /\ c \in Entries
  BY EntriesAssumption DEF Entries
<1>2. lf \in [Entries -> 0..T] /\ lf[c] = T
  BY <1>1, BoundsAssumption DEF TypeOK, Reset
<1>3. c \in first => Account \in first
  <2>1. SUFFICES ASSUME c \in first PROVE Account \in first
    OBVIOUS
  <2>2. \A j \in Known : lf[j] = T
    BY <1>2, <2>1, BoundsAssumption DEF Known
  <2> QED BY <2>2, BoundsAssumption
<1>4. next_deadline' \in Known \ {c}
  <2>1. MoveNextDeadline({c}, T)
    BY DEF Evict
  <2>2. CASE next_deadline = c
    <3>1. next_deadline' \in IF first \ {c} # {} THEN first \ {c} ELSE first
      BY <2>1, <2>2 DEF MoveNextDeadline
    <3> QED BY <1>1, <1>3, <3>1
  <2>3. CASE next_deadline # c
    <3>1. ~(T < left[next_deadline])
      BY BoundsAssumption DEF TypeOK
    <3> QED BY <2>1, <2>3, <3>1 DEF MoveNextDeadline
  <2> QED BY <2>2, <2>3
<1>5. Known' = Known \ {c}
  BY <1>1 DEF Evict, Known, TypeOK
<1> QED BY <1>4, <1>5

LEMMA EndOfPassSafe ==
  ASSUME SafeInv, EndOfPass, TypeOK' PROVE SafeInv'
<1> USE DEF SafeInv
<1>1. /\ ResetDeadlines(touched, T) /\ pc = "apply"
      /\ UNCHANGED <<map, gap, getting, req, server, lasting, ghosts>>
  BY DEF EndOfPass
<1>2. Known' = Known /\ next_deadline' \in Known
  BY <1>1, MoveSafe DEF ResetDeadlines, Known
<1>3. Consistent'
  BY <1>1, <1>2 DEF Consistent, gap
<1>4. LoopInv' /\ NoFatal'
  <2>1. CASE pc' = "retry" /\ UNCHANGED call
    BY <1>1, <1>2, <2>1 DEF LoopInv, NoFatal, Fetching2
  <2>2. CASE Return
    BY <1>1, <2>2, ReturnSafe
  <2> QED BY <2>1, <2>2 DEF EndOfPass
<1> QED BY <1>1, <1>2, <1>3, <1>4 DEF lasting

LEMMA RetryGapSafe ==
  ASSUME SafeInv, RetryGap, TypeOK' PROVE SafeInv'
<1> USE DEF SafeInv
<1>1. PICK u \in todo : ApplyPtsInfo(u, [gaps EXCEPT ![u.entry] = @ \ {u}])
  BY DEF RetryGap
<1>2. /\ UNCHANGED <<next_deadline, getting, seq, pc, batch, touched, call, req,
                    server, lasting>>
      /\ pc = "retry" /\ u \in PtsUpdate
  BY DEF RetryGap, TypeOK
<1> DEFINE rest == [gaps EXCEPT ![u.entry] = @ \ {u}]
<1>3. rest \in [Entries -> SUBSET PtsUpdate] /\ \A e \in Entries : rest[e] \subseteq gaps[e]
  BY DEF TypeOK
<1>4. Known \subseteq Known' /\ Consistent'
  BY <1>1, <1>2, <1>3, ApplyPtsInfoSafe
<1>5. LoopInv'
  BY <1>2, <1>4 DEF LoopInv, Fetching2
<1> QED BY <1>2, <1>4, <1>5 DEF NoFatal, lasting

LEMMA EndOfRetrySafe ==
  ASSUME SafeInv, EndOfRetry, TypeOK' PROVE SafeInv'
<1> USE DEF SafeInv
<1>1. /\ Return /\ pc = "retry"
      /\ UNCHANGED <<map, left, next_deadline, gaps, getting, req, server, lasting, ghosts>>
  BY DEF EndOfRetry
<1>2. Known' = Known /\ Consistent'
  BY <1>1 DEF Known, Consistent
<1> QED BY <1>1, <1>2, ReturnSafe DEF lasting

LEMMA SocketSafe ==
  ASSUME SafeInv, Receive \/ ReceiveGap \/ CheckDeadlines, TypeOK' PROVE SafeInv'
<1> USE DEF SafeInv
<1>1. CASE Receive
  <2>1. pc' = "apply" /\ call'.then = "return" /\ UNCHANGED <<box, req, lasting>>
    BY <1>1 DEF Receive, Process, Socket
  <2> QED BY <2>1 DEF box, gap, Known, Consistent, LoopInv, NoFatal, lasting
<1>2. CASE ReceiveGap
  <2>1. /\ TryBeginGetDiff(Account) /\ pc = "idle"
        /\ UNCHANGED <<map, next_deadline, loop, lasting>>
    BY <1>2 DEF ReceiveGap, Listening
  <2>2. gaps \in [Entries -> SUBSET PtsUpdate]
    BY DEF TypeOK
  <2>3. Known' = Known /\ Consistent'
    BY <2>1, <2>2 DEF TryBeginGetDiff, Known, Consistent
  <2> QED BY <2>1, <2>3 DEF LoopInv, NoFatal, loop, lasting
<1>3. CASE CheckDeadlines
  <2>1. /\ getting' \subseteq {e \in Entries : gaps[e] # {}} \cup Known
        /\ gaps' = [e \in Entries |-> IF e \in getting' THEN {} ELSE gaps[e]]
        /\ pc = "idle" /\ UNCHANGED <<map, next_deadline, loop, lasting>>
    BY <1>3 DEF CheckDeadlines
  <2>2. Known' = Known /\ Consistent'
    BY <2>1 DEF Known, Consistent
  <2> QED BY <2>1, <2>2 DEF LoopInv, NoFatal, loop, lasting
<1> QED BY <1>1, <1>2, <1>3

LEMMA DifferenceSafe ==
  ASSUME SafeInv, TypeOK',
         GetDifference \/ ApplyDifferenceEmpty \/ ApplyDifferenceTooLong \/ FailDifference
  PROVE  SafeInv'
<1> USE DEF SafeInv
<1>1. CASE GetDifference
  <2>1. Account \notin getting => Secret \in Known
    BY <1>1 DEF GetDifference, WantsDifference, Consistent
  <2>2. pc' = "wait" /\ req'.entry = Account /\ UNCHANGED <<box, lasting>>
    BY <1>1, <2>1 DEF GetDifference
  <2>3. Fetching2
    BY <1>1 DEF GetDifference, WantsDifference, Fetching2
  <2> QED BY <2>2, <2>3 DEF box, gap, lasting, Known, Consistent, LoopInv, NoFatal, Fetching2
<1>2. CASE ApplyDifferenceEmpty
  <2>1. pc' = "endDiff" /\ Fetching2 /\ UNCHANGED <<map, next_deadline, gap, getting, lasting>>
    BY <1>2 DEF ApplyDifferenceEmpty, AwaitingDifference, LoopInv
  <2> QED BY <2>1 DEF gap, lasting, Known, Consistent, LoopInv, NoFatal, Fetching2
<1>3. CASE ApplyDifferenceTooLong
  <2>1. pc' = "endDiff" /\ Fetching2 /\ UNCHANGED <<next_deadline, gap, getting, lasting>>
    BY <1>3 DEF ApplyDifferenceTooLong, AwaitingDifference, LoopInv
  <2>2. \E p : map' = [map EXCEPT ![Account] = p]
    BY <1>3 DEF ApplyDifferenceTooLong
  <2>3. Account \in Known'
    <3>1. PICK p \in Boundaries(Account, req.pts, req.spts) : map' = [map EXCEPT ![Account] = p]
      BY <1>3 DEF ApplyDifferenceTooLong
    <3>2. p \in Nat
      <4>1. req.pts \in Nat
        BY <1>3 DEF ApplyDifferenceTooLong, AwaitingDifference, TypeOK
      <4> QED BY <4>1, BoundaryType DEF Entries
    <3> QED BY <3>1, <3>2 DEF Known, TypeOK, Entries, Unknown
  <2>4. Known' = Known
    BY <2>2, <2>3 DEF Known, TypeOK
  <2> QED BY <2>1, <2>4 DEF gap, lasting, Consistent, LoopInv, NoFatal, Fetching2
<1>4. CASE FailDifference
  <2>1. pc' \in {"endDiff", "idle"} /\ Fetching2 /\ UNCHANGED <<box, loads>>
    BY <1>4 DEF FailDifference, AwaitingDifference, LoopInv
  <2> QED BY <2>1 DEF box, gap, Known, Consistent, LoopInv, NoFatal, Fetching2
<1> QED BY <1>1, <1>2, <1>3, <1>4

LEMMA ApplyDifferenceSafe ==
  ASSUME SafeInv, NEW final \in BOOLEAN, ApplyDifference(final), TypeOK' PROVE SafeInv'
<1> USE DEF SafeInv
<1>1. PICK p \in Boundaries(Account, req.pts, IF final THEN req.spts ELSE 0),
          q \in Boundaries(Secret, ReqQts, IF final THEN req.sqts ELSE 0),
          s \in seq..MaxSeq : SetState(p, q, s)
  BY DEF ApplyDifference
<1>2. pc' = "apply" /\ call'.then \in {"endDiff", "return"}
      /\ UNCHANGED <<next_deadline, gap, getting, lasting>> /\ Fetching2
  BY DEF ApplyDifference, Process, Socket, AwaitingDifference, LoopInv
<1>3. req.pts \in Nat /\ ReqQts \in Nat
  BY DEF ApplyDifference, AwaitingDifference, TypeOK, ReqQts
<1>4. p \in Nat /\ q \in Nat
  BY <1>1, <1>3, BoundaryType DEF Entries
<1>5. map' = [map EXCEPT ![Account] = p, ![Secret] = q]
  BY <1>1 DEF SetState
<1>6. Known \subseteq Known'
  BY <1>4, <1>5 DEF Known, TypeOK, Unknown
<1> QED BY <1>2, <1>6 DEF gap, lasting, Consistent, LoopInv, NoFatal, Fetching2

LEMMA EndDifferenceSafe ==
  ASSUME SafeInv, EndDifference, TypeOK' PROVE SafeInv'
<1> USE DEF SafeInv
<1> DEFINE active == {Account, Secret} \cap getting
<1>1. active # {} /\ active \subseteq Known /\ \A e \in active : gaps[e] = {}
  BY DEF EndDifference, LoopInv, Fetching2, Consistent, Known
<1>2. /\ getting' = getting \ active
      /\ ResetDeadlines(active, T)
      /\ pc' \in {"idle", "stopped"}
      /\ UNCHANGED <<map, gap, loads>>
  BY <1>1 DEF EndDifference, GoOn, StopLoop
<1>3. Known' = Known /\ next_deadline' \in Known
  BY <1>1, <1>2, MoveSafe DEF ResetDeadlines, Known
<1> QED BY <1>2, <1>3 DEF gap, Consistent, LoopInv, NoFatal

(* Forgetting a channel that was being fetched. *)
LEMMA ForgetSafe ==
  ASSUME SafeInv, NEW c \in Channels, c \in Known, Evict(c), getting' = getting \ {c},
         \A e \in Entries : gaps'[e] \subseteq gaps[e], gaps'[c] = {}
  PROVE  Account \in Known' /\ next_deadline' \in Known' /\ Consistent'
         /\ Known' = Known \ {c} /\ (Fetching2 <=> Fetching2')
<1> USE DEF SafeInv
<1>1. next_deadline' \in Known \ {c} /\ Known' = Known \ {c}
  BY EvictSafe
<1>2. Account # c /\ Secret # c
  BY EntriesAssumption
<1>3. getting' \subseteq Known'
  BY <1>1 DEF Consistent
<1>4. \A e \in Entries : gaps'[e] # {} => e \in Known' \ getting'
  BY <1>1 DEF Consistent
<1>5. \A e \in Entries : \A u \in gaps'[e] : u.entry = e
  BY DEF Consistent
<1> QED BY <1>1, <1>2, <1>3, <1>4, <1>5 DEF Consistent, Fetching2

LEMMA GiveUpChannelSafe ==
  ASSUME SafeInv, GiveUpChannel, TypeOK' PROVE SafeInv'
<1> USE DEF SafeInv
<1>1. PICK c \in NoHash :
        /\ WantsChannel(c)
        /\ IF c \in Known /\ gaps[c] = {}
           THEN /\ getting' = getting \ {c}
                /\ Evict(c)
                /\ UNCHANGED <<gap, seq, loop>>
           ELSE Die
  BY DEF GiveUpChannel
<1>2. c \in Channels /\ c \in getting /\ pc = "idle" /\ c \in Entries
  BY <1>1, EntriesAssumption DEF WantsChannel, Entries
<1>3. c \in Known /\ gaps[c] = {}
  BY <1>2 DEF Consistent
<1>4. getting' = getting \ {c} /\ Evict(c) /\ UNCHANGED <<gaps, pc, call, req, lasting>>
  BY <1>1, <1>3, GiveUpChannel DEF GiveUpChannel, gap, loop
<1>5. Account \in Known' /\ next_deadline' \in Known' /\ Consistent'
  BY <1>2, <1>3, <1>4, ForgetSafe
<1> QED BY <1>2, <1>4, <1>5 DEF lasting, LoopInv, NoFatal

LEMMA GetChannelDifferenceSafe ==
  ASSUME SafeInv, GetChannelDifference, TypeOK' PROVE SafeInv'
<1> USE DEF SafeInv
<1>1. PICK c \in Channels :
        /\ WantsChannel(c)
        /\ IF c \in Known
           THEN /\ req' = [entry |-> c, pts |-> map[c], qts |-> Unknown,
                           spts |-> spts[c], sqts |-> 0]
                /\ pc' = "wait"
                /\ UNCHANGED <<box, scan, call, ghosts>>
           ELSE Die
  BY DEF GetChannelDifference
<1>2. c \in getting /\ c \in Known
  BY <1>1 DEF WantsChannel, Consistent
<1>3. req'.entry = c /\ pc' = "wait" /\ UNCHANGED <<box, lasting>>
  BY <1>1, <1>2 DEF GetChannelDifference
<1>4. c # Account
  BY EntriesAssumption
<1> QED BY <1>2, <1>3, <1>4 DEF box, gap, lasting, Known, Consistent, LoopInv, NoFatal

(* While a channel difference is in flight its channel is being fetched.   *)
LEMMA AwaitingChannelSafe ==
  ASSUME SafeInv, AwaitingChannel
  PROVE  /\ req.entry \in Channels /\ req.entry \in Entries
         /\ req.entry \in Known /\ req.entry \in getting
         /\ req.entry # Account /\ CanApplyChannel
<1> QED BY EntriesAssumption DEF SafeInv, AwaitingChannel, LoopInv, Consistent,
        CanApplyChannel, Entries

(* Giving the channel in flight a new pts, without its gap.                *)
LEMMA NewPtsSafe ==
  ASSUME SafeInv, NEW c \in Entries, NEW p \in Nat, c \in Known,
         map' = [map EXCEPT ![c] = p],
         gaps' = [gaps EXCEPT ![c] = {}], getting' \subseteq getting
  PROVE  Known' = Known /\ Consistent'
<1> USE DEF SafeInv
<1>1. Known' = Known
  BY DEF Known, TypeOK, Unknown
<1>2. \A e \in Entries : gaps'[e] \subseteq gaps[e]
  BY DEF TypeOK
<1>3. getting' \subseteq Known'
  BY <1>1 DEF Consistent
<1>4. \A e \in Entries : gaps'[e] # {} => e \in Known' \ getting'
  BY <1>1, <1>2 DEF Consistent
<1>5. \A e \in Entries : \A u \in gaps'[e] : u.entry = e
  BY <1>2 DEF Consistent
<1> QED BY <1>1, <1>3, <1>4, <1>5 DEF Consistent

LEMMA ApplyChannelEmptySafe ==
  ASSUME SafeInv, ApplyChannelEmpty, TypeOK' PROVE SafeInv'
<1> USE DEF SafeInv
<1> DEFINE c == req.entry
<1>1. c \in Entries /\ c \in Known /\ CanApplyChannel /\ req.pts \in Nat
  BY AwaitingChannelSafe, AwaitingChannelType DEF ApplyChannelEmpty
<1>2. /\ gaps' = [gaps EXCEPT ![c] = {}] /\ EndGetDiff(c)
      /\ map' = [map EXCEPT ![c] = req.pts] /\ pc' = "idle" /\ UNCHANGED lasting
  BY <1>1 DEF ApplyChannelEmpty
<1>3. Known' = Known /\ Consistent'
  BY <1>1, <1>2, NewPtsSafe DEF EndGetDiff
<1>4. next_deadline' \in Known
  BY <1>1, <1>2, MoveSafe DEF EndGetDiff, ResetDeadlines
<1> QED BY <1>2, <1>3, <1>4 DEF lasting, LoopInv, NoFatal

LEMMA ApplyChannelTooLongSafe ==
  ASSUME SafeInv, ApplyChannelTooLong, TypeOK' PROVE SafeInv'
<1> USE DEF SafeInv
<1> DEFINE c == req.entry
<1>1. c \in Entries /\ c \in Known /\ req.pts \in Nat
  BY AwaitingChannelSafe, AwaitingChannelType DEF ApplyChannelTooLong
<1>2. PICK p \in Boundaries(c, req.pts, req.spts), t \in 1..T :
        /\ gaps' = [gaps EXCEPT ![c] = {}]
        /\ map' = [map EXCEPT ![c] = p]
        /\ ResetDeadlines({c}, t)
        /\ pc' = "idle"
        /\ UNCHANGED <<getting, call>>
  BY <1>1 DEF ApplyChannelTooLong
<1>3. p \in Nat
  BY <1>1, <1>2, BoundaryType
<1>4. Known' = Known /\ Consistent'
  BY <1>1, <1>2, <1>3, NewPtsSafe
<1>5. next_deadline' \in Known
  BY <1>1, <1>2, MoveSafe DEF ResetDeadlines
<1> QED BY <1>2, <1>4, <1>5, ApplyChannelTooLong DEF ApplyChannelTooLong, lasting, LoopInv, NoFatal

LEMMA ApplyChannelSafe ==
  ASSUME SafeInv, NEW final \in BOOLEAN, ApplyChannel(final), TypeOK' PROVE SafeInv'
<1> USE DEF SafeInv
<1> DEFINE c == req.entry
<1>1. c \in Entries /\ c \in Known /\ c \in getting /\ req.pts \in Nat
  BY AwaitingChannelSafe, AwaitingChannelType DEF ApplyChannel
<1>2. PICK p \in Boundaries(c, req.pts, IF final THEN req.spts ELSE 0) :
        /\ gaps' = [gaps EXCEPT ![c] = {}]
        /\ IF final THEN EndGetDiff(c)
                    ELSE UNCHANGED <<getting, left, next_deadline>>
        /\ map' = [map EXCEPT ![c] = p]
        /\ Process(Others(c, req.pts, p),
                   [Socket EXCEPT !.then = "endChannel", !.entry = c])
  BY <1>1 DEF ApplyChannel
<1>3. p \in Nat
  BY <1>1, <1>2, BoundaryType
<1>4. getting' \subseteq getting
  BY <1>2 DEF EndGetDiff
<1>5. Known' = Known /\ Consistent'
  BY <1>1, <1>2, <1>3, <1>4, NewPtsSafe
<1>6. next_deadline' \in Known
  BY <1>1, <1>2, MoveSafe DEF EndGetDiff, ResetDeadlines
<1>7. pc' = "apply" /\ call'.then = "endChannel" /\ call'.entry = c
  BY <1>2 DEF Process, Socket
<1>8. UNCHANGED lasting
  BY DEF ApplyChannel
<1> QED BY <1>1, <1>5, <1>6, <1>7, <1>8 DEF lasting, LoopInv, NoFatal

LEMMA EndChannelSafe ==
  ASSUME SafeInv, EndChannel, TypeOK' PROVE SafeInv'
<1> USE DEF SafeInv
<1>1. call.entry \in Known
  BY DEF EndChannel, LoopInv
<1>2. /\ ResetDeadlines({call.entry}, T) /\ pc' = "idle"
      /\ UNCHANGED <<map, gap, getting, lasting>>
  BY <1>1 DEF EndChannel
<1>3. Known' = Known /\ next_deadline' \in Known
  BY <1>1, <1>2, MoveSafe DEF ResetDeadlines, Known
<1> QED BY <1>2, <1>3 DEF gap, lasting, Consistent, LoopInv, NoFatal

LEMMA FailChannelSafe ==
  ASSUME SafeInv, FailChannel, TypeOK' PROVE SafeInv'
<1> USE DEF SafeInv
<1> DEFINE c == req.entry
<1>1. c \in Channels /\ c \in Entries /\ c \in Known /\ CanApplyChannel
  BY AwaitingChannelSafe DEF FailChannel
<1>2. loads' = loads /\ c \in Known
  BY <1>1 DEF FailChannel
<1>3. CASE pc' = "idle" /\ UNCHANGED box
  BY <1>2, <1>3 DEF box, gap, Known, Consistent, LoopInv, NoFatal
<1>4. CASE /\ gaps' = [gaps EXCEPT ![c] = {}]
           /\ getting' = getting \ {c} /\ pc' \in {"idle", "stopped"}
           /\ ResetDeadlines({c}, T) /\ UNCHANGED map
  <2>1. Known' = Known
    BY <1>4 DEF Known
  <2>2. map' = [map EXCEPT ![c] = map[c]] /\ map[c] \in Nat
    BY <1>1, <1>4 DEF TypeOK, Known
  <2>3. Consistent'
    BY <1>1, <1>4, <2>2, NewPtsSafe
  <2>4. next_deadline' \in Known
    BY <1>1, <1>4, MoveSafe DEF ResetDeadlines
  <2> QED BY <1>2, <1>4, <2>1, <2>3, <2>4 DEF LoopInv, NoFatal
<1>5. CASE /\ gaps' = [gaps EXCEPT ![c] = {}]
           /\ getting' = getting \ {c} /\ pc' = "idle" /\ Evict(c)
  <2>1. (\A e \in Entries : gaps'[e] \subseteq gaps[e]) /\ gaps'[c] = {}
    BY <1>1, <1>5 DEF TypeOK
  <2>2. Account \in Known' /\ next_deadline' \in Known' /\ Consistent'
    BY <1>1, <1>5, <2>1, ForgetSafe
  <2> QED BY <1>2, <1>5, <2>2 DEF LoopInv, NoFatal
<1> QED BY <1>1, <1>3, <1>4, <1>5 DEF FailChannel, GoOn, StopLoop

LEMMA TrySetChannelStateSafe ==
  ASSUME SafeInv, TrySetChannelState, TypeOK' PROVE SafeInv'
<1> USE DEF SafeInv
<1>1. PICK c \in Channels \ Known :
        \E p \in Boundaries(c, 1, 0) : map' = [map EXCEPT ![c] = p]
  BY DEF TrySetChannelState
<1>2. PICK p \in Boundaries(c, 1, 0) : map' = [map EXCEPT ![c] = p]
  BY <1>1
<1>3. p \in Nat /\ c \in Entries
  BY <1>2, BoundaryType DEF Entries
<1>4. Known \subseteq Known'
  BY <1>2, <1>3 DEF Known, TypeOK, Unknown
<1>5. UNCHANGED <<next_deadline, gap, getting, loop, lasting>>
  BY DEF TrySetChannelState
<1> QED BY <1>4, <1>5 DEF gap, loop, lasting, Consistent, LoopInv, NoFatal, Fetching2

LEMMA SaveSafe ==
  ASSUME SafeInv, Save \/ Reconnect, TypeOK' PROVE SafeInv'
<1>1. UNCHANGED <<map, next_deadline, gaps, getting, call, req, loads>>
  BY DEF Save, Reconnect, box, gap, loop, lasting
<1>2. UNCHANGED pc \/ pc' = "idle"
  BY DEF Save, Reconnect, loop
<1> QED BY <1>1, <1>2 DEF SafeInv, Known, Consistent, LoopInv, NoFatal, Fetching2

LEMMA EnvironmentSafe ==
  ASSUME SafeInv, Emit \/ Tick \/ UNCHANGED vars, TypeOK' PROVE SafeInv'
<1>1. UNCHANGED <<map, next_deadline, gaps, getting, loop, loads>>
  BY DEF Emit, Tick, vars, box, gap, lasting
<1> QED BY <1>1 DEF SafeInv, loop, Known, Consistent, LoopInv, NoFatal, Fetching2

LEMMA NextSafe ==
  ASSUME MaxLoads = 0, SafeInv, [Next]_vars PROVE SafeInv'
<1>1. TypeOK'
  BY NextType DEF SafeInv
<1>2. CASE UNCHANGED vars \/ Emit \/ Tick
  BY <1>1, <1>2, EnvironmentSafe
<1>3. CASE Loop
  BY <1>1, <1>3, ApplyNewSafe, EndOfPassSafe, RetryGapSafe, EndOfRetrySafe, SocketSafe,
     DifferenceSafe, EndDifferenceSafe, GetChannelDifferenceSafe, GiveUpChannelSafe,
     EndChannelSafe DEF Loop
<1>4. CASE Reply
  BY <1>1, <1>4, ApplyDifferenceSafe, DifferenceSafe, ApplyChannelSafe,
     ApplyChannelEmptySafe, ApplyChannelTooLongSafe DEF Reply
<1>5. CASE ApplyDifference(FALSE) \/ ApplyChannel(FALSE) \/ FailDifference \/ FailChannel
  BY <1>1, <1>5, ApplyDifferenceSafe, ApplyChannelSafe, DifferenceSafe, FailChannelSafe
<1>6. CASE Receive \/ ReceiveGap \/ TrySetChannelState
  BY <1>1, <1>6, SocketSafe, TrySetChannelStateSafe
<1>7. CASE Load
  BY <1>7 DEF Load, SafeInv
<1>8. CASE Save \/ Reconnect
  BY <1>1, <1>8, SaveSafe
<1> QED BY <1>2, <1>3, <1>4, <1>5, <1>6, <1>7, <1>8 DEF Next

(* Without a reload, SafeInv holds in every reachable state: Init gives it  *)
(* and every step keeps it. The three theorems below are read off it.       *)
THEOREM SafeInvariant ==
  ASSUME MaxLoads = 0 PROVE Spec => []SafeInv
<1>1. Init => SafeInv
  BY InitSafe
<1>2. SafeInv /\ [Next]_vars => SafeInv'
  BY NextSafe
<1> QED BY <1>1, <1>2, PTL DEF Spec

(* No RuntimeError, KeyError or assertion of messagebox.py is reachable    *)
(* without a reload: the update loop never disconnects on its own account. *)
THEOREM NoException ==
  ASSUME MaxLoads = 0 PROVE Spec => []NoFatal
<1>1. SafeInv => NoFatal
  BY DEF SafeInv
<1> QED BY <1>1, SafeInvariant, PTL

(* What is being fetched or has a gap is known, and never both at once.    *)
THEOREM AlwaysConsistent ==
  ASSUME MaxLoads = 0 PROVE Spec => []Consistent
<1>1. SafeInv => Consistent
  BY DEF SafeInv
<1> QED BY <1>1, SafeInvariant, PTL

(* next_deadline always names an entry the box knows, so check_deadlines   *)
(* never looks up a missing one and silence is noticed.                    *)
THEOREM AlwaysSilenceNoticed ==
  ASSUME MaxLoads = 0 PROVE Spec => []SilenceNoticed
<1>1. SafeInv => SilenceNoticed
  BY DEF SafeInv, SilenceNoticed
<1> QED BY <1>1, SafeInvariant, PTL

=============================================================================
