----------------------------- MODULE MessageBox -----------------------------
(***************************************************************************)
(* The update state machine of Telethon (telethon/_updates/messagebox.py)  *)
(* driven by the update loop of telethon/client/updates.py.                *)
(*                                                                         *)
(* The server numbers the events of the account, of the secret chats and   *)
(* of every channel ("entries") with persistent timestamps (pts).  The box *)
(* remembers the last pts it handled per entry, applies what comes next,   *)
(* stashes what comes early as a "possible gap" and asks the server for a  *)
(* "difference" when a gap or a period of silence lasts too long.          *)
(*                                                                         *)
(* No method of the box awaits, so process_updates is cut into small steps *)
(* (one per update) that nothing interleaves with; the only await is the   *)
(* difference request itself (pc = "wait").                                *)
(***************************************************************************)
EXTENDS Integers, FiniteSets

CONSTANTS
  Account,      \* ENTRY_ACCOUNT
  Secret,       \* ENTRY_SECRET
  Channels,     \* the channel ids
  NoHash,       \* channels whose access hash the entity cache may lack
  Kinds,        \* {"msg"}: what a difference returns in new_messages;
                \* "other": what it returns in other_updates
  Counts,       \* the values of pts_count of an "other" (a "msg" has 1)
  Talking,      \* the entries in which something happens
  MaxPts,       \* bound on every pts
  MaxSeq,       \* bound on seq
  MaxBatch,     \* bound on the updates in one container
  T,            \* ticks of NO_UPDATES_TIMEOUT
  G,            \* ticks of POSSIBLE_GAP_TIMEOUT
  MaxErrors,    \* bound on failed difference requests
  MaxLoads      \* bound on disconnect/connect cycles with catch_up

Entries == {Account, Secret} \cup Channels

Unknown == -1   \* the entry is absent from self.map

ASSUME EntriesAssumption ==
  /\ Account # Secret
  /\ Account \notin Channels
  /\ Secret \notin Channels
  /\ NoHash \subseteq Channels

ASSUME BoundsAssumption ==
  /\ Kinds \subseteq {"msg", "other"}
  /\ Counts \subseteq Nat
  /\ Talking \subseteq Entries
  /\ MaxPts \in Nat \ {0}
  /\ MaxSeq \in Nat
  /\ MaxBatch \in Nat
  /\ T \in Nat \ {0}
  /\ G \in Nat \ {0}
  /\ MaxErrors \in Nat
  /\ MaxLoads \in Nat

VARIABLES
  map,            \* self.map[e].pts, or Unknown
  left,           \* ticks until self.map[e].deadline (0: expired)
  next_deadline,  \* self.next_deadline
  gaps,           \* self.possible_gaps[e].updates ({}: no gap)
  gapLeft,        \* ticks until self.possible_gaps[e].deadline
  getting,        \* self.getting_diff_for
  seq,            \* self.seq
  pc,             \* where the update loop is
  batch,          \* the updates process_updates was called with
  todo,           \* those it still has to look at, in this pass
  touched,        \* the reset_deadlines set of process_updates
  result,         \* has process_updates something to return?
  call,           \* what the current process_updates call was made for
  req,            \* the difference request in flight
  log,            \* server: the updates of every entry so far
  spts,           \* server: the pts of every entry
  errors,         \* failed difference requests so far
  loads,          \* disconnect/connect cycles so far
  rows,           \* session: the pts stored per channel, or Unknown
  base,           \* ghost: pts the entry was (last) made known with
  handed,         \* ghost: pts positions whose update was returned
  passed,         \* ghost: positions of "other" updates of a difference
  jumped,         \* ghost: positions skipped by a ...TooLong difference
  twice           \* ghost: was a position returned twice?

gap    == <<gaps, gapLeft>>
box    == <<map, left, next_deadline, gap, getting, seq>>
scan   == <<batch, todo, touched, result>>
loop   == <<pc, scan, call, req>>
server == <<log, spts>>
lasting == <<errors, loads, rows>>
ghosts == <<base, handed, passed, jumped, twice>>
vars   == <<box, loop, server, lasting, ghosts>>

-----------------------------------------------------------------------------
(* Updates and requests.                                                   *)

PtsUpdate ==
  {u \in [kind : {"msg", "other"}, entry : Entries, pts : Nat \ {0}, count : Nat] :
     u.count <= u.pts}

(* updateChannelTooLong, and an update that carries no pts at all. *)
TooLongMark(c) == [kind |-> "tooLong", entry |-> c, pts |-> 0, count |-> 0]
Plain == [kind |-> "plain", entry |-> Account, pts |-> 0, count |-> 0]

Update == PtsUpdate \cup {TooLongMark(c) : c \in Channels} \cup {Plain}

HasPts(u) == u.kind \in {"msg", "other"}

(* The positions an update stands for, and the sort key of _sort_gaps. *)
Cover(u) == (u.pts - u.count + 1)..u.pts
SortKey(u) == u.pts - u.count

Known == {e \in Entries : map[e] # Unknown}
NoReq == [entry |-> Account, pts |-> Unknown, qts |-> Unknown,
          spts |-> 0, sqts |-> 0]
Socket == [seq |-> 0, then |-> "return", entry |-> Account]

(* The server answers a request made at pts lo with the state at some later *)
(* pts: a position where an update ends, at or after the pts it had when it *)
(* got the request.                                                         *)
Boundaries(e, lo, atLeast) ==
  {p \in {lo} \cup {u.pts : u \in log[e]} : p >= lo /\ p >= atLeast}

(* The positions of (lo, hi] that updates of the given kind stand for. *)
Positions(e, kind, lo, hi) ==
  {x \in (lo + 1)..hi : \E u \in log[e] : u.kind = kind /\ x \in Cover(u)}

Others(e, lo, hi) == {u \in log[e] : u.kind = "other" /\ u.pts > lo /\ u.pts <= hi}

(* What the socket, or other_updates, may carry at any moment: anything the *)
(* server ever sent, again, late or out of order.                           *)
Deliverable ==
  (UNION {log[e] : e \in Entries}) \cup {TooLongMark(c) : c \in Channels} \cup {Plain}

ChannelDeliverable ==
  (UNION {log[c] : c \in Channels}) \cup {TooLongMark(c) : c \in Channels}

Batches(S) == {B \in SUBSET S : Cardinality(B) <= MaxBatch}

-----------------------------------------------------------------------------
(* Deadlines.  The code compares absolute ones with the time of the event  *)
(* loop; here each is the time left until it, and Tick lets time pass.     *)

(* Mutant: a deadline is put off by t instead of set t ticks from now. *)
Reset_Extends(S, t) == [e \in Entries |-> IF e \in S THEN left[e] + t ELSE left[e]]

(* The deadlines after those of S were set t ticks from now. *)
Reset(S, t) == [e \in Entries |-> IF e \in S THEN t ELSE left[e]]

(* What reset_deadlines then does to self.next_deadline: if it was reset it *)
(* becomes a closest one (never, among equals, one just reset); if the new  *)
(* deadline is closer, that becomes the next.                               *)
MoveNextDeadline(S, t) ==
  LET lf    == Reset(S, t)
      first == {k \in Known : \A j \in Known : lf[k] <= lf[j]}
  IN  IF next_deadline \in S
      THEN next_deadline' \in IF first \ S # {} THEN first \ S ELSE first
      ELSE IF S # {} /\ next_deadline \in Known /\ t < left[next_deadline]
      THEN next_deadline' \in S
      ELSE UNCHANGED next_deadline

ResetDeadlines(S, t) ==
  /\ left' = Reset(S, t)
  /\ MoveNextDeadline(S, t)

HasGaps == \E e \in Entries : gaps[e] # {}

(* Mutant: silence is never noticed. *)
Due_GapsOnly == \E e \in Entries : gaps[e] # {} /\ gapLeft[e] = 0

(* check_deadlines finds its deadline reached: with gaps only theirs count, *)
(* otherwise only that of self.next_deadline.                               *)
Due ==
  IF HasGaps
  THEN \E e \in Entries : gaps[e] # {} /\ gapLeft[e] = 0
  ELSE next_deadline \in Known /\ left[next_deadline] = 0

(* A RuntimeError, KeyError or failed assertion: the update loop logs it as *)
(* fatal and disconnects.                                                   *)
Die ==
  /\ pc' = "dead"
  /\ UNCHANGED <<box, scan, call, req, ghosts>>

-----------------------------------------------------------------------------
(* Ghosts: what the program has accounted for.                             *)

Hand(e, P) ==
  /\ handed' = [handed EXCEPT ![e] = @ \cup P]
  /\ twice' = (twice \/ P \cap handed[e] # {})

(* The entry starts, or stops, being tracked. *)
Track(e, b, P) ==
  /\ base' = [base EXCEPT ![e] = b]
  /\ handed' = [handed EXCEPT ![e] = P]
  /\ passed' = [passed EXCEPT ![e] = {}]
  /\ jumped' = [jumped EXCEPT ![e] = {}]
  /\ UNCHANGED twice

-----------------------------------------------------------------------------
(* try_begin_get_diff and apply_pts_info, for one update.  (The first one's *)
(* RuntimeError, a gap of an unknown entry, is what Consistent excludes.)   *)

(* Mutants: unknown entries are fetched too; the gap is not cleared. *)
TryBeginGetDiff_Unknown(e) ==
  /\ getting' = getting \cup {e}
  /\ gaps' = [gaps EXCEPT ![e] = {}]
  /\ gapLeft' = [gapLeft EXCEPT ![e] = 0]

TryBeginGetDiff_KeepGap(e) ==
  /\ getting' = IF e \in Known THEN getting \cup {e} ELSE getting
  /\ UNCHANGED gap

TryBeginGetDiff(e) ==
  IF e \in Known
  THEN /\ getting' = getting \cup {e}
       /\ gaps' = [gaps EXCEPT ![e] = {}]
       /\ gapLeft' = [gapLeft EXCEPT ![e] = 0]
  ELSE UNCHANGED <<getting, gap>>

(* Mutants of Fits: no gap is ever detected; old updates apply again. *)
Fits_NoGap(u) == u.entry \in Known \ getting /\ map[u.entry] + u.count <= u.pts
Fits_Again(u) == u.entry \in Known \ getting /\ map[u.entry] + u.count >= u.pts

(* How apply_pts_info sees an update with a pts. *)
Fetching(u) == u.entry \in getting
Handled(u) == u.entry \in Known \ getting /\ map[u.entry] + u.count > u.pts
Early(u)   == u.entry \in Known \ getting /\ map[u.entry] + u.count < u.pts
Fits(u)    == u.entry \in Known \ getting /\ map[u.entry] + u.count = u.pts
First(u)   == u.entry \notin Known \cup getting

(* The pts a new entry starts with: (pts - (0 if count else 1)) or 1. *)
FirstPts(u) ==
  LET p == IF u.count = 0 THEN u.pts - 1 ELSE u.pts
  IN  IF p = 0 THEN 1 ELSE p

Apply(u) ==
  /\ map' = [map EXCEPT ![u.entry] = u.pts]
  /\ Hand(u.entry, Cover(u))
  /\ UNCHANGED <<left, base, passed, jumped>>

Begin(u) ==
  /\ map' = [map EXCEPT ![u.entry] = FirstPts(u)]
  /\ left' = [left EXCEPT ![u.entry] = T]
  /\ Track(u.entry, FirstPts(u) - u.count, Cover(u))

(* Mutant: the gap holds one update only. *)
Stash_Replace(u, rest) ==
  /\ gaps' = [rest EXCEPT ![u.entry] = {u}]
  /\ gapLeft' = [gapLeft EXCEPT ![u.entry] = IF gaps[u.entry] = {} THEN G ELSE @]

(* A gap that is new gets its own deadline. *)
Stash(u, rest) ==
  /\ gaps' = [rest EXCEPT ![u.entry] = @ \cup {u}]
  /\ gapLeft' = [gapLeft EXCEPT ![u.entry] = IF gaps[u.entry] = {} THEN G ELSE @]

(* apply_pts_info for an update with a pts; rest are the gaps without it.  *)
ApplyPtsInfo(u, rest) ==
  \/ /\ Fetching(u) \/ Handled(u)
     /\ gaps' = rest
     /\ UNCHANGED <<map, left, gapLeft, result, ghosts>>
  \/ /\ Early(u)
     /\ Stash(u, rest)
     /\ UNCHANGED <<map, left, result, ghosts>>
  \/ /\ \/ Fits(u) /\ Apply(u)
        \/ First(u) /\ Begin(u)
     /\ gaps' = rest
     /\ result' = TRUE
     /\ UNCHANGED gapLeft

(* if reset_deadlines: reset_deadlines.add(pts.entry) -- an empty set is    *)
(* false, so the first entry is never added.                                *)
Touch(u) == touched' = IF touched # {} THEN touched \cup {u.entry} ELSE touched

(* process_updates, first pass: the updates sorted by pts - pts_count. *)
ApplyNew ==
  /\ pc = "apply"
  /\ \E u \in todo :
       /\ \A v \in todo : SortKey(u) <= SortKey(v)
       /\ todo' = todo \ {u}
       /\ \/ /\ u.kind = "tooLong"
             /\ TryBeginGetDiff(u.entry)
             /\ UNCHANGED <<map, left, touched, result, ghosts>>
          \/ /\ u.kind = "plain"
             /\ result' = TRUE
             /\ UNCHANGED <<map, left, gap, getting, touched, ghosts>>
          \/ /\ HasPts(u)
             /\ Touch(u)
             /\ ApplyPtsInfo(u, gaps)
             /\ UNCHANGED getting
  /\ UNCHANGED <<next_deadline, seq, pc, batch, call, req, server, lasting>>

(* Mutant: the seq is taken over although a gap is left. *)
NewSeq_Eager == IF result /\ call.seq # 0 THEN call.seq ELSE seq

(* The seq of a container is taken over if something was returned and no    *)
(* gap is left.                                                             *)
NewSeq == IF result /\ ~HasGaps /\ call.seq # 0 THEN call.seq ELSE seq

(* The end of process_updates, and where its caller goes on. *)
Return ==
  /\ seq' = NewSeq
  /\ pc' = IF call.then = "return" THEN "idle" ELSE call.then
  /\ batch' = {}
  /\ todo' = {}
  /\ touched' = {}
  /\ result' = FALSE
  /\ call' = IF call.then = "return" THEN Socket ELSE call

(* The first pass is over: reset the deadlines, then re-try the gaps. *)
EndOfPass ==
  /\ pc = "apply"
  /\ todo = {}
  /\ ResetDeadlines(touched, T)
  /\ IF HasGaps
     THEN /\ pc' = "retry"
          /\ todo' = UNION {gaps[e] : e \in Entries}
          /\ UNCHANGED <<seq, batch, touched, result, call>>
     ELSE Return
  /\ UNCHANGED <<map, gap, getting, req, server, lasting, ghosts>>

(* process_updates, second pass: every update of every gap once, in order. *)
RetryGap ==
  /\ pc = "retry"
  /\ \E u \in todo :
       /\ \A v \in todo : v.entry = u.entry => SortKey(u) <= SortKey(v)
       /\ todo' = todo \ {u}
       /\ ApplyPtsInfo(u, [gaps EXCEPT ![u.entry] = @ \ {u}])
  /\ UNCHANGED <<next_deadline, getting, seq, pc, batch, touched, call, req,
                 server, lasting>>

(* The second pass is over; gaps without updates are dropped. *)
EndOfRetry ==
  /\ pc = "retry"
  /\ todo = {}
  /\ gapLeft' = [e \in Entries |-> IF gaps[e] = {} THEN 0 ELSE gapLeft[e]]
  /\ Return
  /\ UNCHANGED <<map, left, next_deadline, gaps, getting, req,
                 server, lasting, ghosts>>

(* Entering process_updates with the updates B. *)
Process(B, c) ==
  /\ pc' = "apply"
  /\ batch' = B
  /\ todo' = B
  /\ call' = c
  /\ UNCHANGED <<touched, result>>

-----------------------------------------------------------------------------
(* The update loop: the socket.                                            *)

(* The loop takes a container from its queue only when no difference is    *)
(* pending and no deadline has passed.                                     *)
Listening == pc = "idle" /\ getting = {} /\ ~Due

(* Any updates, with no seq or with a seq_start that follows on self.seq. *)
Receive ==
  /\ Listening
  /\ \E B \in Batches(Deliverable) \ {{}}, s \in 0..MaxSeq :
       /\ s = 0 \/ s > seq
       /\ Process(B, [Socket EXCEPT !.seq = s])
  /\ UNCHANGED <<box, req, server, lasting, ghosts>>

(* updatesTooLong, or a container whose seq leaves a hole: GapError.  (One  *)
(* whose seq is old is dropped, which is a stuttering step.)                *)
ReceiveGap ==
  /\ Listening
  /\ TryBeginGetDiff(Account)
  /\ UNCHANGED <<map, left, next_deadline, seq, loop, server, lasting, ghosts>>

CheckDeadlines ==
  /\ pc = "idle"
  /\ getting = {}
  /\ Due
  /\ LET expired == {e \in Entries : gaps[e] # {} /\ gapLeft[e] = 0}
                      \cup {e \in Known : left[e] = 0}
     IN  /\ getting' = expired
         /\ gaps' = [e \in Entries |-> IF e \in expired THEN {} ELSE gaps[e]]
         /\ gapLeft' = [e \in Entries |-> IF e \in expired THEN 0 ELSE gapLeft[e]]
  /\ UNCHANGED <<map, left, next_deadline, seq, loop, server, lasting, ghosts>>

-----------------------------------------------------------------------------
(* The account difference.                                                 *)

WantsDifference == {Account, Secret} \cap getting # {}

(* get_difference, and the request it makes. *)
GetDifference ==
  /\ pc = "idle"
  /\ WantsDifference
  /\ IF /\ Account \in Known
        /\ Account \notin getting => Secret \in Known
     THEN /\ req' = [entry |-> Account, pts |-> map[Account], qts |-> map[Secret],
                     spts |-> spts[Account], sqts |-> spts[Secret]]
          /\ pc' = "wait"
          /\ UNCHANGED <<box, scan, call, ghosts>>
     ELSE Die
  /\ UNCHANGED <<server, lasting>>

AwaitingDifference == pc = "wait" /\ req.entry = Account

(* The qts a request without SECRET state sends is NO_SEQ, 0. *)
ReqQts == IF req.qts = Unknown THEN 0 ELSE req.qts

(* set_state(state, reset=False), and the messages of the difference. *)
SetState(p, q, s) ==
  /\ map' = [map EXCEPT ![Account] = p, ![Secret] = q]
  /\ left' = [left EXCEPT ![Account] = T, ![Secret] = T]
  /\ seq' = s
  /\ LET m == Positions(Account, "msg", req.pts, p)
         n == Positions(Secret, "msg", ReqQts, q)
         o == Positions(Account, "other", req.pts, p)
         r == Positions(Secret, "other", ReqQts, q)
     IN  IF req.qts = Unknown
         THEN /\ base' = [base EXCEPT ![Secret] = 0]
              /\ handed' = [handed EXCEPT ![Account] = @ \cup m, ![Secret] = n]
              /\ passed' = [passed EXCEPT ![Account] = @ \cup o, ![Secret] = r]
              /\ jumped' = [jumped EXCEPT ![Secret] = {}]
              /\ twice' = (twice \/ m \cap handed[Account] # {})
         ELSE /\ handed' = [handed EXCEPT ![Account] = @ \cup m, ![Secret] = @ \cup n]
              /\ passed' = [passed EXCEPT ![Account] = @ \cup o, ![Secret] = @ \cup r]
              /\ twice' = (twice \/ m \cap handed[Account] # {}
                                 \/ n \cap handed[Secret] # {})
              /\ UNCHANGED <<base, jumped>>

(* updates.difference (final) and updates.differenceSlice: after the state  *)
(* is set process_updates gets the other updates; the loop then ends the    *)
(* difference, or leaves it pending.                                        *)
ApplyDifference(final) ==
  /\ AwaitingDifference
  /\ \E p \in Boundaries(Account, req.pts, IF final THEN req.spts ELSE 0),
        q \in Boundaries(Secret, ReqQts, IF final THEN req.sqts ELSE 0),
        s \in seq..MaxSeq, X \in Batches(ChannelDeliverable) :
       /\ final \/ p > req.pts \/ q > ReqQts
       /\ SetState(p, q, s)
       /\ Process(Others(Account, req.pts, p) \cup Others(Secret, ReqQts, q) \cup X,
                  IF final THEN [Socket EXCEPT !.then = "endDiff"] ELSE Socket)
  /\ req' = NoReq
  /\ UNCHANGED <<next_deadline, gap, getting, server, lasting>>

(* updates.differenceEmpty and updates.differenceTooLong. *)
ApplyDifferenceEmpty ==
  /\ AwaitingDifference
  /\ req.spts <= req.pts /\ req.sqts <= ReqQts
  /\ seq' \in seq..MaxSeq
  /\ pc' = "endDiff"
  /\ req' = NoReq
  /\ UNCHANGED <<map, left, next_deadline, gap, getting,
                 scan, call, server, lasting, ghosts>>

ApplyDifferenceTooLong ==
  /\ AwaitingDifference
  /\ \E p \in Boundaries(Account, req.pts, req.spts) :
       /\ p > req.pts
       /\ map' = [map EXCEPT ![Account] = p]
       /\ jumped' = [jumped EXCEPT ![Account] = @ \cup (req.pts + 1)..p]
  /\ pc' = "endDiff"
  /\ req' = NoReq
  /\ UNCHANGED <<left, next_deadline, gap, getting, seq, scan, call, server, lasting, base, handed, passed, twice>>

(* What the session holds once _save_states_and_entities has run: the row   *)
(* of a channel that was forgotten stays as it was.                         *)
SavedRows == [c \in Channels |-> IF c \in Known THEN map[c] ELSE rows[c]]

(* (What is saved matters only if it is to be loaded again.)                *)
SaveStates == rows' = IF loads < MaxLoads THEN SavedRows ELSE rows

(* The loop goes on, or has disconnected the client (which saves) and ends. *)
GoOn == pc' = "idle" /\ UNCHANGED rows
StopLoop == pc' = "stopped" /\ SaveStates

(* An error.  An OSError leaves the difference pending and the loop tries   *)
(* again after a while; any other ends it, and being logged out or misusing *)
(* the session then ends the loop.                                          *)
FailDifference ==
  /\ AwaitingDifference
  /\ errors < MaxErrors
  /\ errors' = errors + 1
  /\ \/ pc' = "idle" /\ UNCHANGED call
     \/ pc' = "endDiff" /\ UNCHANGED call
     \/ pc' = "endDiff" /\ call' = [Socket EXCEPT !.then = "stopped"]
  /\ req' = NoReq
  /\ UNCHANGED <<box, scan, loads, rows, server, ghosts>>

(* The tail of apply_difference, and end_difference: end_get_diff for the  *)
(* entries that were being fetched.  Its RuntimeErrors are deaths.         *)
EndDifference ==
  /\ pc = "endDiff"
  /\ LET active == {Account, Secret} \cap getting
     IN  IF active # {} /\ active \subseteq Known
            /\ \A e \in active : gaps[e] = {}
         THEN /\ getting' = getting \ active
              /\ ResetDeadlines(active, T)
              /\ IF call.then = "stopped" THEN StopLoop ELSE GoOn
              /\ call' = Socket
              /\ UNCHANGED <<map, gap, seq, scan, req, ghosts>>
         ELSE Die /\ UNCHANGED rows
  /\ UNCHANGED <<server, errors, loads>>

-----------------------------------------------------------------------------
(* Channel differences.                                                    *)

WantsChannel(c) == pc = "idle" /\ ~WantsDifference /\ c \in Channels \cap getting

(* Mutant: the channel leaves the map and stays the next deadline. *)
Evict_KeepNext(c) ==
  /\ left' = [left EXCEPT ![c] = 0]
  /\ map' = [map EXCEPT ![c] = Unknown]
  /\ Track(c, Unknown, {})
  /\ UNCHANGED next_deadline

(* end_get_diff(c) and self.map.pop(c): the deadline of c is reset before c *)
(* leaves the map.                                                          *)
Evict(c) ==
  /\ MoveNextDeadline({c}, T)
  /\ left' = [left EXCEPT ![c] = 0]
  /\ map' = [map EXCEPT ![c] = Unknown]
  /\ Track(c, Unknown, {})

(* end_get_diff(c) *)
EndGetDiff(c) ==
  /\ getting' = getting \ {c}
  /\ ResetDeadlines({c}, T)

(* get_channel_difference without the access hash: the channel is forgotten. *)
GiveUpChannel ==
  /\ \E c \in NoHash :
       /\ WantsChannel(c)
       /\ IF c \in Known /\ gaps[c] = {}
          THEN /\ getting' = getting \ {c}
               /\ Evict(c)
               /\ UNCHANGED <<gap, seq, loop>>
          ELSE Die
  /\ UNCHANGED <<server, lasting>>

(* get_channel_difference, and the request it makes. *)
GetChannelDifference ==
  /\ \E c \in Channels :
       /\ WantsChannel(c)
       /\ IF c \in Known
          THEN /\ req' = [entry |-> c, pts |-> map[c], qts |-> Unknown,
                          spts |-> spts[c], sqts |-> 0]
               /\ pc' = "wait"
               /\ UNCHANGED <<box, scan, call, ghosts>>
          ELSE Die
  /\ UNCHANGED <<server, lasting>>

AwaitingChannel == pc = "wait" /\ req.entry \in Channels

(* What every branch of apply_channel_difference needs not to raise. *)
CanApplyChannel == req.entry \in Known \cap getting

(* updates.channelDifferenceEmpty *)
ApplyChannelEmpty ==
  LET c == req.entry IN
  /\ AwaitingChannel
  /\ req.spts <= req.pts
  /\ IF CanApplyChannel
     THEN /\ gaps' = [gaps EXCEPT ![c] = {}]
          /\ gapLeft' = [gapLeft EXCEPT ![c] = 0]
          /\ EndGetDiff(c)
          /\ map' = [map EXCEPT ![c] = req.pts]
          /\ pc' = "idle"
          /\ req' = NoReq
          /\ UNCHANGED <<seq, scan, call, ghosts>>
     ELSE Die
  /\ UNCHANGED <<server, lasting>>

(* updates.channelDifferenceTooLong: the pts jumps to that of the dialog,  *)
(* the deadline is the server's, and the channel stays in getting_diff_for *)
(* (the loop asks again at once).                                          *)
ApplyChannelTooLong ==
  LET c == req.entry IN
  /\ AwaitingChannel
  /\ \E p \in Boundaries(c, req.pts, req.spts), t \in 1..T :
       /\ p > req.pts
       /\ IF c \in Known
          THEN /\ gaps' = [gaps EXCEPT ![c] = {}]
               /\ gapLeft' = [gapLeft EXCEPT ![c] = 0]
               /\ map' = [map EXCEPT ![c] = p]
               /\ ResetDeadlines({c}, t)
               /\ jumped' = [jumped EXCEPT ![c] = @ \cup (req.pts + 1)..p]
               /\ pc' = "idle"
               /\ req' = NoReq
               /\ UNCHANGED <<getting, seq, scan, call,
                              base, handed, passed, twice>>
          ELSE Die
  /\ UNCHANGED <<server, lasting>>

(* updates.channelDifference, the last one (final) or not. *)
ApplyChannel(final) ==
  LET c == req.entry IN
  /\ AwaitingChannel
  /\ \E p \in Boundaries(c, req.pts, IF final THEN req.spts ELSE 0) :
       /\ final \/ p > req.pts
       /\ IF c \in Known /\ (final => c \in getting)
          THEN /\ gaps' = [gaps EXCEPT ![c] = {}]
               /\ gapLeft' = [gapLeft EXCEPT ![c] = 0]
               /\ IF final THEN EndGetDiff(c)
                           ELSE UNCHANGED <<getting, left, next_deadline>>
               /\ map' = [map EXCEPT ![c] = p]
               /\ Hand(c, Positions(c, "msg", req.pts, p))
               /\ passed' = [passed EXCEPT ![c] = @ \cup Positions(c, "other", req.pts, p)]
               /\ Process(Others(c, req.pts, p),
                          [Socket EXCEPT !.then = "endChannel", !.entry = c])
               /\ req' = NoReq
               /\ UNCHANGED <<seq, base, jumped>>
          ELSE Die
  /\ UNCHANGED <<server, lasting>>

(* Its last statement: reset_channel_deadline(entry, None). *)
EndChannel ==
  /\ pc = "endChannel"
  /\ IF call.entry \in Known
     THEN /\ ResetDeadlines({call.entry}, T)
          /\ pc' = "idle"
          /\ call' = Socket
          /\ UNCHANGED <<map, gap, getting, seq, scan, req, ghosts>>
     ELSE Die
  /\ UNCHANGED <<server, lasting>>

(* An error.  An OSError leaves the difference pending; being banned ends   *)
(* it and forgets the channel; any other ends it and keeps the pts, and     *)
(* being logged out or misusing the session then ends the loop.             *)
FailChannel ==
  LET c == req.entry IN
  /\ AwaitingChannel
  /\ errors < MaxErrors
  /\ errors' = errors + 1
  /\ \/ /\ pc' = "idle"
        /\ req' = NoReq
        /\ UNCHANGED <<box, scan, call, rows, ghosts>>
     \/ IF CanApplyChannel
        THEN /\ gaps' = [gaps EXCEPT ![c] = {}]
             /\ gapLeft' = [gapLeft EXCEPT ![c] = 0]
             /\ getting' = getting \ {c}
             /\ \/ ResetDeadlines({c}, T) /\ (GoOn \/ StopLoop) /\ UNCHANGED <<map, ghosts>>
                \/ Evict(c) /\ GoOn
             /\ req' = NoReq
             /\ UNCHANGED <<seq, scan, call>>
        ELSE Die /\ UNCHANGED rows
  /\ UNCHANGED <<loads, server>>

-----------------------------------------------------------------------------
(* The rest of the client, the server and time.                            *)

(* The update loop is suspended.  (What happens while there is none may as   *)
(* well happen right after the next connect.)                                *)
Suspended == pc \in {"idle", "wait"}

(* try_set_channel_state: iterating over the dialogs tells a channel's pts. *)
TrySetChannelState ==
  /\ Suspended
  /\ \E c \in Channels \ Known :
       \E p \in Boundaries(c, 1, 0) :
         /\ map' = [map EXCEPT ![c] = p]
         /\ left' = [left EXCEPT ![c] = T]
         /\ Track(c, p, {})
  /\ UNCHANGED <<next_deadline, gap, getting, seq, loop, server, lasting>>

(* The keepalive loop saves the state every minute, the update loop when its *)
(* entity cache is full.                                                     *)
Save ==
  /\ Suspended
  /\ SaveStates
  /\ UNCHANGED <<box, loop, errors, loads, server, ghosts>>

(* The user disconnects, which saves, and connects with catch_up, which      *)
(* loads what the session holds into the same box, channels forgotten since  *)
(* included: load() drops a pts or qts of 0, and leaves possible_gaps and    *)
(* getting_diff_for as they are.                                             *)
Load ==
  /\ Suspended \/ pc = "stopped"
  /\ loads < MaxLoads
  /\ loads' = loads + 1
  /\ rows' = SavedRows
  /\ map' = [e \in Entries |-> IF e \in Channels THEN SavedRows[e]
                              ELSE IF map[e] = 0 THEN Unknown ELSE map[e]]
  /\ left' = [e \in Entries |-> IF map'[e] = Unknown THEN 0 ELSE T]
  /\ base' = map'
  /\ next_deadline' = Account
  /\ handed' = [e \in Entries |-> {}]
  /\ passed' = [e \in Entries |-> {}]
  /\ jumped' = [e \in Entries |-> {}]
  /\ pc' = "idle"
  /\ req' = NoReq
  /\ UNCHANGED <<gap, getting, seq, scan, call, errors, server, twice>>

(* The user connects a client whose loop had ended, without catch_up: the    *)
(* new loop goes on with the box as it is.                                   *)
Reconnect ==
  /\ pc = "stopped"
  /\ pc' = "idle"
  /\ UNCHANGED <<box, scan, call, req, server, lasting, ghosts>>

(* Something happens in the chats. *)
Emit ==
  /\ Suspended
  /\ \E e \in Talking, k \in Kinds : \E n \in IF k = "msg" THEN {1} ELSE Counts :
       LET u == [kind |-> k, entry |-> e, pts |-> spts[e] + n, count |-> n]
       IN  /\ u.pts \in 1..MaxPts
           /\ e = Secret => n = 1
           /\ u \notin log[e]
           /\ log' = [log EXCEPT ![e] = @ \cup {u}]
           /\ spts' = [spts EXCEPT ![e] = u.pts]
  /\ UNCHANGED <<box, loop, lasting, ghosts>>

(* Time passes while the loop is suspended: less is left until each deadline *)
(* (nothing until one that has passed).                                      *)
Down(n) == IF n > 0 THEN n - 1 ELSE 0

Tick ==
  /\ Suspended
  /\ \E e \in Entries : left[e] > 0 \/ gapLeft[e] > 0
  /\ left' = [e \in Entries |-> Down(left[e])]
  /\ gapLeft' = [e \in Entries |-> Down(gapLeft[e])]
  /\ UNCHANGED <<map, next_deadline, gaps, getting, seq, loop, server, lasting, ghosts>>

-----------------------------------------------------------------------------
(* The box right after a login with no secret chats, or after loading a    *)
(* session that knows some channels.                                       *)
Init ==
  /\ \E C \in SUBSET Channels :
       map = [e \in Entries |-> IF e \in C \cup {Account} THEN 1 ELSE Unknown]
  /\ left = [e \in Entries |-> IF map[e] = Unknown THEN 0 ELSE T]
  /\ next_deadline = Account
  /\ gaps = [e \in Entries |-> {}]
  /\ gapLeft = [e \in Entries |-> 0]
  /\ getting = {}
  /\ seq = 0
  /\ pc = "idle"
  /\ batch = {}
  /\ todo = {}
  /\ touched = {}
  /\ result = FALSE
  /\ call = Socket
  /\ req = NoReq
  /\ log = [e \in Entries |-> {}]
  /\ spts = [e \in Entries |-> IF e = Secret THEN 0 ELSE 1]
  /\ errors = 0
  /\ loads = 0
  /\ rows = [c \in Channels |-> IF MaxLoads = 0 THEN Unknown ELSE map[c]]
  /\ base = map
  /\ handed = [e \in Entries |-> {}]
  /\ passed = [e \in Entries |-> {}]
  /\ jumped = [e \in Entries |-> {}]
  /\ twice = FALSE

(* What the update loop does on its own... *)
Loop ==
  \/ ApplyNew \/ EndOfPass \/ RetryGap \/ EndOfRetry
  \/ CheckDeadlines
  \/ GetDifference \/ EndDifference
  \/ GetChannelDifference \/ GiveUpChannel \/ EndChannel

(* ... and once the server has answered for good. *)
Reply ==
  \/ ApplyDifference(TRUE) \/ ApplyDifferenceEmpty \/ ApplyDifferenceTooLong
  \/ ApplyChannel(TRUE) \/ ApplyChannelEmpty \/ ApplyChannelTooLong

Next ==
  \/ Loop
  \/ Reply
  \/ ApplyDifference(FALSE) \/ ApplyChannel(FALSE)
  \/ FailDifference \/ FailChannel
  \/ Receive \/ ReceiveGap
  \/ TrySetChannelState \/ Save \/ Load \/ Reconnect
  \/ Emit \/ Tick

Spec == Init /\ [][Next]_vars

(* The event loop runs a task that can run; every request is answered or   *)
(* fails (and only MaxErrors of them fail); clocks move, also between the  *)
(* containers of a busy socket.                                            *)
FairSpec ==
  /\ Spec
  /\ WF_vars(Loop)
  /\ WF_vars(Reply)
  /\ SF_vars(Tick)

-----------------------------------------------------------------------------
(* Properties.                                                             *)

(* Types. *)
TypeOK ==
  /\ map \in [Entries -> Nat \cup {Unknown}]
  /\ left \in [Entries -> 0..T]
  /\ next_deadline \in Entries
  /\ gaps \in [Entries -> SUBSET PtsUpdate]
  /\ gapLeft \in [Entries -> 0..G]
  /\ getting \subseteq Entries
  /\ seq \in 0..MaxSeq
  /\ pc \in {"idle", "apply", "retry", "wait", "endDiff", "endChannel", "stopped",
             "dead"}
  /\ batch \subseteq Update
  /\ todo \subseteq IF pc = "retry" THEN PtsUpdate ELSE Update
  /\ touched \subseteq Entries
  /\ result \in BOOLEAN
  /\ call \in [seq : 0..MaxSeq, then : {"return", "endDiff", "endChannel", "stopped"},
               entry : Entries]
  /\ req \in [entry : Entries, pts : Nat \cup {Unknown}, qts : Nat \cup {Unknown},
              spts : Nat, sqts : Nat]
  /\ pc = "wait" => req.pts # Unknown
  /\ log \in [Entries -> SUBSET PtsUpdate]
  /\ spts \in [Entries -> 0..MaxPts]
  /\ errors \in 0..MaxErrors
  /\ loads \in 0..MaxLoads
  /\ rows \in [Channels -> Nat \cup {Unknown}]
  /\ base \in [Entries -> Nat \cup {Unknown}]
  /\ handed \in [Entries -> SUBSET Nat]
  /\ passed \in [Entries -> SUBSET Nat]
  /\ jumped \in [Entries -> SUBSET Nat]
  /\ twice \in BOOLEAN

(* None of the RuntimeErrors, KeyErrors and assertions of messagebox.py is *)
(* ever raised: the update loop never reports its "bug in Telethon".       *)
NoFatal == pc # "dead"

(* Between two updates the box is consistent: what is being fetched or has *)
(* a gap has a known pts, never both at once ("gaps shouldn't be created   *)
(* while getting difference"), and a gap holds only updates of its entry.  *)
Consistent ==
  /\ getting \subseteq Known
  /\ \A e \in Entries : gaps[e] # {} => e \in Known \ getting
  /\ \A e \in Entries : \A u \in gaps[e] : u.entry = e

(* Every pts position from the one an entry was made known with up to its  *)
(* current pts was returned as an update, exactly once, or was covered by  *)
(* a difference that does not return it: no reordering, duplication or     *)
(* loss on the socket makes the box skip a position or pass one twice.     *)
Chain ==
  \A e \in Known :
    /\ (base[e] + 1)..map[e] = handed[e] \cup passed[e] \cup jumped[e]
    /\ handed[e] \cap (passed[e] \cup jumped[e]) = {}

(* No position is returned twice. *)
NoneTwice == ~twice

(* While nothing is pending, next_deadline names a known entry, so silence *)
(* is always noticed. *)
SilenceNoticed == pc = "idle" => next_deadline \in Known

(* An update that waits in a gap stays there until the box has reached its *)
(* pts or has begun to fetch the difference of its entry (and then the     *)
(* server returns it): reordering on the socket never costs an update.     *)
StashedIsKept ==
  [][\A e \in Entries : \A u \in gaps[e] \ gaps'[e] :
       map'[e] >= u.pts \/ e \in getting']_vars

(* The seq of a container is acknowledged only when none of its updates,   *)
(* and no other update, waits in a gap: each was applied, was old, or will *)
(* come with a difference.                                                 *)
SeqSettled ==
  [][(pc \in {"apply", "retry"} /\ seq' # seq) =>
       /\ ~HasGaps'
       /\ \A u \in {v \in batch : HasPts(v)} :
            u.entry \in getting \/ map[u.entry] >= u.pts]_vars

(* What the server numbered in the account or in a secret chat is reached   *)
(* in the end, whatever the socket loses and whether a difference fails or  *)
(* not: by the gap timeout or by the timeout without updates.  (Unless the  *)
(* loop ended because the user was logged out, and nobody connects again.)  *)
Behind(e) == e \in Known /\ map[e] < spts[e]

AccountRecovered ==
  \A e \in {Account, Secret} : Behind(e) ~> (~Behind(e) \/ [](pc = "stopped"))

(* So is what it numbered in a channel that stays known, unless             *)
(* next_deadline is left on the secret chats: set_state gives them a later  *)
(* deadline than it had, and account differences may keep it there.         *)
ChannelRecovered ==
  \A c \in Channels :
    Behind(c) ~> (~Behind(c) \/ next_deadline = Secret \/ [](pc = "stopped"))
=============================================================================
