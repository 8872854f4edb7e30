---------------------------- MODULE MTProtoState ----------------------------
(***************************************************************************)
(* The ids, sequence numbers, clock and filter of one session              *)
(* (telethon/network/mtprotostate.py), with the packer that asks for ids   *)
(* (telethon/extensions/messagepacker.py) and the parts of the sender that *)
(* correct the state when the server refuses a packet                      *)
(* (telethon/network/mtprotosender.py).                                    *)
(*                                                                         *)
(* Ids are numbers, Slots of them to the second.  The sender around it is  *)
(* in module Sender; here a reconnection is a step.  That the tenth        *)
(* message ignored in a row raises a SecurityError is left out: the        *)
(* receive loop ignores that one too.  So are the messages that are not    *)
(* content-related, the acknowledgements and pings of a packet: they take  *)
(* an id and the sequence number that comes next, and leave it there.      *)
(***************************************************************************)
EXTENDS Integers, Sequences, SequencesExt, FiniteSetsExt

CONSTANTS
  MaxRequests,   \* bound on the requests
  Slots,         \* ids to the second
  Fractions,     \* where in a second a clock may be read
  Fast, Slow,    \* seconds the local clock may be ahead of the server's, or behind
  TooOld,        \* seconds after which a message is too old
  TooNew,        \* seconds before which a message is too new
  Delay,         \* seconds a message travels at most
  MaxLength,     \* MessageContainer.MAXIMUM_LENGTH
  MaxSize,       \* how many requests MessageContainer.MAXIMUM_SIZE has room for
  MaxRecent,     \* MAX_RECENT_MSG_IDS
  Pump, Drain,   \* what a refused sequence number is corrected by
  Coarse,        \* may the clock read an id that is in use already?
  Calm,          \* does the clock jump only while nothing is on its way?
  Start,         \* the time at the beginning
  MaxTime,       \* bound on the time
  MaxJumps,      \* bound on jumps of the local clock
  MaxRotations,  \* bound on changes of the salt
  MaxRefusals,   \* bound on refused sequence numbers
  MaxNotes,      \* bound on what the server sends of its own accord
  MaxBoxes,      \* bound on what it puts in a container
  MaxResends,    \* bound on what it sends again
  MaxReconnects, \* bound on reconnections but for those of a dead send loop
  MaxCancels,    \* bound on cancelled futures
  MaxFaults      \* bound on all of these together

ASSUME StateAssumption ==
  /\ {MaxRequests, Start, MaxTime, Pump, Drain} \subseteq Nat /\ Start <= MaxTime
  /\ Fast \cup Slow \subseteq Nat
  /\ Fractions \subseteq 0..Slots - 1
  /\ {Slots, TooOld, TooNew, Delay, MaxLength, MaxSize, MaxRecent} \subseteq Nat
  /\ Slots > 0 /\ MaxSize > 0

(* The requests, in the order they are sent in. *)
Requests == 1..MaxRequests

Skews == {0} \cup Fast \cup {-s : s \in Slow}

VARIABLES
  big,       \* the requests that exceed the size of a packet by themselves
  time,      \* the server's clock, in seconds
  skew,      \* the local clock is ahead by this much
  offset,    \* time_offset
  last,      \* _last_msg_id
  sequence,  \* _sequence
  salt,      \* which salt of the server it is (0: none)
  recent,    \* _recent_remote_ids
  highest,   \* _highest_remote_id
  queue,     \* _send_queue
  msgId,     \* RequestState.msg_id
  contId,    \* RequestState.container_id
  pending,   \* _pending_state: a dictionary, in the order of its insertions
  loop,      \* the send loop: "on", "dead"
  fut,       \* the futures
  up,        \* packets on their way to the server
  down,      \* messages on their way to the client
  top,       \* the last id the server gave
  seen,      \* the set of messages the server executed in this session
  count,     \* how often each bounded thing happened
  ran,       \* ghost: the requests that were executed
  epoch,     \* ghost: counts the corrections of offset and sequence
  log,       \* ghost: the ids of the messages handled in this session
  missed     \* ghost: what was ignored and never handled before: refusals,
             \* and results, although the clock did not fall back

clock  == <<time, skew, big>>
state  == <<offset, last, sequence, salt, recent, highest>>
packer == <<queue, msgId, contId, pending, loop, fut>>
server == <<top, seen>>
ghosts == <<ran, epoch, log, missed>>
vars   == <<clock, state, packer, up, down, server, count, ghosts>>

Bound == [tick |-> MaxTime - Start, jump |-> MaxJumps, rotate |-> MaxRotations, refuse |-> MaxRefusals,
          note |-> MaxNotes, box |-> MaxBoxes, resend |-> MaxResends,
          reconnect |-> MaxReconnects, cancel |-> MaxCancels]

Count(what) ==
  /\ count[what] < Bound[what]
  /\ count.tick + count.jump + count.rotate + count.refuse + count.note + count.box
       + count.resend + count.reconnect + count.cancel < MaxFaults
  /\ count' = [count EXCEPT ![what] = @ + 1]

Second(id) == id \div Slots

(* What is at some of the positions of a sequence, in their order.         *)
Rank(I, i) == Cardinality({j \in I : j <= i})
Pick(s, I) == [k \in 1..Cardinality(I) |-> s[CHOOSE i \in I : Rank(I, i) = k]]

-----------------------------------------------------------------------------
(* Ids and sequence numbers                                                *)

(* Mutant: the clock alone says what the next id is. *)
NewId_Unchecked(l, now) == now

(* _get_new_msg_id *)
NewId(l, now) == IF l >= now THEN l + 1 ELSE now

(* time.time() + time_offset *)
Reading(f) == (time + skew + offset) * Slots + f

(* write_data_as_message: the messages of a batch, read from one instant.  *)
Message(r, i, now) ==
  [id |-> NewId(last, now) + i - 1, seq |-> 2 * (sequence + i) - 1, req |-> r]

(* The container has an id and a number of its own. *)
Packet(batch, now) ==
  LET n == Len(batch) IN
  [msgs    |-> [i \in 1..n |-> Message(batch[i], i, now)],
   id      |-> NewId(last, now) + (IF n > 1 THEN n ELSE 0),
   seq     |-> IF n > 1 THEN 2 * (sequence + n) ELSE 2 * sequence + 1,
   salt    |-> salt,
   sent    |-> time,
   epoch   |-> epoch]

-----------------------------------------------------------------------------
(* The send loop: MessagePacker.get                                        *)

(* _pending_state[state.msg_id] = state: an id that is there keeps its     *)
(* place.  The ids of the messages differ. *)
Put(dict, msgs) ==
  LET entry(m) == [id |-> m.id, req |-> m.req]
      new == {j \in DOMAIN msgs : \A i \in DOMAIN dict : dict[i].id # msgs[j].id}
      again(id) == {m \in Range(msgs) : m.id = id}
  IN [i \in DOMAIN dict |-> IF again(dict[i].id) = {} THEN dict[i]
                            ELSE entry(CHOOSE m \in again(dict[i].id) : TRUE)]
       \o Pick([j \in DOMAIN msgs |-> entry(msgs[j])], new)

(* Leading requests that are too big are taken out of the queue. *)
Oversized == Min({n \in 0..Len(queue) : n < Len(queue) => queue[n + 1] \notin big})

(* The batch ends before the first request that does not fit. *)
Batch(q) ==
  LET ends == {n \in 0..MaxLength + 1 :
                 n \in {MaxLength + 1, MaxSize} \/ (n < Len(q) => q[n + 1] \in big)}
  IN  [i \in 1..Min(ends) |-> q[i]]

InUse ==
  {pending[i].id : i \in DOMAIN pending} \cup {contId[r] : r \in Requests}
    \cup {s.id : s \in seen} \cup UNION {{m.id : m \in Range(p.msgs)} : p \in Range(up)}

(* When the clock is read: one that is not coarse shows no id again, what  *)
(* is read then is the next instant. *)
Free(f, n) == {NewId(last, Reading(f)) + i : i \in 0..n} \cap InUse = {}

Instants(n) ==
  {f \in 0..Slots - 1 :
     \/ Coarse /\ f \in Fractions
     \/ ~Coarse /\ \E g \in Fractions :
          g <= f /\ Free(f, n) /\ \A h \in g..f - 1 : ~Free(h, n)}

Mail(batch, now) ==
  LET p == Packet(batch, now)
      Index(r) == CHOOSE i \in DOMAIN batch : batch[i] = r
  IN
  /\ last' = p.id
  /\ sequence' = sequence + Len(batch)
  /\ msgId' = [r \in Requests |-> IF r \in Range(batch) THEN p.msgs[Index(r)].id
                                                        ELSE msgId[r]]
  /\ contId' = IF Len(batch) = 1 THEN contId
               ELSE [r \in Requests |-> IF r \in Range(batch) THEN p.id ELSE contId[r]]
  /\ pending' = Put(pending, p.msgs)
  /\ up' = Append(up, p)

(* A packet of the next requests.  The future of one that is too big gets  *)
(* an exception, and if it was cancelled that raises. *)
Send ==
  LET n == Oversized
      fails == SubSeq(queue, 1, n)
      bad == {i \in 1..n : fut[fails[i]] # "waiting"}
      told == IF bad = {} THEN Range(fails) ELSE Range(SubSeq(fails, 1, Min(bad) - 1))
      rest == SubSeq(queue, n + 1, Len(queue))
  IN
  /\ loop = "on"
  /\ queue # <<>>
  /\ fut' = [r \in Requests |-> IF r \in told THEN "error" ELSE fut[r]]
  /\ \/ /\ bad # {}
        /\ loop' = "dead"
        /\ queue' = SubSeq(queue, Min(bad) + 1, Len(queue))
        /\ UNCHANGED <<last, sequence, msgId, contId, pending, up>>
     \/ /\ bad = {}
        /\ \E batch \in {Batch(rest)} :
             /\ queue' = SubSeq(rest, Len(batch) + 1, Len(rest))
             /\ IF batch = <<>>
                THEN UNCHANGED <<last, sequence, msgId, contId, pending, up>>
                ELSE \E f \in Instants(Len(batch)) : Mail(batch, Reading(f))
        /\ UNCHANGED loop
  /\ UNCHANGED <<clock, offset, salt, recent, highest, down, server, count,
                 ghosts>>

Submit(r) ==
  /\ fut[r] = "new"
  /\ \A q \in 1..r - 1 : fut[q] # "new"
  /\ fut' = [fut EXCEPT ![r] = "waiting"]
  /\ queue' = Append(queue, r)
  /\ UNCHANGED <<clock, state, msgId, contId, pending, loop, up, down, server, count,
                 ghosts>>

Cancel(r) ==
  /\ fut[r] = "waiting"
  /\ Count("cancel")
  /\ fut' = [fut EXCEPT ![r] = "cancelled"]
  /\ UNCHANGED <<clock, state, queue, msgId, contId, pending, loop, up, down, server,
                 ghosts>>

-----------------------------------------------------------------------------
(* The server                                                              *)

NextId == IF top >= time * Slots THEN top + 1 ELSE time * Slots

(* A second has ids enough for what the server sends in it. *)
Room(n) == NextId + n < (time + 1) * Slots

(* It has a new salt with every rotation, and tells it when it refuses     *)
(* another, and when it has made a session. *)
CurrentSalt == count["rotate"] + 1

Reply(type, ref, i) ==
  [id |-> NextId + i, type |-> type, ref |-> ref, sent |-> time, boxed |-> FALSE,
   salt |-> IF type \in {"salt", "session"} THEN CurrentSalt ELSE 0]

(* What the server may refuse a packet for. *)
Faults(p) ==
  {t \in {"salt"} : p.salt # CurrentSalt} \cup
  {t \in {"low"} : Second(p.id) < time - TooOld} \cup
  {t \in {"high"} : Second(p.id) > time + TooNew}

Refuse(t) ==
  /\ up # <<>>
  /\ t \in Faults(Head(up))
  /\ Room(0)
  /\ down' = down \cup {Reply(t, Head(up).id, 0)}
  /\ top' = NextId
  /\ up' = Tail(up)
  /\ UNCHANGED <<clock, state, packer, seen, count, ghosts>>

(* A sequence number is refused. *)
RefuseSeq(t) ==
  /\ up # <<>>
  /\ Faults(Head(up)) = {}
  /\ Count("refuse")
  /\ Room(0)
  /\ down' = down \cup {Reply(t, Head(up).id, 0)}
  /\ top' = NextId
  /\ up' = Tail(up)
  /\ UNCHANGED <<clock, state, packer, seen, ghosts>>

Sent(p, i) == [id |-> p.msgs[i].id, seq |-> p.msgs[i].seq, epoch |-> p.epoch]

(* It executes what it has not seen. *)
Serve ==
  LET p == Head(up)
      fresh == {i \in DOMAIN p.msgs : \A s \in seen : s.id # p.msgs[i].id}
  IN
  /\ up # <<>>
  /\ Faults(p) = {}
  /\ Room(Len(p.msgs) - 1)
  /\ seen' = seen \cup {Sent(p, i) : i \in fresh}
  /\ ran' = ran \cup {p.msgs[i].req : i \in fresh}
  /\ down' = down \cup {Reply("result", p.msgs[i].id, i - 1) : i \in fresh}
  /\ top' = IF fresh = {} THEN top ELSE NextId + Len(p.msgs) - 1
  /\ up' = Tail(up)
  /\ UNCHANGED <<clock, state, packer, count, epoch, log, missed>>

(* Updates, and that it has made a session. *)
Notify(t) ==
  /\ Count("note")
  /\ Room(0)
  /\ down' = down \cup {Reply(t, 0, 0)}
  /\ top' = NextId
  /\ UNCHANGED <<clock, state, packer, up, seen, ghosts>>

(* A message comes in a container, whose id is the one that counts.  (What *)
(* else is in the container is left out.) *)
Enclose(m) ==
  /\ m \in down
  /\ ~m.boxed
  /\ m.sent = time
  /\ Count("box")
  /\ Room(0)
  /\ down' = (down \ {m}) \cup {[m EXCEPT !.id = NextId, !.boxed = TRUE]}
  /\ top' = NextId
  /\ UNCHANGED <<clock, state, packer, up, seen, ghosts>>

Rotate ==
  /\ Count("rotate")
  /\ UNCHANGED <<clock, state, packer, up, down, server, ghosts>>

-----------------------------------------------------------------------------
(* decrypt_message_data                                                    *)

(* Mutants: any lower id; only ids that are lower. *)
Repeated_Lower(id) == id <= highest
Repeated_Below(id) == id < highest /\ id \in Range(recent)

Repeated(id) == id <= highest /\ id \in Range(recent)

Timely(m) ==
  LET delta == time + skew + offset - Second(m.id) IN
  delta <= TooOld /\ -delta <= TooNew

(* The clock fell back, and the offset does not make up for it. *)
Behind == skew + offset < -TooNew

Service == {"salt", "low", "high", "seqlow", "seqhigh"}

(* Only the outermost message is looked at. *)
IsService(m) == m.type \in Service /\ ~m.boxed

Ignored(m) ==
  \/ Repeated(m.id)
  \/ ~IsService(m) /\ ~Timely(m)

(* Mutant: a deque without a bound. *)
Remember_All(id) ==
  /\ recent' = Append(recent, id)
  /\ highest' = id
  /\ log' = Append(log, id)

(* deque(maxlen) *)
Remember(id) ==
  /\ recent' = LET ids == Append(recent, id) IN
               IF Len(ids) > MaxRecent THEN Tail(ids) ELSE ids
  /\ highest' = id
  /\ log' = Append(log, id)

-----------------------------------------------------------------------------
(* Handlers                                                                *)

(* The offset that makes the local clock read what the id says.            *)
Correct(id) == Second(id) - (time + skew)

(* update_time_offset, from where the offset and the last id are. *)
UpdateTimeOffset(id, o, l, f) ==
  LET bad == NewId(l, (time + skew + o) * Slots + f)
      new == Correct(id)
  IN [offset |-> new, last |-> IF new # o THEN 0 ELSE bad]

(* Mutant: a container is not looked for. *)
Popped_Own(id) == {i \in DOMAIN pending : pending[i].id = id}

(* Where the requests are that have this id, or else this container. *)
Popped(id) ==
  LET own == {i \in DOMAIN pending : pending[i].id = id} IN
  IF own # {} THEN own ELSE {i \in DOMAIN pending : contId[pending[i].req] = id}

Entries(es) == [i \in DOMAIN es |-> es[i].req]

(* Mutant: only one request of a container is sent again. *)
Resend_One(id) ==
  /\ pending' = Pick(pending, DOMAIN pending \ Popped(id))
  /\ queue' = queue \o SubSeq(Entries(Pick(pending, Popped(id))), 1, 1)

(* _pop_states, and what it popped is sent again. *)
Resend(id) ==
  /\ pending' = Pick(pending, DOMAIN pending \ Popped(id))
  /\ queue' = queue \o Entries(Pick(pending, Popped(id)))

(* The first message of a session corrects the clock if it is a service    *)
(* message, before it is handled. *)
FirstOffset(m, f) ==
  IF IsService(m) /\ highest = 0 /\ offset = 0
  THEN UpdateTimeOffset(m.id, offset, last, f)
  ELSE [offset |-> offset, last |-> last]

Clock(c) ==
  /\ offset' = c.offset
  /\ last' = c.last

NewEpoch(changed) == epoch' = IF changed THEN epoch + 1 ELSE epoch

(* Mutant: the future may be cancelled. *)
CanSet_Unchecked(r) == fut[r] # "new"

CanSet(r) == fut[r] = "waiting"

(* _handle_rpc_result *)
HandleResult(m) ==
  LET heard == {e.req : e \in {x \in Range(pending) : x.id = m.ref}} IN
  /\ m.type = "result"
  /\ pending' = Pick(pending, {i \in DOMAIN pending : pending[i].id # m.ref})
  /\ fut' = [r \in Requests |-> IF r \in heard /\ CanSet(r) THEN "answered" ELSE fut[r]]
  /\ UNCHANGED <<offset, last, sequence, salt, queue, epoch>>

(* _handle_update, _handle_new_session_created *)
HandleNote(m) ==
  /\ m.type \in {"note", "session"}
  /\ salt' = IF m.type = "session" THEN m.salt ELSE salt
  /\ UNCHANGED <<offset, last, sequence, queue, pending, fut, epoch>>

(* _handle_bad_server_salt *)
HandleSalt(m) ==
  /\ m.type = "salt"
  /\ salt' = m.salt
  /\ \E f \in Instants(0) : Clock(FirstOffset(m, f))
  /\ Resend(m.ref)
  /\ NewEpoch(offset' # offset)
  /\ UNCHANGED <<sequence, fut>>

(* _handle_bad_notification *)
HandleTime(m) ==
  /\ m.type \in {"low", "high"}
  /\ \E f \in Instants(0) :
       LET c == FirstOffset(m, f) IN Clock(UpdateTimeOffset(m.id, c.offset, c.last, f))
  /\ Resend(m.ref)
  /\ NewEpoch(offset' # offset)
  /\ UNCHANGED <<sequence, salt, fut>>

HandleSeq(m) ==
  /\ m.type \in {"seqlow", "seqhigh"}
  /\ sequence' = IF m.type = "seqlow" THEN sequence + Pump ELSE sequence - Drain
  /\ \E f \in Instants(0) : Clock(FirstOffset(m, f))
  /\ Resend(m.ref)
  /\ NewEpoch(TRUE)
  /\ UNCHANGED <<salt, fut>>

(* What should not be ignored. *)
Matters(m) ==
  /\ m.id \notin Range(log)
  /\ m.type \in Service \/ (m.type = "result" /\ ~Behind)

(* The server may send a message again. *)
Delivered(m) ==
  \/ down' = down \ {m} /\ UNCHANGED count
  \/ down' = (down \ {m}) \cup {[m EXCEPT !.sent = time]} /\ Count("resend")

Receive(m) ==
  /\ m \in down
  /\ Delivered(m)
  /\ \/ /\ Ignored(m)
        /\ missed' = IF Matters(m) THEN missed \cup {m} ELSE missed
        /\ UNCHANGED <<state, packer, epoch, log>>
     \/ /\ ~Ignored(m)
        /\ Remember(m.id)
        /\ HandleResult(m) \/ HandleNote(m) \/ HandleSalt(m) \/ HandleTime(m) \/ HandleSeq(m)
        /\ UNCHANGED <<msgId, contId, loop, missed>>
  /\ UNCHANGED <<clock, up, server, ran>>

-----------------------------------------------------------------------------
(* Time, and the link                                                      *)

OnItsWay == {up[i].sent : i \in DOMAIN up} \cup {m.sent : m \in down}

Tick ==
  /\ Count("tick")
  /\ \A t \in OnItsWay : time < t + Delay
  /\ time' = time + 1
  /\ UNCHANGED <<skew, big, state, packer, up, down, server, ghosts>>

(* The clock is set. *)
Jump ==
  /\ Calm => OnItsWay = {}
  /\ Count("jump")
  /\ skew' \in Skews \ {skew}
  /\ UNCHANGED <<time, big, state, packer, up, down, server, ghosts>>

(* The sender reconnects: reset(). *)
Reset ==
  /\ sequence' = 0
  /\ last' = 0
  /\ recent' = <<>>
  /\ highest' = 0
  /\ log' = <<>>
  /\ queue' = queue \o Entries(pending)
  /\ pending' = <<>>
  /\ loop' = "on"
  /\ up' = <<>>
  /\ down' = {}
  /\ seen' = {}
  /\ UNCHANGED <<clock, offset, salt, msgId, contId, fut, top, ran, epoch, missed>>

Reconnect == Count("reconnect") /\ Reset

(* Pings that are never sent are never answered either. *)
Revive == loop = "dead" /\ Reset /\ UNCHANGED count

-----------------------------------------------------------------------------
Init ==
  /\ big \in SUBSET Requests
  /\ time = Start
  /\ skew = 0
  /\ offset = 0
  /\ last = 0
  /\ sequence = 0
  /\ salt = 0
  /\ recent = <<>>
  /\ highest = 0
  /\ queue = <<>>
  /\ msgId = [r \in Requests |-> 0]
  /\ contId = [r \in Requests |-> 0]
  /\ pending = <<>>
  /\ loop = "on"
  /\ fut = [r \in Requests |-> "new"]
  /\ up = <<>>
  /\ down = {}
  /\ top = 0
  /\ seen = {}
  /\ count = [b \in DOMAIN Bound |-> 0]
  /\ ran = {}
  /\ epoch = 0
  /\ log = <<>>
  /\ missed = {}

Answering == Serve \/ \E t \in {"salt", "low", "high"} : Refuse(t)
Receiving == \E m \in down : Receive(m)

Next ==
  \/ \E r \in Requests : Submit(r) \/ Cancel(r)
  \/ Send
  \/ Answering \/ RefuseSeq("seqlow") \/ RefuseSeq("seqhigh")
  \/ Notify("note") \/ Notify("session") \/ Rotate
  \/ \E m \in down : Enclose(m)
  \/ Receiving
  \/ Tick \/ Jump \/ Reconnect \/ Revive

Spec == Init /\ [][Next]_vars

(* The loops run, the server answers, and a dead send loop is noticed.     *)
FairSpec ==
  Spec /\ WF_vars(Send) /\ WF_vars(Answering) /\ WF_vars(Receiving) /\ WF_vars(Revive)

-----------------------------------------------------------------------------
(* Properties.                                                             *)

(* Types; a pending request is known by the id it was last given.          *)
TypeOK ==
  /\ big \subseteq Requests
  /\ time \in Start..MaxTime
  /\ skew \in Skews
  /\ {offset, sequence} \subseteq Int
  /\ {last, highest, top, epoch, salt} \subseteq Nat
  /\ Len(recent) <= MaxRecent
  /\ queue \in Seq(Requests)
  /\ msgId \in [Requests -> Nat]
  /\ contId \in [Requests -> Nat]
  /\ \A i \in DOMAIN pending : pending[i].id = msgId[pending[i].req]
  /\ loop \in {"on", "dead"}
  /\ fut \in [Requests -> {"new", "waiting", "answered", "error", "cancelled"}]
  /\ count \in [DOMAIN Bound -> Nat]
  /\ ran \subseteq Requests

(* What a packet consists of: its messages, and the container they are in. *)
Contents(p) ==
  {Sent(p, i) : i \in DOMAIN p.msgs} \cup {[id |-> p.id, seq |-> p.seq, epoch |-> p.epoch]}

Before(a, b) == a.epoch = b.epoch => a.id < b.id /\ a.seq < b.seq

(* Between two corrections, the server sees ids and sequence numbers grow  *)
(* together, within a packet, from packet to packet, and among what it has *)
(* executed, whatever the clock does. *)
OrderAgrees ==
  /\ \A a, b \in seen : a = b \/ Before(a, b) \/ Before(b, a)
  /\ \A i \in DOMAIN up :
       /\ \A a \in seen, b \in Contents(up[i]) : Before(a, b)
       /\ \A m, n \in DOMAIN up[i].msgs :
            m < n => Before(Sent(up[i], m), Sent(up[i], n)) /\ Before(Sent(up[i], n), up[i])
       /\ \A j \in DOMAIN up : i < j =>
            \A a \in Contents(up[i]), b \in Contents(up[j]) : Before(a, b)

(* A request somebody waits for is queued or pending. *)
NoneLost ==
  \A r \in Requests : fut[r] = "waiting" =>
    r \in Range(queue) \/ r \in Range(Entries(pending))

(* A message, or a container, is handled again only if one with a lower id *)
(* was handled in between, or it fell out of the ids that are remembered.  *)
RepeatsFiltered ==
  \A i, j \in DOMAIN log :
    i < j /\ log[i] = log[j] =>
      \/ \E k \in i + 1..j - 1 : log[k] < log[i]
      \/ j - i > MaxRecent

(* The answer to a request is not ignored, unless the clock fell back. *)
Heard == \A m \in missed : m.type # "result"

(* The callers see what Rpc promises. *)
RpcSpec == INSTANCE Rpc WITH Requests <- Requests, fut <- fut, ran <- ran
Promise == RpcSpec!Spec

(* A refusal came in a container, and was ignored for its age.             *)
Deaf == \E m \in missed : m.type \in Service

(* Whoever waits is told something in the end, unless the clock falls back *)
(* or a refusal was ignored. *)
Answered ==
  \A r \in Requests : fut[r] = "waiting" ~> fut[r] # "waiting" \/ Behind \/ Deaf
=============================================================================
