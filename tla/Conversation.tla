---------------------------- MODULE Conversation ----------------------------
(***************************************************************************)
(* A conversation (telethon/tl/custom/conversation.py): the user sends     *)
(* messages and awaits responses, replies, edits and reads, while the      *)
(* dispatch of updates (telethon/client/updates.py) feeds it what happens  *)
(* in the chat before it calls the event handlers.                         *)
(*                                                                         *)
(* The part of a dispatch that concerns a conversation awaits nothing, so  *)
(* it is one step.  wait_event is left out.                                *)
(***************************************************************************)
EXTENDS Integers, Sequences, SequencesExt, FiniteSetsExt, Functions

CONSTANTS
  Shared,       \* replies_are_responses
  MaxIncoming,  \* max_messages
  MaxTop,       \* bound on the messages of the chat
  MaxSends,     \* bound on the messages the user sends
  MaxAsks,      \* bound on the calls of get_response, get_reply, get_edit, wait_read
  MaxEdits,     \* bound on the edits
  MaxReads,     \* bound on the read marks
  MaxTimeouts,  \* bound on the timeouts
  MaxCancels,   \* bound on the calls of cancel()
  MaxAgain,     \* bound on how often the conversation is entered again
  MaxEvents     \* bound on edits, read marks, timeouts, cancellations and
                \* entering again together

ASSUME ConversationAssumption ==
  /\ Shared \in BOOLEAN
  /\ {MaxIncoming, MaxTop, MaxSends, MaxAsks, MaxEdits, MaxReads, MaxTimeouts, MaxCancels,
      MaxAgain, MaxEvents}
       \subseteq Nat

Ids == 1..MaxTop
Asks == 1..MaxAsks
Kinds == {"response", "reply", "edit", "read"}

VARIABLES
  open,       \* is it in client._conversations?  "new", "open", "closed"
  cancelled,  \* _cancelled
  top,        \* the id of the last message of the chat
  mine,       \* those the user sent
  sending,    \* the message whose sending has not returned yet (0: none)
  outgoing,   \* _outgoing
  incoming,   \* _incoming
  pending,    \* _pending_responses, _pending_replies, _pending_edits and
              \* _pending_reads: sets of entries with the time of insertion
  indices,    \* _response_indices, _reply_indices (-1: absent)
  editDates,  \* _edit_dates (0: absent)
  lastRead,   \* _last_read (-1: None)
  asked,      \* how many calls there were
  ask,        \* their kinds and targets
  fut,        \* their futures
  got,        \* what they returned
  date,       \* the date of the last edit
  count,      \* how often each bounded thing happened
  lost,       \* ghost: the updates whose dispatch raised before the handlers
  stale       \* ghost: has a future ended without being taken out of its
              \* dictionary, or been replaced in it?

chat  == <<top, mine, sending, outgoing, date>>
memory == <<incoming, indices, editDates, lastRead>>
calls == <<asked, ask>>
vars  == <<open, cancelled, chat, memory, pending, calls, fut, got, count, lost, stale>>

Bound == [edit |-> MaxEdits, read |-> MaxReads, timeout |-> MaxTimeouts,
          cancel |-> MaxCancels, again |-> MaxAgain]

Count(what) ==
  /\ count[what] < Bound[what]
  /\ count.edit + count.read + count.timeout + count.cancel + count.again < MaxEvents
  /\ count' = [count EXCEPT ![what] = @ + 1]

(* The date of its last edit, and how many edits there were until then.    *)
NoMessage == [id |-> 0, reply |-> 0, date |-> 0, edit |-> 0]

(* A date has the resolution of a second, _EDIT_COLLISION_DELTA is less.   *)
Stamp(d) == d * (MaxEdits + 1)

-----------------------------------------------------------------------------
(* Dictionaries of futures                                                 *)

(* A future whose caller was told of a cancellation may still be set.      *)
Settable == {"waiting", "dropped"}
Settled(f, how) == IF f = "waiting" THEN how ELSE "cancelled"

(* Mutant: the future before is kept as well. *)
Put_Append(dict, t, a) == dict \cup {[target |-> t, ask |-> a, at |-> a]}

(* pending[target] = future: a target that is there keeps its place.       *)
Put(dict, t, a) ==
  LET old == {e \in dict : e.target = t} IN
  (dict \ old) \cup {[target |-> t, ask |-> a, at |-> Min({a} \cup {e.at : e \in old})]}

(* A loop that sets the futures of some entries, in the order of insertion,*)
(* ends at the first that cannot be set: it raises. *)
Stuck(es) == {e \in es : fut[e.ask] \notin Settable}
Raises(es) == Stuck(es) # {}
Served(es) == {e \in es : \A s \in Stuck(es) : e.at < s.at}
Touched(es) == {e \in es : \A s \in Stuck(es) : e.at <= s.at}

AsksOf(es) == {e.ask : e \in es}
TargetsOf(es) == {e.target : e \in es}

Tell(asks, how) == [a \in Asks |-> IF a \in asks THEN Settled(fut[a], how) ELSE fut[a]]
Give(asks, what) ==
  [a \in Asks |-> IF a \in asks /\ fut[a] = "waiting" THEN what ELSE got[a]]

-----------------------------------------------------------------------------
(* Sending                                                                 *)

Send ==
  /\ open = "open" /\ ~cancelled
  /\ sending = 0
  /\ top < MaxTop /\ Cardinality(outgoing) < MaxSends
  /\ top' = top + 1
  /\ mine' = mine \cup {top + 1}
  /\ sending' = top + 1
  /\ UNCHANGED <<open, cancelled, outgoing, date, memory, pending, calls, fut,
                 got, count, lost, stale>>

Sent ==
  /\ sending # 0
  /\ outgoing' = outgoing \cup {sending}
  /\ sending' = 0
  /\ UNCHANGED <<open, cancelled, top, mine, date, memory, pending, calls, fut, got, count,
                 lost, stale>>

-----------------------------------------------------------------------------
(* Asking                                                                  *)

Dictionary(kind) == IF Shared THEN "response" ELSE kind

(* Mutant: the first message, whatever it responds to. *)
FirstAfter_Any(t) == 0

(* The position of the first message after the target. *)
FirstAfter(t) ==
  LET later == {i \in DOMAIN incoming : incoming[i].id > t} IN
  IF later = {} THEN Len(incoming) ELSE Min(later) - 1

Index(kind, t) ==
  LET i == indices[Dictionary(kind)][t] IN IF i = -1 THEN FirstAfter(t) ELSE i

(* Mutant: only a reply is a response. *)
Responds_Reply(kind, m, t) == m.reply = t

Responds(kind, m, t) == kind = "response" \/ m.reply = t

(* _get_result: the caller awaits the future, or is told that the          *)
(* conversation was cancelled; the dictionary has it already. *)
Await(kind, t) ==
  /\ pending' = [pending EXCEPT ![kind] = Put(@, t, asked + 1)]
  /\ fut' = [fut EXCEPT ![asked + 1] = IF cancelled THEN "dropped" ELSE "waiting"]
  /\ stale' = (stale \/ t \in TargetsOf(pending[kind]))
  /\ UNCHANGED got

Return(m) ==
  /\ fut' = [fut EXCEPT ![asked + 1] = "done"]
  /\ got' = [got EXCEPT ![asked + 1] = m]
  /\ UNCHANGED <<pending, stale>>

Asking(kind, t) ==
  /\ open = "open"
  /\ asked < MaxAsks
  /\ t \in outgoing
  /\ asked' = asked + 1
  /\ ask' = [ask EXCEPT ![asked + 1] = [kind |-> kind, target |-> t]]
  /\ UNCHANGED <<open, cancelled, chat, incoming, count, lost>>

(* get_response, get_reply *)
GetMessage(kind, t) ==
  LET i == Index(kind, t)
      there == i < Len(incoming) /\ Responds(kind, incoming[i + 1], t)
  IN
  /\ Asking(kind, t)
  /\ indices' = [indices EXCEPT ![Dictionary(kind)][t] = IF there THEN i + 1 ELSE i]
  /\ IF there THEN Return(incoming[i + 1]) ELSE Await(kind, t)
  /\ UNCHANGED <<editDates, lastRead>>

Edited(t) ==
  {i \in DOMAIN incoming : incoming[i].id > t /\ Stamp(incoming[i].date) > editDates[t]}

GetEdit(t) ==
  /\ Asking("edit", t)
  /\ IF Edited(t) = {}
     THEN Await("edit", t) /\ UNCHANGED editDates
     ELSE LET earliest == CHOOSE i \in Edited(t) :
                \A j \in Edited(t) \ {i} :
                  \/ incoming[i].date < incoming[j].date
                  \/ incoming[i].date = incoming[j].date /\ i < j
          IN /\ Return(incoming[earliest])
             /\ editDates' = [editDates EXCEPT ![t] = Stamp(incoming[earliest].date)]
  /\ UNCHANGED <<indices, lastRead>>

(* When the message is read already, wait_read returns None: to await that *)
(* raises. *)
WaitRead(t) ==
  LET read == IF lastRead = -1 THEN t - 1 ELSE lastRead IN
  /\ Asking("read", t)
  /\ lastRead' = read
  /\ IF read >= t
     THEN fut' = [fut EXCEPT ![asked + 1] = "error"] /\ UNCHANGED <<got, pending, stale>>
     ELSE Await("read", t)
  /\ UNCHANGED <<indices, editDates>>

(* wait_for: the future is cancelled and stays in its dictionary.          *)
Timeout(a) ==
  /\ fut[a] = "waiting"
  /\ Count("timeout")
  /\ fut' = [fut EXCEPT ![a] = "timeout"]
  /\ stale' = TRUE
  /\ UNCHANGED <<open, cancelled, chat, memory, pending, calls, got, lost>>

-----------------------------------------------------------------------------
(* Cancelling                                                              *)

(* The dictionaries of a cancellation, one after the other. *)
Chain == [response |-> 0, reply |-> 1, edit |-> 2]
Chained(kind) ==
  {[e EXCEPT !.at = @ + Chain[kind] * (MaxAsks + 1)] : e \in pending[kind]}

(* Mutant: those who await an edit are not told. *)
Cancellable_NoEdits == Chained("response") \cup Chained("reply")

Cancellable == Chained("response") \cup Chained("reply") \cup Chained("edit")

(* _cancel_all *)
CancelAll ==
  /\ cancelled' = TRUE
  /\ fut' = [a \in Asks |-> IF a \in AsksOf(Cancellable) /\ fut[a] \in Settable
                            THEN "cancelled" ELSE fut[a]]
  /\ stale' = (stale \/ Cancellable # {})

Cancel ==
  /\ open = "open"
  /\ Count("cancel")
  /\ CancelAll
  /\ UNCHANGED <<open, chat, memory, pending, calls, got, lost>>

Absent == [k \in {"response", "reply"} |-> [t \in Ids |-> -1]]

(* __aenter__, the first time and again: what is known of the reads stays. *)
Enter ==
  /\ \/ open = "new" /\ UNCHANGED count
     \/ open = "closed" /\ Count("again")
  /\ open' = "open"
  /\ cancelled' = FALSE
  /\ outgoing' = {}
  /\ incoming' = <<>>
  /\ pending' = [k \in Kinds |-> IF k = "read" THEN pending[k] ELSE {}]
  /\ indices' = Absent
  /\ editDates' = [t \in Ids |-> 0]
  /\ stale' = Raises(pending["read"])
  /\ UNCHANGED <<top, mine, sending, date, lastRead, calls, fut, got, lost>>

(* __aexit__ *)
Exit ==
  /\ open = "open"
  /\ sending = 0
  /\ open' = "closed"
  /\ CancelAll
  /\ UNCHANGED <<chat, memory, pending, calls, got, count, lost>>

-----------------------------------------------------------------------------
(* Dispatching an update: the conversation, then the handlers              *)

Dispatched(raised) == lost' = IF raised THEN lost + 1 ELSE lost

(* There are too many messages: everybody is told. *)
Overflow ==
  /\ cancelled' = TRUE
  /\ fut' = Tell(AsksOf(Served(Cancellable)), "error")
  /\ stale' = (stale \/ Cancellable # {})
  /\ Dispatched(Raises(Cancellable))
  /\ UNCHANGED <<memory, pending, got>>

(* Mutant: the position is kept. *)
Consumed_None(es, n) == [t \in Ids |-> indices["response"][t]]
Consumed(es, n) ==
  [t \in Ids |-> IF t \in TargetsOf(es) THEN n ELSE indices["response"][t]]

(* A message for those who await responses, then for those who await a     *)
(* reply to what it replies to. *)
Record(m) ==
  LET n == Len(incoming) + 1
      first == pending["response"]
      second == IF Raises(first) THEN {} ELSE {e \in pending["reply"] : e.target = m.reply}
      served == AsksOf(Served(first)) \cup AsksOf(Served(second))
      responses == Consumed(Touched(first), n)
      replied(f) == [t \in Ids |-> IF t \in TargetsOf(Touched(second)) THEN n ELSE f[t]]
  IN
  /\ incoming' = Append(incoming, m)
  /\ pending' = [pending EXCEPT !["response"] = @ \ Served(first),
                                !["reply"] = @ \ Served(second)]
  /\ fut' = Tell(served, "done")
  /\ got' = Give(served, m)
  /\ indices' = IF Shared THEN [indices EXCEPT !["response"] = replied(responses)]
                ELSE [response |-> responses, reply |-> replied(indices["reply"])]
  /\ Dispatched(Raises(first) \/ Raises(second))
  /\ UNCHANGED <<cancelled, editDates, lastRead, stale>>

(* _on_new_message *)
Arrive(r) ==
  LET m == [id |-> top + 1, reply |-> r, date |-> 0, edit |-> 0] IN
  /\ open = "open"
  /\ top < MaxTop
  /\ top' = top + 1
  /\ \/ Len(incoming) = MaxIncoming /\ Overflow
     \/ Len(incoming) < MaxIncoming /\ Record(m)
  /\ UNCHANGED <<open, mine, sending, outgoing, date, calls, count>>

(* The messages of others, those that are not saved included: there were   *)
(* too many, or it was before the conversation was entered again. *)
Theirs ==
  LET saved == {m.id : m \in Range(incoming)} IN
  Range(incoming) \cup {[NoMessage EXCEPT !.id = id] : id \in (1..top) \ (mine \cup saved)}

(* _on_edit *)
Edit(old, d) ==
  LET m == [old EXCEPT !.date = d, !.edit = count["edit"] + 1]
      es == {e \in pending["edit"] : e.target < m.id}
  IN
  /\ open = "open"
  /\ Count("edit")
  /\ date' = d
  /\ incoming' = [i \in DOMAIN incoming |-> IF incoming[i] = old THEN m ELSE incoming[i]]
  /\ editDates' = [t \in Ids |->
       IF t \notin TargetsOf(Touched(es)) THEN editDates[t]
       ELSE IF Stamp(d) <= editDates[t] THEN editDates[t] + 1 ELSE Stamp(d)]
  /\ pending' = [pending EXCEPT !["edit"] = @ \ Served(es)]
  /\ fut' = Tell(AsksOf(Served(es)), "done")
  /\ got' = Give(AsksOf(Served(es)), m)
  /\ Dispatched(Raises(es))
  /\ UNCHANGED <<open, cancelled, top, mine, sending, outgoing, indices, lastRead,
                 calls, stale>>

(* _on_read *)
Read(max) ==
  LET es == {e \in pending["read"] : e.target >= max} IN
  /\ open = "open"
  /\ Count("read")
  /\ lastRead' = max
  /\ pending' = [pending EXCEPT !["read"] = @ \ Served(es)]
  /\ fut' = Tell(AsksOf(Served(es)), "done")
  /\ Dispatched(Raises(es))
  /\ UNCHANGED <<open, cancelled, chat, incoming, indices, editDates, calls, got, stale>>

-----------------------------------------------------------------------------
Init ==
  /\ open = "new"
  /\ cancelled = FALSE
  /\ top = 0
  /\ mine = {}
  /\ sending = 0
  /\ outgoing = {}
  /\ incoming = <<>>
  /\ pending = [k \in Kinds |-> {}]
  /\ indices = Absent
  /\ editDates = [t \in Ids |-> 0]
  /\ lastRead = -1
  /\ asked = 0
  /\ ask = [a \in Asks |-> [kind |-> "read", target |-> 0]]
  /\ fut = [a \in Asks |-> "none"]
  /\ got = [a \in Asks |-> NoMessage]
  /\ date = 1
  /\ count = [b \in DOMAIN Bound |-> 0]
  /\ lost = 0
  /\ stale = FALSE

Next ==
  \/ Enter \/ Send \/ Sent
  \/ \E t \in outgoing :
       \/ GetMessage("response", t) \/ GetMessage("reply", t)
       \/ GetEdit(t) \/ WaitRead(t)
  \/ \E a \in Asks : Timeout(a)
  \/ Cancel \/ Exit
  \/ \E r \in mine \cup {0} : Arrive(r)
  \/ \E m \in Theirs, d \in {date, date + 1} : Edit(m, d)
  \/ \E max \in mine : Read(max)

Spec == Init /\ [][Next]_vars

-----------------------------------------------------------------------------
(* Properties.                                                             *)

(* Types; at most one future for each target in each dictionary.           *)
TypeOK ==
  /\ open \in {"new", "open", "closed"}
  /\ {cancelled, stale} \subseteq BOOLEAN
  /\ outgoing \subseteq mine /\ mine \subseteq 1..top
  /\ top \in 0..MaxTop
  /\ Len(incoming) <= MaxIncoming
  /\ \A k \in Kinds : \A d, e \in pending[k] : d.target = e.target => d = e
  /\ \A k \in {"response", "reply"} : indices[k] \in [Ids -> -1..Len(incoming)]
  /\ editDates \in [Ids -> Nat]
  /\ lastRead \in -1..MaxTop
  /\ asked \in 0..MaxAsks
  /\ fut \in [Asks -> {"none", "waiting", "done", "timeout", "cancelled", "error",
                       "dropped"}]
  /\ lost \in Nat

Like(a, b) == ask[a] = ask[b] /\ fut[a] = "done" /\ fut[b] = "done"

(* The same question is not answered twice with the same message, or the   *)
(* same edit: not by what is saved and then by what arrives. *)
Once ==
  \A a, b \in Asks : a # b /\ Like(a, b) /\ ask[a].kind # "read" => got[a] # got[b]

Answers(t) == {a \in 1..asked : ask[a] = [kind |-> "response", target |-> t]}

(* Who asks for response after response, and gets them, gets the messages  *)
(* after the target one by one, from the first that came after it, those   *)
(* that came before the question, and before the sending returned,         *)
(* included; unless the dispatch of a message raised, which skips it for   *)
(* those behind. *)
NoneSkipped ==
  \A t \in outgoing :
    LET as == Answers(t)
        n == Cardinality(as)
    IN
    lost = 0 /\ (\A a \in as : fut[a] = "done") /\ (Shared => \A a \in 1..asked : ask[a].kind # "reply")
      => \E first \in 0..Len(incoming) - n :
           /\ \A i \in 1..first : incoming[i].id <= t
           /\ first < Len(incoming) => incoming[first + 1].id > t
           /\ {got[a].id : a \in as} = {incoming[i].id : i \in first + 1..first + n}

(* Nobody waits for a response that is there, unless a future ended and    *)
(* stayed in its dictionary. *)
Prompt ==
  ~stale => \A e \in pending["response"] : indices["response"][e.target] = Len(incoming)

(* Once the conversation is cancelled, by the user, by its end or by too   *)
(* many messages, nobody awaits a response, a reply or an edit any more,   *)
(* not even with a call made later; unless the future was replaced by a    *)
(* later one, or a dispatch raised. *)
Told ==
  cancelled /\ lost = 0 => \A k \in Kinds \ {"read"} : \A e \in pending[k] :
                            fut[e.ask] # "waiting"

(* Every update reaches the handlers. *)
Delivered == lost = 0
=============================================================================
