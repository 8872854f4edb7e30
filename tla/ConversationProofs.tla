------------------------ MODULE ConversationProofs ------------------------
(***************************************************************************)
(* Answers are given once and in order, nobody waits for what is there,    *)
(* and a cancellation reaches everybody: proofs about Conversation for any *)
(* number of messages, calls, edits, timeouts and cancellations.           *)
(***************************************************************************)
EXTENDS Conversation, FiniteSetTheorems, WellFoundedInduction, TLAPS

Messages == [id : Nat, reply : Nat, date : Nat, edit : Nat]
Requests == [kind : Kinds, target : Nat]
Entries == [target : Nat, ask : Nat, at : Nat]
Indices == {"response", "reply"}

(* Types of what TypeOK leaves open. *)
Shape ==
  /\ incoming \in Seq(Messages)
  /\ pending \in [Kinds -> SUBSET Entries]
  /\ indices \in [Indices -> [Ids -> Int]]
  /\ ask \in [Asks -> Requests]
  /\ got \in [Asks -> Messages]
  /\ count \in [DOMAIN Bound -> Nat]
  /\ date \in Nat
  /\ sending \in mine \cup {0} /\ sending \notin outgoing
  /\ stale \in BOOLEAN /\ cancelled \in BOOLEAN

(* A call has a message as its target whose sending returned.              *)
Targeted == \A a \in 1..asked : ask[a].target \in mine \ {sending}

(* A future in a dictionary belongs to the call of that kind and target;   *)
(* only those of wait_read stay when the conversation is entered again.    *)
OfCalls ==
  \A k \in Kinds : \A e \in pending[k] :
    /\ e.ask \in 1..asked
    /\ k # "read" => e.target \in outgoing
    /\ ask[e.ask] = [kind |-> k, target |-> e.target]

(* Calls yet to come have none. *)
Owned ==
  /\ Targeted
  /\ OfCalls
  /\ \A a \in Asks : a > asked => fut[a] = "none"
  /\ \A a \in Asks : fut[a] = "none" => a > asked

TypeInv == TypeOK /\ Shape /\ Owned

-----------------------------------------------------------------------------
(* Operators                                                               *)

LEMMA Least ==
  ASSUME NEW S, S \subseteq Nat, S # {}
  PROVE  Min(S) \in S /\ \A y \in S : Min(S) <= y
<1> DEFINE R == {p \in Nat \X Nat : p[1] < p[2]}
<1>1. IsWellFoundedOn(R, Nat)
  <2>1. R = OpToRel(<, Nat)
    BY Zenon DEF OpToRel
  <2> HIDE DEF R
  <2> QED BY <2>1, NatLessThanWellFounded, Zenon
<1>2. PICK x \in S : \A y \in S : ~ (<<y, x>> \in R)
  <2> HIDE DEF R
  <2> QED BY <1>1, WFMin, Zenon
<1>3. ASSUME NEW y \in S PROVE x <= y
  <2>1. x \in Nat /\ y \in Nat /\ <<y, x>> \notin R
    BY <1>2
  <2>2. ~ (y < x)
    BY <2>1
  <2> QED BY <2>1, <2>2
<1> QED BY <1>3 DEF Min

(* A dictionary has one entry for the target afterwards, the new one.      *)
LEMMA PutEntry ==
  ASSUME NEW dict, dict \subseteq Entries, NEW t \in Nat, NEW a \in Nat
  PROVE  \E at \in Nat :
           Put(dict, t, a) = {e \in dict : e.target # t}
                               \cup {[target |-> t, ask |-> a, at |-> at]}
<1> DEFINE old == {e \in dict : e.target = t}
           ats == {a} \cup {e.at : e \in old}
<1>1. ats \subseteq Nat /\ ats # {}
  BY DEF Entries
<1>2. Min(ats) \in Nat
  <2> HIDE DEF ats
  <2> QED BY <1>1, Least
<1>3. Put(dict, t, a) = (dict \ old) \cup {[target |-> t, ask |-> a, at |-> Min(ats)]}
  BY DEF Put
<1>4. dict \ old = {e \in dict : e.target # t}
  OBVIOUS
<1> HIDE DEF ats, old
<1> QED BY <1>2, <1>3, <1>4

(* The position of the first message after the target: all before it are   *)
(* not after the target, and it is, if there is one. *)
FirstIn(s, t) ==
  LET later == {i \in DOMAIN s : s[i].id > t} IN
  IF later = {} THEN Len(s) ELSE Min(later) - 1

LEMMA FirstPositionIn ==
  ASSUME NEW s \in Seq(Messages), NEW t \in Nat
  PROVE  /\ FirstIn(s, t) \in 0..Len(s)
         /\ \A i \in 1..FirstIn(s, t) : s[i].id <= t
         /\ FirstIn(s, t) < Len(s) => s[FirstIn(s, t) + 1].id > t
<1> DEFINE later == {i \in DOMAIN s : s[i].id > t}
<1>0. DOMAIN s = 1..Len(s) /\ Len(s) \in Nat
  OBVIOUS
<1>1. \A i \in 1..Len(s) : s[i].id \in Nat
  <2> TAKE i \in 1..Len(s)
  <2>1. s[i] \in Messages
    OBVIOUS
  <2> QED BY <2>1 DEF Messages
<1>2. CASE later = {}
  <2>1. FirstIn(s, t) = Len(s)
    BY <1>2 DEF FirstIn
  <2> QED BY <1>0, <1>1, <1>2, <2>1
<1>3. CASE later # {}
  <2>1. later \subseteq Nat
    BY <1>0
  <2>2. FirstIn(s, t) = Min(later) - 1
    BY <1>3 DEF FirstIn
  <2>3. Min(later) \in later /\ \A y \in later : Min(later) <= y
    <3> HIDE DEF later
    <3> QED BY <1>3, <2>1, Least
  <2> DEFINE m == Min(later)
  <2>4. m \in 1..Len(s) /\ s[m].id > t
    BY <1>0, <2>3
  <2>5. ASSUME NEW i \in 1..(m - 1) PROVE s[i].id <= t
    <3>1. i \in 1..Len(s) /\ ~(m <= i)
      BY <1>0, <2>4
    <3>2. i \notin later
      BY <2>3, <3>1
    <3>3. ~(s[i].id > t)
      BY <1>0, <3>1, <3>2
    <3> QED BY <1>1, <3>1, <3>3
  <2> HIDE DEF m, later
  <2>6. FirstIn(s, t) = m - 1
    BY <2>2 DEF m
  <2>7. m - 1 \in 0..Len(s) /\ m - 1 + 1 = m
    BY <1>0, <2>4
  <2> QED BY <2>4, <2>5, <2>6, <2>7
<1> QED BY <1>2, <1>3

LEMMA FirstPosition ==
  ASSUME incoming \in Seq(Messages), NEW t \in Nat
  PROVE  /\ FirstAfter(t) \in 0..Len(incoming)
         /\ \A i \in 1..FirstAfter(t) : incoming[i].id <= t
         /\ FirstAfter(t) < Len(incoming) => incoming[FirstAfter(t) + 1].id > t
<1>1. FirstAfter(t) = FirstIn(incoming, t)
  BY DEF FirstAfter, FirstIn
<1> QED BY <1>1, FirstPositionIn

(* It stays where it is when messages come that are later than the target. *)
LEMMA FirstStays ==
  ASSUME NEW s \in Seq(Messages), NEW r \in Seq(Messages), NEW t \in Nat,
         Len(s) <= Len(r), \A i \in 1..Len(s) : r[i].id = s[i].id,
         \A i \in 1..Len(r) : i > Len(s) => r[i].id > t
  PROVE  FirstIn(r, t) = FirstIn(s, t)
<1> DEFINE f == FirstIn(s, t)
           g == FirstIn(r, t)
<1>1. /\ f \in 0..Len(s) /\ (\A i \in 1..f : s[i].id <= t) /\ (f < Len(s) => s[f + 1].id > t)
      /\ g \in 0..Len(r) /\ (\A i \in 1..g : r[i].id <= t) /\ (g < Len(r) => r[g + 1].id > t)
  BY FirstPositionIn
<1>2. Len(s) \in Nat /\ Len(r) \in Nat
  OBVIOUS
<1>3. (\A i \in 1..Len(s) : s[i].id \in Nat) /\ \A i \in 1..Len(r) : r[i].id \in Nat
  <2>1. (\A i \in 1..Len(s) : s[i] \in Messages) /\ \A i \in 1..Len(r) : r[i] \in Messages
    OBVIOUS
  <2> QED BY <2>1 DEF Messages
<1> HIDE DEF f, g
<1>4. ASSUME f < g PROVE FALSE
  <2>1. f + 1 \in 1..g /\ f + 1 \in 1..Len(r)
    BY <1>1, <1>2, <1>4
  <2>2. r[f + 1].id <= t /\ r[f + 1].id \in Nat
    BY <1>1, <1>3, <2>1
  <2>3. CASE f < Len(s)
    <3>1. f + 1 \in 1..Len(s) /\ s[f + 1].id > t
      BY <1>1, <1>2, <2>3
    <3>2. r[f + 1].id = s[f + 1].id
      BY <3>1
    <3> QED BY <2>2, <3>1, <3>2
  <2>4. CASE f = Len(s)
    <3>1. f + 1 > Len(s)
      BY <1>2, <2>4
    <3>2. r[f + 1].id > t
      BY <2>1, <3>1
    <3> QED BY <2>2, <3>2
  <2> QED BY <1>1, <1>2, <2>3, <2>4
<1>5. ASSUME g < f PROVE FALSE
  <2>1. g + 1 \in 1..f /\ g + 1 \in 1..Len(s) /\ g < Len(r)
    BY <1>1, <1>2, <1>5
  <2>2. s[g + 1].id <= t /\ r[g + 1].id > t /\ s[g + 1].id \in Nat
    BY <1>1, <1>3, <2>1
  <2>3. r[g + 1].id = s[g + 1].id
    BY <2>1
  <2> QED BY <2>2, <2>3
<1>6. f = g
  BY <1>1, <1>2, <1>4, <1>5
<1> QED BY <1>6 DEF f, g

(* What a loop over some entries sets and touches. *)
LEMMA ServedEntries ==
  ASSUME NEW es, \A e \in es : e.at \in Nat
  PROVE  /\ Served(es) \subseteq Touched(es) /\ Touched(es) \subseteq es
         /\ ~Raises(es) => Served(es) = es
         /\ \A e \in Served(es) : fut[e.ask] \in Settable
<1>1. Stuck(es) \subseteq es /\ Served(es) \subseteq es /\ Touched(es) \subseteq es
  BY DEF Stuck, Served, Touched
<1>2. ASSUME NEW e \in Served(es) PROVE e \in Touched(es)
  <2>1. \A s \in Stuck(es) : e.at < s.at /\ e.at \in Nat /\ s.at \in Nat
    BY <1>1, <1>2 DEF Served
  <2>2. \A s \in Stuck(es) : e.at <= s.at
    BY <2>1
  <2> QED BY <1>1, <1>2, <2>2 DEF Touched
<1>3. ~Raises(es) => Served(es) = es
  BY DEF Raises, Served
<1>4. ASSUME NEW e \in Served(es) PROVE fut[e.ask] \in Settable
  <2>1. e \in es /\ e.at \in Nat /\ (e \in Stuck(es) => e.at < e.at)
    BY <1>1, <1>4 DEF Served
  <2>2. e \notin Stuck(es)
    BY <2>1
  <2> QED BY <2>1, <2>2 DEF Stuck
<1> QED BY <1>1, <1>2, <1>3, <1>4

Outcomes == {"none", "waiting", "done", "timeout", "cancelled", "error", "dropped"}

(* Settling futures of calls that were made leaves those of the calls yet  *)
(* to come, and lets nobody wait again. *)
Ends == {"done", "error"}

Settling(g, f, asks, how) ==
  /\ f = [a \in Asks |-> f[a]]
  /\ \A a \in Asks : f[a] = IF a \in asks THEN Settled(g[a], how) ELSE g[a]

Known(g, n) ==
  /\ n \in Nat
  /\ g \in [Asks -> Outcomes]
  /\ \A a \in Asks : g[a] = "none" <=> a > n

LEMMA TellTypes ==
  ASSUME NEW n, NEW g, Known(g, n),
         NEW asks, \A a \in asks : a \in Asks /\ g[a] # "none", NEW how \in Ends,
         NEW f, Settling(g, f, asks, how)
  PROVE  /\ Known(f, n)
         /\ \A a \in Asks : f[a] = "waiting" <=> a \notin asks /\ g[a] = "waiting"
         /\ \A a \in Asks : f[a] = "done" <=>
              \/ a \in asks /\ g[a] = "waiting" /\ how = "done"
              \/ a \notin asks /\ g[a] = "done"
<1> USE DEF Known, Settling
<1>1. \A a \in Asks : f[a] = IF a \in asks THEN Settled(g[a], how) ELSE g[a]
  OBVIOUS
<1>3. \A a \in Asks : g[a] \in Outcomes
  OBVIOUS
<1>4. \A a \in Asks : Settled(g[a], how) \in Outcomes /\ Settled(g[a], how) # "none"
                    /\ Settled(g[a], how) # "waiting"
                    /\ (Settled(g[a], how) = "done" <=> g[a] = "waiting" /\ how = "done")
  BY DEF Settled, Outcomes, Ends
<1>5. f \in [Asks -> Outcomes]
  BY <1>1, <1>3, <1>4
<1>6. \A a \in asks : ~(a > n)
  OBVIOUS
<1>7. \A a \in Asks : f[a] = "none" <=> a > n
  BY <1>1, <1>4, <1>6
<1>8. \A a \in Asks : f[a] = "waiting" <=> a \notin asks /\ g[a] = "waiting"
  BY <1>1, <1>4
<1>9. \A a \in Asks : f[a] = "done" <=>
              \/ a \in asks /\ g[a] = "waiting" /\ how = "done"
              \/ a \notin asks /\ g[a] = "done"
  BY <1>1, <1>4
<1> QED BY <1>5, <1>7, <1>8, <1>9

LEMMA GiveTypes ==
  ASSUME got \in [Asks -> Messages], NEW m \in Messages, NEW asks
  PROVE  Give(asks, m) \in [Asks -> Messages]
BY DEF Give

LEMMA StampNat ==
  ASSUME NEW d \in Nat
  PROVE  Stamp(d) \in Nat
<1>1. MaxEdits \in Nat
  BY ConversationAssumption
<1> QED BY <1>1 DEF Stamp

(* A future is in one dictionary, for one target. *)
LEMMA EntryUnique ==
  ASSUME TypeInv
  PROVE  \A k, l \in Kinds : \A e \in pending[k], f \in pending[l] :
           e.ask = f.ask => k = l /\ e = f
<1> TAKE k, l \in Kinds
<1> TAKE e \in pending[k], f \in pending[l]
<1> HAVE e.ask = f.ask
<1>1. [kind |-> k, target |-> e.target] = [kind |-> l, target |-> f.target]
  BY DEF TypeInv, Owned, OfCalls
<1>2. k = l /\ e.target = f.target
  BY <1>1
<1> QED BY <1>2 DEF TypeInv, TypeOK

-----------------------------------------------------------------------------
(* Types                                                                   *)

Futures == Known(fut, asked)

(* The part of TypeInv that the questions and their futures make up. *)
Dictionaries ==
  /\ asked \in 0..MaxAsks
  /\ ask \in [Asks -> Requests]
  /\ pending \in [Kinds -> SUBSET Entries]
  /\ \A k \in Kinds : \A d, e \in pending[k] : d.target = e.target => d = e
  /\ Targeted
  /\ OfCalls

LEMMA PartsOfTypes == TypeInv => Dictionaries /\ Futures /\ asked \in Nat
<1> SUFFICES ASSUME TypeInv PROVE Dictionaries /\ Futures /\ asked \in Nat
  OBVIOUS
<1> USE DEF TypeInv, TypeOK, Shape, Owned
<1>1. Dictionaries
  BY DEF Dictionaries
<1>2. Futures
  BY DEF Futures, Known, Outcomes
<1>3. asked \in Nat
  OBVIOUS
<1> QED BY <1>1, <1>2, <1>3

LEMMA TargetIds ==
  ASSUME TypeInv
  PROVE  outgoing \subseteq mine /\ \A t \in mine : t \in Ids /\ t \in Nat
<1>1. outgoing \subseteq mine /\ mine \subseteq 1..top /\ top \in 0..MaxTop /\ MaxTop \in Nat
  BY ConversationAssumption DEF ConversationAssumption, TypeInv, TypeOK
<1> QED BY <1>1 DEF Ids

LEMMA AskingNumbers ==
  ASSUME TypeInv, NEW kind, NEW t \in outgoing, Asking(kind, t)
  PROVE  /\ asked + 1 \in Asks /\ asked \in Nat /\ asked' = asked + 1 /\ asked + 1 \in Nat
         /\ UNCHANGED <<outgoing, mine, sending>> /\ t \in Nat /\ t \in Ids
         /\ t \in mine \ {sending}
         /\ \A a \in 1..asked : a \in Asks \ {asked + 1} /\ a \in 1..asked'
<1>1. MaxAsks \in Nat /\ MaxTop \in Nat
  BY ConversationAssumption DEF ConversationAssumption
<1>2. /\ asked \in 0..MaxAsks /\ asked < MaxAsks /\ asked' = asked + 1
      /\ UNCHANGED <<outgoing, mine, sending>>
  BY DEF Asking, chat, TypeInv, TypeOK
<1>3. t \in 1..top /\ top \in 0..MaxTop /\ t \in mine \ {sending}
  BY DEF TypeInv, TypeOK, Shape
<1> QED BY <1>1, <1>2, <1>3 DEF Asks, Ids

LEMMA StillTargeted ==
  ASSUME TypeInv, NEW kind \in Kinds, NEW t \in outgoing, Asking(kind, t)
  PROVE  Targeted'
<1>1. asked + 1 \in Asks /\ asked \in Nat /\ asked' = asked + 1
      /\ UNCHANGED <<mine, sending>> /\ t \in mine \ {sending}
  BY AskingNumbers
<1>2. ask \in [Asks -> Requests] /\ ask' = [ask EXCEPT ![asked + 1] = [kind |-> kind, target |-> t]]
  BY DEF Asking, TypeInv, Shape
<1>3. ASSUME NEW a \in 1..asked' PROVE ask'[a].target \in mine \ {sending}
  <2>1. CASE a = asked + 1
    BY <1>1, <1>2, <2>1
  <2>2. CASE a # asked + 1
    <3>1. a \in 1..asked
      BY <1>1, <2>2
    <3>2. a \in Asks
      BY <3>1, AskingNumbers
    <3>3. ask'[a] = ask[a]
      BY <1>2, <2>2, <3>2
    <3> QED BY <3>1, <3>3 DEF TypeInv, Owned, Targeted
  <2> QED BY <2>1, <2>2
<1> QED BY <1>1, <1>3 DEF Targeted

(* A question that is not answered at once goes into its dictionary. *)
LEMMA AwaitTypes ==
  ASSUME TypeInv, NEW kind \in Kinds, NEW t \in outgoing, Asking(kind, t), Await(kind, t)
  PROVE  /\ Dictionaries' /\ Futures' /\ stale' \in BOOLEAN
         /\ \E at \in Nat :
              LET new == [target |-> t, ask |-> asked + 1, at |-> at] IN
              /\ pending'[kind] = {e \in pending[kind] : e.target # t} \cup {new}
              /\ \A k \in Kinds \ {kind} : pending'[k] = pending[k]
<1> USE PartsOfTypes
<1>1. asked + 1 \in Asks /\ asked \in Nat /\ asked' = asked + 1 /\ asked + 1 \in Nat
      /\ UNCHANGED <<outgoing, mine, sending>> /\ t \in Nat
      /\ \A a \in 1..asked : a \in Asks \ {asked + 1} /\ a \in 1..asked'
  BY AskingNumbers
<1>2. /\ pending[kind] \subseteq Entries
      /\ pending' = [pending EXCEPT ![kind] = Put(pending[kind], t, asked + 1)]
      /\ pending \in [Kinds -> SUBSET Entries]
  BY DEF Await, TypeInv, Shape
<1>3. PICK at \in Nat :
        Put(pending[kind], t, asked + 1) =
          {e \in pending[kind] : e.target # t}
            \cup {[target |-> t, ask |-> asked + 1, at |-> at]}
  BY <1>1, <1>2, PutEntry
<1> DEFINE new == [target |-> t, ask |-> asked + 1, at |-> at]
<1>4. new \in Entries
  BY <1>1 DEF Entries
<1>5. /\ pending'[kind] = {e \in pending[kind] : e.target # t} \cup {new}
      /\ \A k \in Kinds \ {kind} : pending'[k] = pending[k]
  BY <1>2, <1>3
<1>6. pending' \in [Kinds -> SUBSET Entries]
  <2>1. pending'[kind] \in SUBSET Entries
    BY <1>2, <1>4, <1>5
  <2> QED BY <1>2, <2>1
<1>7. ask' \in [Asks -> Requests] /\ ask'[asked + 1] = [kind |-> kind, target |-> t]
      /\ \A a \in Asks \ {asked + 1} : ask'[a] = ask[a]
  <2>1. [kind |-> kind, target |-> t] \in Requests
    BY <1>1 DEF Requests
  <2> QED BY <1>1, <2>1 DEF Asking, TypeInv, Shape
<1>8. \A k \in Kinds : \A d, e \in pending'[k] : d.target = e.target => d = e
  <2> TAKE k \in Kinds
  <2> TAKE d, e \in pending'[k]
  <2> HAVE d.target = e.target
  <2>1. new.target = t
    OBVIOUS
  <2>2. CASE k = kind
    <3> HIDE DEF new
    <3> QED BY <1>5, <2>1, <2>2 DEF TypeInv, TypeOK
  <2>3. CASE k # kind
    BY <1>5, <2>3 DEF TypeInv, TypeOK
  <2> QED BY <2>2, <2>3
<1>9. \A k \in Kinds : \A e \in pending'[k] :
       /\ e.ask \in 1..asked' /\ (k # "read" => e.target \in outgoing')
       /\ ask'[e.ask] = [kind |-> k, target |-> e.target]
  <2> TAKE k \in Kinds
  <2> TAKE e \in pending'[k]
  <2>1. CASE k = kind /\ e = new
    BY <1>1, <1>7, <2>1
  <2>2. CASE ~(k = kind /\ e = new)
    <3>1. e \in pending[k]
      BY <1>5, <2>2
    <3>2. e.ask \in 1..asked /\ (k # "read" => e.target \in outgoing)
          /\ ask[e.ask] = [kind |-> k, target |-> e.target]
      BY <3>1 DEF TypeInv, Owned, OfCalls
    <3>3. e.ask \in Asks \ {asked + 1} /\ e.ask \in 1..asked'
      BY <1>1, <3>2
    <3> QED BY <1>1, <1>7, <3>2, <3>3
  <2> QED BY <2>1, <2>2
<1>10. Futures'
  <2>1. fut' = [fut EXCEPT ![asked + 1] = IF cancelled THEN "dropped" ELSE "waiting"]
    BY DEF Await
  <2>2. fut' \in [Asks -> Outcomes]
    BY <1>1, <2>1 DEF Futures, Known, Outcomes
  <2>3. \A a \in Asks : fut'[a] = "none" <=> a > asked'
    <3> TAKE a \in Asks
    <3>1. CASE a = asked + 1
      BY <1>1, <2>1, <3>1 DEF Futures, Known
    <3>2. CASE a # asked + 1
      <4>1. fut'[a] = fut[a] /\ (a > asked <=> a > asked')
        BY <1>1, <2>1, <3>2 DEF Futures, Known, Asks
      <4> QED BY <4>1 DEF Futures, Known
    <3> QED BY <3>1, <3>2
  <2> QED BY <1>1, <2>2, <2>3 DEF Futures, Known
<1>11. stale' \in BOOLEAN
  BY DEF Await, TypeInv, Shape
<1>12. Dictionaries'
  <2>1. asked' \in 0..MaxAsks
    BY <1>1 DEF Asks
  <2>2. Targeted'
    BY StillTargeted
  <2> QED BY <1>6, <1>7, <1>8, <1>9, <2>1, <2>2 DEF Dictionaries, OfCalls
<1> QED BY <1>5, <1>10, <1>11, <1>12

(* A question that is answered, or raises, at once. *)
LEMMA AnsweredTypes ==
  ASSUME TypeInv, NEW kind \in Kinds, NEW t \in outgoing, Asking(kind, t),
         NEW how \in Ends, fut' = [fut EXCEPT ![asked + 1] = how],
         UNCHANGED <<pending, stale>>
  PROVE  Dictionaries' /\ Futures' /\ stale' \in BOOLEAN
<1> USE PartsOfTypes
<1>1. asked + 1 \in Asks /\ asked \in Nat /\ asked' = asked + 1 /\ asked + 1 \in Nat
      /\ UNCHANGED <<outgoing, mine, sending>> /\ t \in Nat
      /\ \A a \in 1..asked : a \in Asks \ {asked + 1} /\ a \in 1..asked'
  BY AskingNumbers
<1>2. ask' \in [Asks -> Requests] /\ \A a \in Asks \ {asked + 1} : ask'[a] = ask[a]
  <2>1. [kind |-> kind, target |-> t] \in Requests
    BY <1>1 DEF Requests
  <2> QED BY <1>1, <2>1 DEF Asking, TypeInv, Shape
<1>3. \A k \in Kinds : \A e \in pending'[k] :
       /\ e.ask \in 1..asked' /\ (k # "read" => e.target \in outgoing')
       /\ ask'[e.ask] = [kind |-> k, target |-> e.target]
  <2> TAKE k \in Kinds
  <2> TAKE e \in pending'[k]
  <2>1. e.ask \in 1..asked /\ (k # "read" => e.target \in outgoing)
        /\ ask[e.ask] = [kind |-> k, target |-> e.target]
    BY DEF TypeInv, Owned, OfCalls
  <2>2. e.ask \in Asks \ {asked + 1} /\ e.ask \in 1..asked'
    BY <1>1, <2>1
  <2> QED BY <1>1, <1>2, <2>1, <2>2
<1>4. Futures'
  <2>1. fut' \in [Asks -> Outcomes]
    BY <1>1 DEF Futures, Known, Outcomes, Ends
  <2>2. \A a \in Asks : fut'[a] = "none" <=> a > asked'
    <3> TAKE a \in Asks
    <3>1. CASE a = asked + 1
      BY <1>1, <3>1 DEF Futures, Known, Ends
    <3>2. CASE a # asked + 1
      <4>1. fut'[a] = fut[a] /\ (a > asked <=> a > asked')
        BY <1>1, <3>2 DEF Futures, Known, Asks
      <4> QED BY <4>1 DEF Futures, Known
    <3> QED BY <3>1, <3>2
  <2> QED BY <1>1, <2>1, <2>2 DEF Futures, Known
<1>5. Dictionaries'
  <2>1. asked' \in 0..MaxAsks
    BY <1>1 DEF Asks
  <2>2. Targeted'
    BY StillTargeted
  <2> QED BY <1>2, <1>3, <2>1, <2>2, PartsOfTypes DEF Dictionaries, OfCalls
<1> QED BY <1>4, <1>5 DEF TypeInv, Shape

(* Futures are settled, and some are taken out of their dictionaries. *)
LEMMA SettledTypes ==
  ASSUME TypeInv, NEW asks, \A a \in asks : a \in Asks /\ fut[a] # "none", NEW how \in Ends,
         fut' = Tell(asks, how), pending' \in [Kinds -> SUBSET Entries],
         \A k \in Kinds : pending'[k] \subseteq pending[k],
         UNCHANGED <<calls, outgoing, mine, sending>>
  PROVE  Dictionaries' /\ Futures'
<1> USE PartsOfTypes
<1>1. asked' = asked /\ ask' = ask /\ UNCHANGED <<outgoing, mine, sending>>
  BY DEF calls
<1>2. Dictionaries'
  <2>1. \A k \in Kinds : \A d, e \in pending'[k] : d.target = e.target => d = e
    BY DEF TypeInv, TypeOK
  <2>2. \A k \in Kinds : \A e \in pending'[k] :
         /\ e.ask \in 1..asked /\ (k # "read" => e.target \in outgoing)
         /\ ask[e.ask] = [kind |-> k, target |-> e.target]
    BY DEF TypeInv, Owned, OfCalls
  <2>3. Targeted'
    BY <1>1 DEF TypeInv, Owned, Targeted
  <2> QED BY <1>1, <2>1, <2>2, <2>3 DEF Dictionaries, OfCalls
<1>3. Futures'
  <2>1. Settling(fut, fut', asks, how)
    BY DEF Tell, Settling
  <2>2. Known(fut', asked)
    <3>1. Known(fut, asked)
      BY DEF Futures
    <3> QED BY <2>1, <3>1, TellTypes
  <2> QED BY <1>1, <2>2 DEF Futures
<1> QED BY <1>2, <1>3

LEMMA CancelledTypes ==
  ASSUME TypeInv, CancelAll, UNCHANGED <<calls, pending, outgoing, mine, sending>>
  PROVE  Dictionaries' /\ Futures' /\ cancelled' \in BOOLEAN /\ stale' \in BOOLEAN
<1>1. asked' = asked /\ ask' = ask /\ UNCHANGED <<outgoing, mine, sending>> /\ pending' = pending
  BY DEF calls
<1>2. Dictionaries'
  BY <1>1, PartsOfTypes DEF Dictionaries, Targeted, OfCalls
<1>3. Futures'
  <2>1. \A a \in Asks : fut[a] \in Outcomes
    BY PartsOfTypes DEF Futures, Known
  <2>2. fut' \in [Asks -> Outcomes]
    BY <2>1 DEF CancelAll, Outcomes
  <2>3. \A a \in Asks : fut'[a] = "none" <=> fut[a] = "none"
    BY <2>1 DEF CancelAll, Settable
  <2> QED BY <1>1, <2>2, <2>3, PartsOfTypes DEF Futures, Known
<1> QED BY <1>2, <1>3 DEF CancelAll, TypeInv, Shape

(* What the types say of everything else. *)
World ==
  /\ open \in {"new", "open", "closed"}
  /\ top \in 0..MaxTop
  /\ outgoing \subseteq mine /\ mine \subseteq 1..top
  /\ sending \in mine \cup {0} /\ sending \notin outgoing
  /\ date \in Nat
  /\ count \in [DOMAIN Bound -> Nat]

Memory ==
  /\ editDates \in [Ids -> Nat]
  /\ lastRead \in -1..MaxTop
  /\ got \in [Asks -> Messages]
  /\ lost \in Nat
  /\ cancelled \in BOOLEAN /\ stale \in BOOLEAN

Places ==
  /\ incoming \in Seq(Messages)
  /\ Len(incoming) <= MaxIncoming
  /\ indices \in [Indices -> [Ids -> Int]]
  /\ \A k \in Indices : \A t \in Ids : indices[k][t] \in -1..Len(incoming)

LEMMA Recomposed == TypeInv <=> Dictionaries /\ Futures /\ World /\ Memory /\ Places
<1>1. TypeInv => Dictionaries /\ Futures
  BY PartsOfTypes
<1>2. TypeInv => World
  BY DEF TypeInv, TypeOK, Shape, World
<1>3. TypeInv => Memory
  BY DEF TypeInv, TypeOK, Shape, Memory
<1>4. TypeInv => Places
  BY DEF TypeInv, TypeOK, Shape, Places, Indices
<1>5. ASSUME Dictionaries, Futures, World, Memory, Places PROVE TypeInv
  <2>1. TypeOK
    <3>1. \A k \in {"response", "reply"} : indices[k] \in [Ids -> -1..Len(incoming)]
      BY <1>5 DEF Places, Indices
    <3> QED BY <1>5, <3>1 DEF TypeOK, Dictionaries, Futures, Known, World, Memory, Places, Outcomes
  <2>2. Shape
    BY <1>5 DEF Shape, Dictionaries, World, Memory, Places
  <2>3. Owned
    BY <1>5 DEF Owned, Dictionaries, Futures, Known
  <2> QED BY <2>1, <2>2, <2>3 DEF TypeInv
<1> QED BY <1>1, <1>2, <1>3, <1>4, <1>5

LEMMA InitTypes == Init => TypeInv
<1> SUFFICES ASSUME Init PROVE TypeInv
  OBVIOUS
<1> USE ConversationAssumption DEF ConversationAssumption, Init
<1>1. NoMessage \in Messages /\ Len(incoming) = 0 /\ incoming \in Seq(Messages)
  BY DEF NoMessage, Messages
<1>2. World
  <2>1. count = [b \in DOMAIN Bound |-> 0]
    OBVIOUS
  <2>2. count \in [DOMAIN Bound -> Nat]
    BY <2>1
  <2>3. open = "new" /\ top = 0 /\ outgoing = {} /\ mine = {} /\ sending = 0 /\ date = 1 /\ MaxTop \in Nat
    OBVIOUS
  <2>4. /\ top \in 0..MaxTop /\ outgoing \subseteq mine /\ mine \subseteq 1..top
        /\ sending \in mine \cup {0} /\ sending \notin outgoing /\ date \in Nat
    BY <2>3
  <2> QED BY <2>2, <2>3, <2>4 DEF World
<1>3. Memory
  <2>1. editDates \in [Ids -> Nat] /\ got \in [Asks -> Messages]
    BY <1>1
  <2>2. lastRead = -1 /\ MaxTop \in Nat /\ lost = 0 /\ cancelled = FALSE /\ stale = FALSE
    OBVIOUS
  <2>3. lastRead \in -1..MaxTop /\ lost \in Nat
    BY <2>2
  <2> QED BY <2>1, <2>2, <2>3 DEF Memory
<1>4. Places
  <2>1. indices = [k \in Indices |-> [t \in Ids |-> -1]]
    BY DEF Indices, Absent
  <2>2. -1 \in Int /\ -1 \in -1..0
    OBVIOUS
  <2> QED BY <1>1, <2>1, <2>2 DEF Places
<1>5. Dictionaries
  <2>1. [kind |-> "read", target |-> 0] \in Requests
    BY DEF Requests, Kinds
  <2>2. \A k \in Kinds : pending[k] = {}
    OBVIOUS
  <2>3. Targeted /\ OfCalls
    BY <2>2 DEF Targeted, OfCalls
  <2> QED BY <2>1, <2>2, <2>3 DEF Dictionaries
<1>6. Futures
  BY DEF Futures, Known, Outcomes, Asks
<1> QED BY <1>2, <1>3, <1>4, <1>5, <1>6, Recomposed

LEMMA EntryTypes ==
  ASSUME TypeInv
  PROVE  \A k \in Kinds : \A e \in pending[k] :
           /\ e \in Entries /\ e.at \in Nat
           /\ e.ask \in Asks /\ fut[e.ask] # "none"
           /\ e.target \in mine /\ e.target \in Ids
           /\ k # "read" => e.target \in outgoing
           /\ ask[e.ask].kind = k /\ ask[e.ask].target = e.target
<1> TAKE k \in Kinds
<1> TAKE e \in pending[k]
<1>1. e \in Entries
  BY DEF TypeInv, Shape
<1>2. e.ask \in 1..asked /\ (k # "read" => e.target \in outgoing)
      /\ ask[e.ask] = [kind |-> k, target |-> e.target]
  BY DEF TypeInv, Owned, OfCalls
<1>3. asked \in 0..MaxAsks /\ MaxAsks \in Nat
  BY ConversationAssumption DEF ConversationAssumption, TypeInv, TypeOK
<1>4. e.ask \in Asks /\ ~(e.ask > asked)
  BY <1>2, <1>3 DEF Asks
<1>5. fut[e.ask] # "none"
  BY <1>4 DEF TypeInv, Owned
<1>6. e.target \in mine
  <2>1. ask[e.ask].target \in mine
    BY <1>2 DEF TypeInv, Owned, Targeted
  <2> QED BY <1>2, <2>1
<1>7. e.target \in Ids
  BY <1>6, TargetIds
<1> QED BY <1>1, <1>2, <1>4, <1>5, <1>6, <1>7 DEF Entries

(* Who is cancelled: the calls in the three dictionaries. *)
LEMMA CancellableTypes ==
  ASSUME TypeInv
  PROVE  /\ \A c \in Cancellable : c.at \in Nat
         /\ \A c \in Cancellable : \E k \in Kinds \ {"read"} : \E e \in pending[k] : c.ask = e.ask
         /\ \A k \in Kinds \ {"read"} : \A e \in pending[k] : e.ask \in AsksOf(Cancellable)
         /\ Cancellable = {} => \A k \in Kinds \ {"read"} : pending[k] = {}
<1> DEFINE chained == {"response", "reply", "edit"}
<1>0. MaxAsks \in Nat /\ chained = Kinds \ {"read"} /\ chained \subseteq Kinds
  BY ConversationAssumption DEF ConversationAssumption, Kinds
<1>1. \A k \in chained : Chain[k] \in Nat
  BY DEF Chain
<1>2. ASSUME NEW k \in chained, NEW c \in Chained(k)
      PROVE  c.at \in Nat /\ \E e \in pending[k] : c.ask = e.ask
  <2>1. PICK e \in pending[k] : c = [e EXCEPT !.at = @ + Chain[k] * (MaxAsks + 1)]
    BY <1>2 DEF Chained
  <2>2. e \in [target : Nat, ask : Nat, at : Nat] /\ e.at \in Nat
    BY <1>0, EntryTypes DEF Entries
  <2>3. c.ask = e.ask /\ c.at = e.at + Chain[k] * (MaxAsks + 1)
    BY <2>1, <2>2
  <2>4. Chain[k] * (MaxAsks + 1) \in Nat
    BY <1>0, <1>1 DEF Chain
  <2> QED BY <2>2, <2>3, <2>4
<1>3. ASSUME NEW k \in chained, NEW e \in pending[k]
      PROVE  \E c \in Chained(k) : c.ask = e.ask
  <2>1. e \in [target : Nat, ask : Nat, at : Nat]
    BY <1>0, EntryTypes DEF Entries
  <2> DEFINE c == [e EXCEPT !.at = @ + Chain[k] * (MaxAsks + 1)]
  <2>2. c \in Chained(k) /\ c.ask = e.ask
    BY <2>1 DEF Chained
  <2> QED BY <2>2
<1>4. \A k \in chained : Chained(k) \subseteq Cancellable
  BY DEF Cancellable
<1>5. \A c \in Cancellable : \E k \in chained : c \in Chained(k)
  BY DEF Cancellable
<1> HIDE DEF chained
<1>6. \A k \in chained : \A e \in pending[k] : \E c \in Cancellable : c.ask = e.ask
  BY <1>3, <1>4
<1>7. \A k \in chained : \A e \in pending[k] : e.ask \in AsksOf(Cancellable)
  BY <1>6 DEF AsksOf
<1>8. Cancellable = {} => \A k \in chained : pending[k] = {}
  BY <1>6
<1>9. \A c \in Cancellable : c.at \in Nat /\ \E k \in chained : \E e \in pending[k] : c.ask = e.ask
  BY <1>2, <1>5
<1> QED BY <1>0, <1>7, <1>8, <1>9

(* The calls whose futures a loop over entries of dictionaries sets. *)
LEMMA ServedAsks ==
  ASSUME TypeInv, NEW k \in Kinds, NEW es, es \subseteq pending[k]
  PROVE  /\ Served(es) \subseteq Touched(es) /\ Touched(es) \subseteq es
         /\ ~Raises(es) => Served(es) = es
         /\ \A e \in Served(es) : fut[e.ask] \in Settable
         /\ \A a \in AsksOf(Served(es)) : a \in Asks /\ fut[a] # "none"
         /\ \A a \in AsksOf(Served(es)) : \E e \in Served(es) : e \in pending[k] /\ a = e.ask
<1>1. \A e \in es : e.at \in Nat
  BY EntryTypes
<1>2. /\ Served(es) \subseteq Touched(es) /\ Touched(es) \subseteq es
      /\ ~Raises(es) => Served(es) = es
      /\ \A e \in Served(es) : fut[e.ask] \in Settable
  BY <1>1, ServedEntries
<1>3. \A a \in AsksOf(Served(es)) : \E e \in Served(es) : e \in pending[k] /\ a = e.ask
  BY <1>2 DEF AsksOf
<1>4. \A a \in AsksOf(Served(es)) : a \in Asks /\ fut[a] # "none"
  BY <1>3, EntryTypes
<1> QED BY <1>2, <1>3, <1>4

(* The position of an answer. *)
LEMMA IndexTypes ==
  ASSUME TypeInv, NEW kind \in Indices, NEW t \in Ids
  PROVE  /\ Dictionary(kind) \in Indices
         /\ indices[Dictionary(kind)][t] \in -1..Len(incoming)
         /\ Index(kind, t) \in 0..Len(incoming)
<1>1. Dictionary(kind) \in Indices
  BY DEF Dictionary, Indices
<1>2. indices[Dictionary(kind)][t] \in -1..Len(incoming)
  BY <1>1, Recomposed DEF Places
<1>3. t \in Nat
  BY ConversationAssumption DEF ConversationAssumption, Ids
<1>4. FirstAfter(t) \in 0..Len(incoming)
  BY <1>3, FirstPosition DEF TypeInv, Shape
<1>5. Len(incoming) \in Nat
  BY DEF TypeInv, Shape
<1> QED BY <1>1, <1>2, <1>4, <1>5 DEF Index

LEMMA GetMessageTypes ==
  ASSUME TypeInv, NEW kind \in Indices, NEW t \in outgoing, GetMessage(kind, t)
  PROVE  TypeInv'
<1> DEFINE i == Index(kind, t)
           there == i < Len(incoming) /\ Responds(kind, incoming[i + 1], t)
           d == Dictionary(kind)
<1>1. Asking(kind, t) /\ t \in Ids /\ kind \in Kinds
  <2>1. Asking(kind, t) /\ kind \in Kinds
    BY DEF GetMessage, Indices, Kinds
  <2> QED BY <2>1, AskingNumbers
<1>2. i \in 0..Len(incoming) /\ d \in Indices /\ Len(incoming) \in Nat
  <2>1. Len(incoming) \in Nat
    BY DEF TypeInv, Shape
  <2>2. Dictionary(kind) \in Indices /\ Index(kind, t) \in 0..Len(incoming)
    BY <1>1, IndexTypes
  <2> QED BY <2>1, <2>2
<1>3. indices' = [indices EXCEPT ![d][t] = IF there THEN i + 1 ELSE i]
  BY DEF GetMessage
<1>4. IF there THEN Return(incoming[i + 1]) ELSE Await(kind, t)
  BY DEF GetMessage
<1>5. /\ incoming' = incoming /\ outgoing' = outgoing /\ UNCHANGED <<editDates, lastRead>>
      /\ UNCHANGED <<open, cancelled, chat, count, lost>>
  BY <1>1 DEF GetMessage, Asking, chat
<1>6. (IF there THEN i + 1 ELSE i) \in 0..Len(incoming)
  BY <1>2
<1>7. there => incoming[i + 1] \in Messages
  BY <1>2 DEF TypeInv, Shape
<1> HIDE DEF i, there, d
<1>8. Places'
  <2>1. Places
    BY Recomposed
  <2> DEFINE v == IF there THEN i + 1 ELSE i
  <2>2. v \in -1..Len(incoming) /\ v \in Int
    BY <1>2, <1>6
  <2> HIDE DEF v
  <2>3. indices' = [indices EXCEPT ![d][t] = v]
    BY <1>3 DEF v
  <2>4. indices' \in [Indices -> [Ids -> Int]]
    BY <1>1, <1>2, <2>1, <2>2, <2>3 DEF Places
  <2>5. \A k \in Indices : \A x \in Ids : indices'[k][x] \in -1..Len(incoming)
    BY <1>1, <1>2, <2>1, <2>2, <2>3 DEF Places
  <2> QED BY <1>5, <2>1, <2>4, <2>5 DEF Places
<1>9. Dictionaries' /\ Futures' /\ stale' \in BOOLEAN /\ got' \in [Asks -> Messages]
  <2>1. CASE there
    <3>1. fut' = [fut EXCEPT ![asked + 1] = "done"] /\ got' = [got EXCEPT ![asked + 1] = incoming[i + 1]]
          /\ UNCHANGED <<pending, stale>>
      BY <1>4, <2>1 DEF Return
    <3>2. got' \in [Asks -> Messages]
      BY <1>7, <2>1, <3>1 DEF TypeInv, Shape
    <3>3. "done" \in Ends
      BY DEF Ends
    <3> QED BY <1>1, <3>1, <3>2, <3>3, AnsweredTypes
  <2>2. CASE ~there
    <3>1. Await(kind, t)
      BY <1>4, <2>2
    <3>2. got' = got
      BY <3>1 DEF Await
    <3> QED BY <1>1, <3>1, <3>2, AwaitTypes DEF TypeInv, Shape
  <2> QED BY <2>1, <2>2
<1>10. World'
  BY <1>5, Recomposed DEF World, chat
<1>11. Memory'
  BY <1>5, <1>9, Recomposed DEF Memory
<1> QED BY <1>8, <1>9, <1>10, <1>11, Recomposed, PTL

(* The edit that answers is one of those that are new to the asker. *)
LEMMA EditAnswers ==
  ASSUME TypeInv, NEW t \in Nat, Edited(t) # {}
  PROVE  LET earliest == CHOOSE i \in Edited(t) :
               \A j \in Edited(t) \ {i} :
                 \/ incoming[i].date < incoming[j].date
                 \/ incoming[i].date = incoming[j].date /\ i < j
         IN earliest \in Edited(t)
<1> DEFINE P(i) == \A j \in Edited(t) \ {i} :
                    \/ incoming[i].date < incoming[j].date
                    \/ incoming[i].date = incoming[j].date /\ i < j
           D == {incoming[i].date : i \in Edited(t)}
           d == Min(D)
           E == {i \in Edited(t) : incoming[i].date = d}
           m == Min(E)
<1>1. incoming \in Seq(Messages) /\ Edited(t) \subseteq 1..Len(incoming)
  BY DEF TypeInv, Shape, Edited
<1>2. \A i \in Edited(t) : incoming[i].date \in Nat /\ i \in Nat
  <2> TAKE i \in Edited(t)
  <2>1. incoming[i] \in Messages /\ i \in Nat
    BY <1>1
  <2> QED BY <2>1 DEF Messages
<1>3. D \subseteq Nat /\ D # {}
  BY <1>2
<1>4. d \in D /\ \A y \in D : d <= y
  <2> HIDE DEF D
  <2> QED BY <1>3, Least
<1> HIDE DEF d
<1>5. E \subseteq Nat /\ E # {}
  BY <1>2, <1>4
<1>6. m \in E /\ \A y \in E : m <= y
  <2> HIDE DEF E
  <2> QED BY <1>5, Least
<1> HIDE DEF m
<1>7. m \in Edited(t) /\ P(m)
  <2>1. m \in Edited(t) /\ incoming[m].date = d
    BY <1>6
  <2>2. ASSUME NEW j \in Edited(t) \ {m}
        PROVE  \/ incoming[m].date < incoming[j].date
               \/ incoming[m].date = incoming[j].date /\ m < j
    <3>1. d <= incoming[j].date /\ incoming[j].date \in Nat /\ j \in Nat /\ m \in Nat /\ d \in Nat
      BY <1>2, <1>3, <1>4, <2>1
    <3>2. CASE incoming[j].date = d
      <4>1. m <= j
        BY <1>6, <3>2
      <4>2. m < j
        BY <2>2, <3>1, <4>1
      <4> QED BY <2>1, <3>2, <4>2
    <3>3. CASE incoming[j].date # d
      <4>1. d < incoming[j].date
        BY <3>1, <3>3
      <4> QED BY <2>1, <4>1
    <3> QED BY <3>2, <3>3
  <2> QED BY <2>1, <2>2
<1> HIDE DEF P
<1>8. (CHOOSE i \in Edited(t) : P(i)) \in Edited(t)
  BY <1>7
<1> QED BY <1>8 DEF P

LEMMA GetEditTypes ==
  ASSUME TypeInv, NEW t \in outgoing, GetEdit(t)
  PROVE  TypeInv'
<1>1. Asking("edit", t) /\ t \in Ids /\ t \in Nat /\ "edit" \in Kinds
  <2>1. Asking("edit", t) /\ "edit" \in Kinds
    BY DEF GetEdit, Kinds
  <2> QED BY <2>1, AskingNumbers
<1>2. /\ incoming' = incoming /\ indices' = indices /\ lastRead' = lastRead
      /\ UNCHANGED <<open, cancelled, chat, count, lost>>
  BY <1>1 DEF GetEdit, Asking
<1>3. /\ Dictionaries' /\ Futures' /\ stale' \in BOOLEAN
      /\ got' \in [Asks -> Messages] /\ editDates' \in [Ids -> Nat]
  <2>1. CASE Edited(t) = {}
    <3>1. Await("edit", t) /\ editDates' = editDates /\ got' = got
      BY <2>1 DEF GetEdit, Await
    <3> QED BY <1>1, <3>1, AwaitTypes DEF TypeInv, TypeOK, Shape
  <2>2. CASE Edited(t) # {}
    <3>1. PICK i \in Edited(t) : Return(incoming[i]) /\ editDates' = [editDates EXCEPT ![t] = Stamp(incoming[i].date)]
      BY <1>1, <2>2, EditAnswers DEF GetEdit
    <3>2. incoming[i] \in Messages
      BY DEF TypeInv, Shape, Edited
    <3>3. Stamp(incoming[i].date) \in Nat
      BY <3>2, StampNat DEF Messages
    <3>4. fut' = [fut EXCEPT ![asked + 1] = "done"] /\ got' = [got EXCEPT ![asked + 1] = incoming[i]]
          /\ UNCHANGED <<pending, stale>>
      BY <3>1 DEF Return
    <3>5. "done" \in Ends
      BY DEF Ends
    <3>6. Dictionaries' /\ Futures' /\ stale' \in BOOLEAN
      BY <1>1, <3>4, <3>5, AnsweredTypes
    <3>7. got' \in [Asks -> Messages]
      BY <3>2, <3>4 DEF TypeInv, Shape
    <3>8. editDates' \in [Ids -> Nat]
      BY <3>1, <3>3 DEF TypeInv, TypeOK
    <3> QED BY <3>6, <3>7, <3>8
  <2> QED BY <2>1, <2>2
<1>4. World' /\ Places'
  BY <1>2, Recomposed DEF World, Places, chat
<1>5. Memory'
  BY <1>2, <1>3, Recomposed DEF Memory
<1> QED BY <1>3, <1>4, <1>5, Recomposed, PTL

LEMMA WaitReadTypes ==
  ASSUME TypeInv, NEW t \in outgoing, WaitRead(t)
  PROVE  TypeInv'
<1> DEFINE read == IF lastRead = -1 THEN t - 1 ELSE lastRead
<1>1. Asking("read", t) /\ t \in Ids /\ t \in Nat /\ "read" \in Kinds
  <2>1. Asking("read", t) /\ "read" \in Kinds
    BY DEF WaitRead, Kinds
  <2> QED BY <2>1, AskingNumbers
<1>2. /\ incoming' = incoming /\ indices' = indices /\ editDates' = editDates /\ got' = got
      /\ UNCHANGED <<open, cancelled, chat, count, lost>>
  BY <1>1 DEF WaitRead, Asking, Await
<1>3. Dictionaries' /\ Futures' /\ stale' \in BOOLEAN
  <2>1. CASE read >= t
    <3>1. fut' = [fut EXCEPT ![asked + 1] = "error"] /\ UNCHANGED <<pending, stale>>
      BY <2>1 DEF WaitRead
    <3>2. "error" \in Ends
      BY DEF Ends
    <3> QED BY <1>1, <3>1, <3>2, AnsweredTypes
  <2>2. CASE ~(read >= t)
    <3>1. Await("read", t)
      BY <2>2 DEF WaitRead
    <3> QED BY <1>1, <3>1, AwaitTypes
  <2> QED BY <2>1, <2>2
<1>4. lastRead' \in -1..MaxTop
  <2>1. lastRead' = read
    BY DEF WaitRead
  <2>2. lastRead \in -1..MaxTop /\ MaxTop \in Nat /\ t \in 1..MaxTop
    BY <1>1, ConversationAssumption DEF ConversationAssumption, TypeInv, TypeOK, Ids
  <2> QED BY <2>1, <2>2
<1>5. World' /\ Places'
  BY <1>2, Recomposed DEF World, Places, chat
<1>6. Memory'
  BY <1>2, <1>3, <1>4, Recomposed DEF Memory
<1> QED BY <1>3, <1>5, <1>6, Recomposed, PTL

LEMMA CountTypes ==
  ASSUME TypeInv, NEW what \in DOMAIN Bound, Count(what)
  PROVE  count' \in [DOMAIN Bound -> Nat] /\ count'[what] = count[what] + 1
BY DEF Count, TypeInv, Shape

LEMMA TimeoutTypes ==
  ASSUME TypeInv, NEW a \in Asks, Timeout(a)
  PROVE  TypeInv'
<1>1. /\ fut[a] = "waiting" /\ fut' = [fut EXCEPT ![a] = "timeout"] /\ stale' = TRUE
      /\ UNCHANGED <<open, cancelled, chat, memory, pending, calls, got, lost>>
  BY DEF Timeout
<1>2. count' \in [DOMAIN Bound -> Nat]
  <2>1. "timeout" \in DOMAIN Bound /\ Count("timeout")
    BY DEF Timeout, Bound
  <2> QED BY <2>1, CountTypes
<1>3. Futures'
  BY <1>1, Recomposed DEF Futures, Known, Outcomes, calls
<1>4. Dictionaries' /\ Places'
  BY <1>1, Recomposed DEF Dictionaries, Targeted, OfCalls, Places, calls, memory, chat
<1>5. World'
  BY <1>1, <1>2, Recomposed DEF World, chat
<1>6. Memory'
  BY <1>1, Recomposed DEF Memory, memory
<1> QED BY <1>3, <1>4, <1>5, <1>6, Recomposed, PTL

LEMMA CancelTypes ==
  ASSUME TypeInv, Cancel \/ Exit
  PROVE  TypeInv'
<1>1. CancelAll /\ UNCHANGED <<chat, memory, pending, calls, got, lost>>
  BY DEF Cancel, Exit
<1>2. Dictionaries' /\ Futures' /\ cancelled' \in BOOLEAN /\ stale' \in BOOLEAN
  BY <1>1, CancelledTypes DEF chat
<1>3. open' \in {"new", "open", "closed"} /\ count' \in [DOMAIN Bound -> Nat]
  <2>1. CASE Cancel
    <3>1. "cancel" \in DOMAIN Bound /\ Count("cancel") /\ open' = open
      BY <2>1 DEF Cancel, Bound
    <3> QED BY <3>1, CountTypes DEF TypeInv, TypeOK
  <2>2. CASE Exit
    BY <2>2 DEF Exit, TypeInv, Shape
  <2> QED BY <2>1, <2>2
<1>4. World'
  BY <1>1, <1>3, Recomposed DEF World, chat
<1>5. Places' /\ Memory'
  BY <1>1, <1>2, Recomposed DEF Places, Memory, memory
<1> QED BY <1>2, <1>4, <1>5, Recomposed, PTL

(* The message for the responses, and for the replies that it serves.      *)
Second(m) == IF Raises(pending["response"]) THEN {}
             ELSE {e \in pending["reply"] : e.target = m.reply}

ServedBy(m) == AsksOf(Served(pending["response"])) \cup AsksOf(Served(Second(m)))

LEMMA RecordFacts ==
  ASSUME TypeInv, NEW m \in Messages, Record(m)
  PROVE  /\ incoming' = Append(incoming, m)
         /\ Len(incoming') = Len(incoming) + 1
         /\ pending' = [pending EXCEPT !["response"] = @ \ Served(pending["response"]),
                                       !["reply"] = @ \ Served(Second(m))]
         /\ fut' = Tell(ServedBy(m), "done")
         /\ got' = Give(ServedBy(m), m)
         /\ lost' = IF Raises(pending["response"]) \/ Raises(Second(m)) THEN lost + 1 ELSE lost
         /\ UNCHANGED <<cancelled, editDates, lastRead, stale>>
<1>1. incoming \in Seq(Messages)
  BY DEF TypeInv, Shape
<1>2. incoming' = Append(incoming, m)
  BY DEF Record
<1>3. Len(incoming') = Len(incoming) + 1
  BY <1>1, <1>2
<1> QED BY <1>2, <1>3 DEF Record, Second, ServedBy, Dispatched

(* Where the askers are afterwards. *)
LEMMA RecordIndices ==
  ASSUME TypeInv, NEW m \in Messages, Record(m)
  PROVE  /\ indices' \in [Indices -> [Ids -> Int]]
         /\ \A k \in Indices : \A t \in Ids :
              indices'[k][t] \in {indices[k][t], Len(incoming) + 1}
         /\ \A e \in Touched(pending["response"]) : e.target \in Ids =>
              indices'["response"][e.target] = Len(incoming) + 1
         /\ \A e \in Touched(Second(m)) : e.target \in Ids =>
              indices'[Dictionary("reply")][e.target] = Len(incoming) + 1
         /\ ~Shared => \A t \in Ids : t \notin TargetsOf(Touched(pending["response"]))
                        => indices'["response"][t] = indices["response"][t]
         /\ \A t \in Ids : /\ t \notin TargetsOf(Touched(pending["response"]))
                            /\ t \notin TargetsOf(Touched(Second(m)))
                        => indices'["response"][t] = indices["response"][t]
<1> DEFINE n == Len(incoming) + 1
           first == pending["response"]
           responses == [t \in Ids |-> IF t \in TargetsOf(Touched(first)) THEN n ELSE indices["response"][t]]
           replied(f) == [t \in Ids |-> IF t \in TargetsOf(Touched(Second(m))) THEN n ELSE f[t]]
<1>1. indices' = IF Shared THEN [indices EXCEPT !["response"] = replied(responses)]
                 ELSE [response |-> responses, reply |-> replied(indices["reply"])]
  BY DEF Record, Second, Consumed
<1>2. indices \in [Indices -> [Ids -> Int]] /\ n \in Int
  BY DEF TypeInv, Shape
<1>3. \A e \in Touched(first) : e.target \in TargetsOf(Touched(first))
  BY DEF TargetsOf
<1>4. \A e \in Touched(Second(m)) : e.target \in TargetsOf(Touched(Second(m)))
  BY DEF TargetsOf
<1>5. Shared \in BOOLEAN /\ Dictionary("reply") = IF Shared THEN "response" ELSE "reply"
  BY ConversationAssumption DEF ConversationAssumption, Dictionary
<1> HIDE DEF n
<1>6. \A t \in Ids : /\ responses[t] \in {indices["response"][t], n}
                     /\ responses[t] \in Int
                     /\ t \in TargetsOf(Touched(first)) => responses[t] = n
                     /\ t \notin TargetsOf(Touched(first)) => responses[t] = indices["response"][t]
  BY <1>2 DEF Indices
<1> HIDE DEF responses
<1>7. CASE Shared
  <2>1. indices' = [indices EXCEPT !["response"] = replied(responses)]
    BY <1>1, <1>7
  <2>2. indices'["reply"] = indices["reply"] /\ indices'["response"] = replied(responses)
    BY <1>2, <2>1 DEF Indices
  <2>3. indices' \in [Indices -> [Ids -> Int]]
    BY <1>2, <1>6, <2>1 DEF Indices
  <2> QED BY <1>3, <1>4, <1>5, <1>6, <1>7, <2>2, <2>3 DEF Indices, n
<1>8. CASE ~Shared
  <2>1. indices' = [response |-> responses, reply |-> replied(indices["reply"])]
    BY <1>1, <1>8
  <2>2. indices'["reply"] = replied(indices["reply"]) /\ indices'["response"] = responses
    BY <2>1
  <2>3. indices' \in [Indices -> [Ids -> Int]]
    <3>1. responses \in [Ids -> Int]
      BY <1>2 DEF responses, Indices
    <3>2. replied(indices["reply"]) \in [Ids -> Int]
      BY <1>2 DEF Indices
    <3> QED BY <2>1, <3>1, <3>2 DEF Indices
  <2> QED BY <1>3, <1>4, <1>5, <1>6, <1>8, <2>2, <2>3 DEF Indices, n
<1> QED BY <1>5, <1>7, <1>8

(* The entries that Record serves, and what it makes of their futures. *)
LEMMA RecordServes ==
  ASSUME TypeInv, NEW m
  PROVE  /\ Second(m) \subseteq pending["reply"]
         /\ \A a \in ServedBy(m) : a \in Asks /\ fut[a] # "none"
         /\ \A a \in ServedBy(m) :
              \/ \E e \in Served(pending["response"]) : e \in pending["response"] /\ a = e.ask
              \/ \E e \in Served(Second(m)) : e \in pending["reply"] /\ e.target = m.reply /\ a = e.ask
<1>1. "response" \in Kinds /\ "reply" \in Kinds
  BY DEF Kinds
<1>2. Second(m) \subseteq pending["reply"] /\ \A e \in Second(m) : e.target = m.reply
  BY DEF Second
<1>3. \A a \in AsksOf(Served(pending["response"])) : /\ a \in Asks /\ fut[a] # "none"
        /\ \E e \in Served(pending["response"]) : e \in pending["response"] /\ a = e.ask
  BY <1>1, ServedAsks
<1>4. \A a \in AsksOf(Served(Second(m))) : /\ a \in Asks /\ fut[a] # "none"
        /\ \E e \in Served(Second(m)) : e \in pending["reply"] /\ a = e.ask
  BY <1>1, <1>2, ServedAsks
<1>5. Served(Second(m)) \subseteq Second(m)
  BY DEF Served
<1> QED BY <1>2, <1>3, <1>4, <1>5 DEF ServedBy

LEMMA ArriveTypes ==
  ASSUME TypeInv, NEW r \in mine \cup {0}, Arrive(r)
  PROVE  TypeInv'
<1> DEFINE m == [id |-> top + 1, reply |-> r, date |-> 0, edit |-> 0]
<1>1. m \in Messages /\ top \in 0..MaxTop /\ MaxTop \in Nat /\ MaxIncoming \in Nat
  <2>1. top \in 0..MaxTop /\ MaxTop \in Nat /\ MaxIncoming \in Nat
    BY ConversationAssumption DEF ConversationAssumption, TypeInv, TypeOK
  <2>2. r \in Nat
    BY <2>1 DEF TypeInv, TypeOK
  <2> QED BY <2>1, <2>2 DEF Messages
<1>2. /\ top < MaxTop /\ top' = top + 1
      /\ \/ Len(incoming) = MaxIncoming /\ Overflow
         \/ Len(incoming) < MaxIncoming /\ Record(m)
      /\ UNCHANGED <<open, mine, sending, outgoing, date, calls, count>>
  BY DEF Arrive
<1> HIDE DEF m
<1>3. Dictionaries' /\ Futures' /\ Places' /\ Memory'
  <2>1. CASE Overflow
    <3>1. /\ cancelled' = TRUE /\ fut' = Tell(AsksOf(Served(Cancellable)), "error")
          /\ stale' = (stale \/ Cancellable # {})
          /\ lost' \in {lost, lost + 1}
          /\ UNCHANGED <<memory, pending, got>>
      BY <2>1 DEF Overflow, Dispatched
    <3>2. \A a \in AsksOf(Served(Cancellable)) : a \in Asks /\ fut[a] # "none"
      <4>1. Served(Cancellable) \subseteq Cancellable
        BY DEF Served
      <4>2. \A c \in Cancellable : c.ask \in Asks /\ fut[c.ask] # "none"
        BY CancellableTypes, EntryTypes
      <4> QED BY <4>1, <4>2 DEF AsksOf
    <3>3. "error" \in Ends /\ pending \in [Kinds -> SUBSET Entries]
      BY DEF Ends, TypeInv, Shape
    <3>4. Dictionaries' /\ Futures'
      <4> DEFINE as == AsksOf(Served(Cancellable))
      <4>1. fut' = Tell(as, "error") /\ pending' \in [Kinds -> SUBSET Entries]
            /\ \A k \in Kinds : pending'[k] \subseteq pending[k]
        BY <3>1, <3>3
      <4>2. \A a \in as : a \in Asks /\ fut[a] # "none"
        BY <3>2
      <4> HIDE DEF as
      <4> QED BY <1>2, <3>3, <4>1, <4>2, SettledTypes
    <3> QED BY <3>1, <3>4, Recomposed DEF Places, Memory, memory
  <2>2. CASE Record(m) /\ Len(incoming) < MaxIncoming
    <3>1. /\ incoming' = Append(incoming, m)
          /\ Len(incoming') = Len(incoming) + 1
          /\ pending' = [pending EXCEPT !["response"] = @ \ Served(pending["response"]),
                                        !["reply"] = @ \ Served(Second(m))]
          /\ fut' = Tell(ServedBy(m), "done")
          /\ got' = Give(ServedBy(m), m)
          /\ lost' \in {lost, lost + 1}
          /\ UNCHANGED <<cancelled, editDates, lastRead, stale>>
      BY <1>1, <2>2, RecordFacts
    <3>2. /\ "done" \in Ends /\ pending \in [Kinds -> SUBSET Entries]
          /\ "response" \in Kinds /\ "reply" \in Kinds
      BY DEF Ends, Kinds, TypeInv, Shape
    <3>3. /\ pending' \in [Kinds -> SUBSET Entries]
          /\ \A k \in Kinds : pending'[k] \subseteq pending[k]
      BY <3>1, <3>2
    <3>4. \A a \in ServedBy(m) : a \in Asks /\ fut[a] # "none"
      BY RecordServes
    <3>5. Dictionaries' /\ Futures'
      BY <1>2, <3>1, <3>2, <3>3, <3>4, SettledTypes
    <3>6. Places'
      <4>1. incoming' \in Seq(Messages) /\ Len(incoming') \in Nat /\ Len(incoming') <= MaxIncoming
        BY <1>1, <2>2, <3>1 DEF TypeInv, Shape
      <4>2. indices' \in [Indices -> [Ids -> Int]]
            /\ \A k \in Indices : \A t \in Ids : indices'[k][t] \in {indices[k][t], Len(incoming) + 1}
        BY <1>1, <2>2, RecordIndices
      <4>3. \A k \in Indices : \A t \in Ids : indices[k][t] \in -1..Len(incoming)
        BY Recomposed DEF Places
      <4>4. \A k \in Indices : \A t \in Ids : indices'[k][t] \in -1..Len(incoming')
        <5> TAKE k \in Indices
        <5> TAKE t \in Ids
        <5>1. indices[k][t] \in -1..Len(incoming) /\ Len(incoming) \in Nat
          BY <4>3 DEF TypeInv, Shape
        <5>2. indices'[k][t] \in {indices[k][t], Len(incoming) + 1}
          BY <4>2
        <5> QED BY <3>1, <5>1, <5>2
      <4> QED BY <4>1, <4>2, <4>4 DEF Places
    <3>7. Memory'
      <4>1. got' \in [Asks -> Messages]
        BY <1>1, <3>1, GiveTypes DEF TypeInv, Shape
      <4> QED BY <3>1, <4>1, Recomposed DEF Memory
    <3> QED BY <3>5, <3>6, <3>7
  <2> QED BY <1>2, <2>1, <2>2
<1>4. World'
  <2>1. top' \in 0..MaxTop /\ mine \subseteq 1..top'
    <3>1. mine \subseteq 1..top
      BY DEF TypeInv, TypeOK, Shape
    <3> QED BY <1>1, <1>2, <3>1
  <2> QED BY <1>2, <2>1, Recomposed DEF World
<1> QED BY <1>3, <1>4, Recomposed, PTL

(* The messages of others are messages. *)
LEMMA TheirMessages ==
  ASSUME TypeInv
  PROVE  Theirs \subseteq Messages
<1>1. Range(incoming) \subseteq Messages
  BY DEF TypeInv, Shape, Range
<1>2. ASSUME NEW id \in 1..top PROVE [NoMessage EXCEPT !.id = id] \in Messages
  <2>1. id \in Nat
    BY DEF TypeInv, TypeOK
  <2>2. [NoMessage EXCEPT !.id = id] = [id |-> id, reply |-> 0, date |-> 0, edit |-> 0]
    BY DEF NoMessage
  <2> QED BY <2>1, <2>2 DEF Messages
<1> QED BY <1>1, <1>2 DEF Theirs

(* Those an edit serves, and where it leaves the dates. *)
Waiting(o) == {e \in pending["edit"] : e.target < o.id}
Edition(o, d) == [o EXCEPT !.date = d, !.edit = count["edit"] + 1]

(* What is saved: the messages before, the edited one replaced. *)
Replaced(o, d) == [i \in DOMAIN incoming |-> IF incoming[i] = o THEN Edition(o, d) ELSE incoming[i]]

LEMMA EditFacts ==
  ASSUME TypeInv, NEW o \in Theirs, NEW d \in {date, date + 1}, Edit(o, d)
  PROVE  /\ d \in Nat /\ Stamp(d) \in Nat
         /\ o \in Messages
         /\ Edition(o, d) \in Messages /\ Edition(o, d).id = o.id
         /\ Edition(o, d).date = d /\ Edition(o, d).edit = count["edit"] + 1
         /\ incoming' = Replaced(o, d)
         /\ pending' = [pending EXCEPT !["edit"] = @ \ Served(Waiting(o))]
         /\ fut' = Tell(AsksOf(Served(Waiting(o))), "done")
         /\ got' = Give(AsksOf(Served(Waiting(o))), Edition(o, d))
         /\ lost' = IF Raises(Waiting(o)) THEN lost + 1 ELSE lost
         /\ editDates' \in [Ids -> Nat]
         /\ \A t \in Ids : editDates'[t] >= editDates[t]
         /\ \A e \in Touched(Waiting(o)) : e.target \in Ids => editDates'[e.target] >= Stamp(d)
         /\ count' \in [DOMAIN Bound -> Nat] /\ count'["edit"] = count["edit"] + 1
         /\ date' = d
         /\ UNCHANGED <<open, cancelled, top, mine, sending, outgoing, indices, lastRead, calls, stale>>
<1>1. d \in Nat /\ Stamp(d) \in Nat
  <2>1. d \in Nat
    BY DEF TypeInv, Shape
  <2> QED BY <2>1, StampNat
<1>2. o \in Messages /\ o \in [id : Nat, reply : Nat, date : Nat, edit : Nat]
  BY TheirMessages DEF Messages
<1>3. Count("edit") /\ "edit" \in DOMAIN Bound
  BY DEF Edit, Bound
<1>4. count' \in [DOMAIN Bound -> Nat] /\ count'["edit"] = count["edit"] + 1 /\ count["edit"] \in Nat
  <2>1. count \in [DOMAIN Bound -> Nat]
    BY DEF TypeInv, Shape
  <2>2. count' \in [DOMAIN Bound -> Nat] /\ count'["edit"] = count["edit"] + 1
    BY <1>3, CountTypes
  <2>3. count["edit"] \in Nat
    BY <1>3, <2>1
  <2> QED BY <2>2, <2>3
<1>5. Edition(o, d) = [id |-> o.id, reply |-> o.reply, date |-> d, edit |-> count["edit"] + 1]
  <2> DEFINE c == count["edit"] + 1
  <2>1. Edition(o, d) = [o EXCEPT !.date = d, !.edit = c]
    BY DEF Edition
  <2> HIDE DEF c
  <2>2. Edition(o, d) = [id |-> o.id, reply |-> o.reply, date |-> d, edit |-> c]
    BY <1>2, <2>1
  <2> QED BY <2>2 DEF c
<1>6. /\ Edition(o, d) \in Messages /\ Edition(o, d).id = o.id
      /\ Edition(o, d).date = d /\ Edition(o, d).edit = count["edit"] + 1
  BY <1>1, <1>2, <1>4, <1>5 DEF Messages
<1>7. Waiting(o) = {e \in pending["edit"] : e.target < Edition(o, d).id}
  BY <1>6 DEF Waiting
<1>8. /\ incoming' = Replaced(o, d)
      /\ pending' = [pending EXCEPT !["edit"] = @ \ Served(Waiting(o))]
      /\ fut' = Tell(AsksOf(Served(Waiting(o))), "done")
      /\ got' = Give(AsksOf(Served(Waiting(o))), Edition(o, d))
      /\ lost' = IF Raises(Waiting(o)) THEN lost + 1 ELSE lost
      /\ date' = d
      /\ UNCHANGED <<open, cancelled, top, mine, sending, outgoing, indices, lastRead, calls, stale>>
  BY <1>7, Zenon DEF Edit, Edition, Replaced, Dispatched
<1>9. editDates' = [t \in Ids |->
        IF t \notin TargetsOf(Touched(Waiting(o))) THEN editDates[t]
        ELSE IF Stamp(d) <= editDates[t] THEN editDates[t] + 1 ELSE Stamp(d)]
  BY <1>7, Zenon DEF Edit, Edition
<1>10. editDates \in [Ids -> Nat]
  BY DEF TypeInv, TypeOK
<1>11. \A e \in Touched(Waiting(o)) : e.target \in TargetsOf(Touched(Waiting(o)))
  BY DEF TargetsOf
<1>12. \A t \in Ids : LET v == IF t \notin TargetsOf(Touched(Waiting(o))) THEN editDates[t]
                               ELSE IF Stamp(d) <= editDates[t] THEN editDates[t] + 1 ELSE Stamp(d)
         IN /\ v \in Nat /\ v >= editDates[t]
            /\ t \in TargetsOf(Touched(Waiting(o))) => v >= Stamp(d)
  BY <1>1, <1>10
<1>13. editDates' \in [Ids -> Nat]
  BY <1>9, <1>12
<1>14. \A t \in Ids : /\ editDates'[t] >= editDates[t]
                      /\ t \in TargetsOf(Touched(Waiting(o))) => editDates'[t] >= Stamp(d)
  BY <1>9, <1>12
<1>15. \A e \in Touched(Waiting(o)) : e.target \in Ids => editDates'[e.target] >= Stamp(d)
  BY <1>11, <1>14
<1> QED BY <1>1, <1>2, <1>4, <1>6, <1>8, <1>13, <1>14, <1>15

(* As many are saved as before, each the same or its edition. *)
LEMMA ReplacedFacts ==
  ASSUME TypeInv, NEW o \in Theirs, NEW d \in {date, date + 1}, Edit(o, d)
  PROVE  /\ incoming' \in Seq(Messages) /\ Len(incoming') = Len(incoming)
         /\ \A i \in 1..Len(incoming) :
              \/ incoming'[i] = incoming[i]
              \/ incoming[i] = o /\ incoming'[i] = Edition(o, d)
         /\ \A i \in 1..Len(incoming) : incoming'[i].id = incoming[i].id
<1> DEFINE m == Edition(o, d)
<1>1. m \in Messages /\ m.id = o.id /\ incoming' = Replaced(o, d)
  BY EditFacts
<1> HIDE DEF m
<1>2. incoming \in Seq(Messages) /\ Len(incoming) \in Nat /\ DOMAIN incoming = 1..Len(incoming)
  BY DEF TypeInv, Shape
<1>3. incoming' = [i \in 1..Len(incoming) |-> IF incoming[i] = o THEN m ELSE incoming[i]]
  BY <1>1, <1>2 DEF Replaced, m
<1>4. \A i \in 1..Len(incoming) : incoming'[i] = IF incoming[i] = o THEN m ELSE incoming[i]
  BY <1>3
<1>5. \A i \in 1..Len(incoming) : incoming[i] \in Messages
  BY <1>2
<1>6. incoming' \in Seq(Messages) /\ Len(incoming') = Len(incoming)
  <2>1. incoming' \in [1..Len(incoming) -> Messages]
    BY <1>1, <1>3, <1>5
  <2> QED BY <1>2, <2>1
<1> QED BY <1>1, <1>4, <1>6 DEF m

LEMMA EditTypes ==
  ASSUME TypeInv, NEW o \in Theirs, NEW d \in {date, date + 1}, Edit(o, d)
  PROVE  TypeInv'
<1> DEFINE m == Edition(o, d)
           es == Waiting(o)
<1>1. /\ d \in Nat /\ m \in Messages /\ editDates' \in [Ids -> Nat]
      /\ count' \in [DOMAIN Bound -> Nat] /\ date' = d
      /\ pending' = [pending EXCEPT !["edit"] = @ \ Served(es)]
      /\ fut' = Tell(AsksOf(Served(es)), "done")
      /\ got' = Give(AsksOf(Served(es)), m)
      /\ lost' \in {lost, lost + 1}
      /\ UNCHANGED <<open, cancelled, top, mine, sending, outgoing, indices, lastRead, calls, stale>>
  BY EditFacts
<1>2. es \subseteq pending["edit"]
  BY DEF Waiting
<1> HIDE DEF m, es
<1>3. /\ "done" \in Ends /\ "edit" \in Kinds /\ pending \in [Kinds -> SUBSET Entries]
  BY DEF Ends, Kinds, TypeInv, Shape
<1>4. /\ pending' \in [Kinds -> SUBSET Entries]
      /\ \A k \in Kinds : pending'[k] \subseteq pending[k]
  BY <1>1, <1>3
<1>5. \A a \in AsksOf(Served(es)) : a \in Asks /\ fut[a] # "none"
  BY <1>2, <1>3, ServedAsks
<1>6. Dictionaries' /\ Futures'
  <2> DEFINE as == AsksOf(Served(es))
  <2>1. fut' = Tell(as, "done") /\ \A a \in as : a \in Asks /\ fut[a] # "none"
    BY <1>1, <1>5
  <2> HIDE DEF as
  <2> QED BY <1>1, <1>3, <1>4, <2>1, SettledTypes
<1>7. Places'
  <2>1. Len(incoming) <= MaxIncoming /\ Places
    BY Recomposed DEF Places
  <2>2. incoming' \in Seq(Messages) /\ Len(incoming') = Len(incoming)
    BY ReplacedFacts
  <2> QED BY <1>1, <2>1, <2>2 DEF Places
<1>8. got' \in [Asks -> Messages]
  BY <1>1, GiveTypes DEF TypeInv, Shape
<1>9. World'
  BY <1>1, Recomposed DEF World
<1>10. Memory'
  BY <1>1, <1>8, Recomposed DEF Memory
<1> QED BY <1>6, <1>7, <1>9, <1>10, Recomposed, PTL

LEMMA ReadTypes ==
  ASSUME TypeInv, NEW max \in mine, Read(max)
  PROVE  TypeInv'
<1> DEFINE es == {e \in pending["read"] : e.target >= max}
<1>1. /\ Count("read") /\ lastRead' = max
      /\ pending' = [pending EXCEPT !["read"] = @ \ Served(es)]
      /\ fut' = Tell(AsksOf(Served(es)), "done")
      /\ lost' \in {lost, lost + 1}
      /\ UNCHANGED <<open, cancelled, chat, incoming, indices, editDates, calls, got, stale>>
  BY DEF Read, Dispatched
<1>2. es \subseteq pending["read"]
  OBVIOUS
<1> HIDE DEF es
<1>3. /\ "done" \in Ends /\ "read" \in Kinds /\ "read" \in DOMAIN Bound
      /\ pending \in [Kinds -> SUBSET Entries]
  BY DEF Ends, Kinds, Bound, TypeInv, Shape
<1>4. /\ pending' \in [Kinds -> SUBSET Entries]
      /\ \A k \in Kinds : pending'[k] \subseteq pending[k]
  BY <1>1, <1>3
<1>5. \A a \in AsksOf(Served(es)) : a \in Asks /\ fut[a] # "none"
  BY <1>2, <1>3, ServedAsks
<1>6. Dictionaries' /\ Futures'
  <2> DEFINE as == AsksOf(Served(es))
  <2>1. fut' = Tell(as, "done") /\ \A a \in as : a \in Asks /\ fut[a] # "none"
    BY <1>1, <1>5
  <2> HIDE DEF as
  <2> QED BY <1>1, <1>3, <1>4, <2>1, SettledTypes DEF chat
<1>7. Places'
  BY <1>1, Recomposed DEF Places
<1>8. count' \in [DOMAIN Bound -> Nat]
  BY <1>1, <1>3, CountTypes
<1>9. World'
  BY <1>1, <1>8, Recomposed DEF World, chat
<1>10. lastRead' \in -1..MaxTop
  <2>1. max \in 1..top /\ top \in 0..MaxTop /\ MaxTop \in Nat
    BY ConversationAssumption DEF ConversationAssumption, TypeInv, TypeOK
  <2> QED BY <1>1, <2>1
<1>11. Memory'
  BY <1>1, <1>10, Recomposed DEF Memory
<1> QED BY <1>6, <1>7, <1>9, <1>11, Recomposed, PTL

(* Of the calls, entering keeps those of wait_read in their dictionary. *)
LEMMA EnterTypes ==
  ASSUME TypeInv, Enter
  PROVE  TypeInv'
<1>1. /\ open' = "open" /\ cancelled' = FALSE /\ outgoing' = {} /\ incoming' = <<>>
      /\ pending' = [k \in Kinds |-> IF k = "read" THEN pending[k] ELSE {}]
      /\ indices' = Absent /\ editDates' = [t \in Ids |-> 0]
      /\ stale' \in BOOLEAN
      /\ UNCHANGED <<top, mine, sending, date, lastRead, asked, ask, fut, got, lost>>
  BY DEF Enter, Raises, calls
<1>2. count' \in [DOMAIN Bound -> Nat]
  <2>1. "again" \in DOMAIN Bound
    BY DEF Bound
  <2> QED BY <2>1, CountTypes DEF Enter, TypeInv, Shape
<1>3. World'
  BY <1>1, <1>2, Recomposed DEF World
<1>4. Memory'
  <2>1. editDates' \in [Ids -> Nat]
    BY <1>1
  <2> QED BY <1>1, <2>1, Recomposed DEF Memory
<1>5. Places'
  <2>1. incoming' \in Seq(Messages) /\ Len(incoming') = 0 /\ 0 <= MaxIncoming
    BY <1>1, ConversationAssumption DEF ConversationAssumption
  <2>2. indices' = [k \in Indices |-> [t \in Ids |-> -1]]
    BY <1>1 DEF Indices, Absent
  <2>3. -1 \in Int /\ -1 \in -1..0
    OBVIOUS
  <2> QED BY <2>1, <2>2, <2>3 DEF Places
<1>6. Futures'
  BY <1>1, Recomposed DEF Futures, Known
<1>7. Dictionaries'
  <2>1. Dictionaries
    BY Recomposed
  <2>2. \A k \in Kinds : pending'[k] \subseteq pending[k] /\ (k # "read" => pending'[k] = {})
    BY <1>1
  <2>3. pending' \in [Kinds -> SUBSET Entries]
    BY <1>1, <2>1 DEF Dictionaries
  <2>4. OfCalls'
    BY <1>1, <2>1, <2>2 DEF OfCalls, Dictionaries
  <2>5. Targeted'
    BY <1>1, <2>1 DEF Targeted, Dictionaries
  <2>6. \A k \in Kinds : \A d, e \in pending'[k] : d.target = e.target => d = e
    BY <2>1, <2>2 DEF Dictionaries
  <2> QED BY <1>1, <2>1, <2>3, <2>4, <2>5, <2>6 DEF Dictionaries
<1> QED BY <1>3, <1>4, <1>5, <1>6, <1>7, Recomposed, PTL

LEMMA PlainTypes ==
  ASSUME TypeInv, Send \/ Sent \/ UNCHANGED vars
  PROVE  TypeInv'
<1>1. /\ UNCHANGED <<cancelled, date, memory, pending, calls, fut, got, count, lost, stale>>
      /\ outgoing' \in {outgoing, outgoing \cup {sending}}
      /\ open' = open
  BY DEF Send, Sent, vars, chat
<1>2. outgoing \subseteq outgoing'
  BY <1>1
<1>3. top \in 0..MaxTop /\ MaxTop \in Nat /\ outgoing \subseteq mine /\ mine \subseteq 1..top
      /\ sending \in mine \cup {0} /\ sending \notin outgoing
  BY ConversationAssumption DEF ConversationAssumption, TypeInv, TypeOK, Shape
<1>4. Targeted
  BY DEF TypeInv, Owned
<1>5. /\ top' \in 0..MaxTop /\ outgoing' \subseteq mine' /\ mine' \subseteq 1..top'
      /\ sending' \in mine' \cup {0} /\ sending' \notin outgoing'
      /\ Targeted'
  <2>1. CASE UNCHANGED vars
    BY <1>3, <1>4, <2>1 DEF vars, chat, calls, Targeted
  <2>2. CASE Send
    <3>1. /\ top < MaxTop /\ top' = top + 1 /\ sending' = top + 1 /\ outgoing' = outgoing
          /\ mine' = mine \cup {top + 1} /\ asked' = asked /\ ask' = ask
      BY <2>2 DEF Send, calls
    <3>2. top + 1 \notin mine
      BY <1>3
    <3>3. Targeted'
      BY <1>4, <3>1, <3>2 DEF Targeted
    <3> QED BY <1>3, <3>1, <3>2, <3>3
  <2>3. CASE Sent
    <3>1. /\ sending # 0 /\ top' = top /\ sending' = 0 /\ outgoing' = outgoing \cup {sending}
          /\ mine' = mine /\ asked' = asked /\ ask' = ask
      BY <2>3 DEF Sent, calls
    <3>2. 0 \notin mine
      BY <1>3
    <3>3. Targeted'
      BY <1>4, <3>1, <3>2 DEF Targeted
    <3> QED BY <1>3, <3>1, <3>2, <3>3
  <2> QED BY <2>1, <2>2, <2>3
<1>6. World'
  BY <1>1, <1>5, Recomposed DEF World
<1>7. Places' /\ Memory' /\ Futures'
  BY <1>1, Recomposed DEF Places, Memory, memory, Futures, Known, calls
<1>8. Dictionaries'
  <2>1. Dictionaries
    BY Recomposed
  <2>2. OfCalls'
    BY <1>1, <1>2, <2>1 DEF Dictionaries, OfCalls, calls
  <2> QED BY <1>1, <1>5, <2>1, <2>2 DEF Dictionaries, calls
<1> QED BY <1>6, <1>7, <1>8, Recomposed, PTL

LEMMA TypeStep == TypeInv /\ [Next]_vars => TypeInv'
<1> SUFFICES ASSUME TypeInv, [Next]_vars PROVE TypeInv'
  OBVIOUS
<1>0. CASE Enter
  BY <1>0, EnterTypes
<1>1. CASE Send \/ Sent \/ UNCHANGED vars
  BY <1>1, PlainTypes
<1>2. CASE \E t \in outgoing : GetMessage("response", t) \/ GetMessage("reply", t)
  BY <1>2, GetMessageTypes DEF Indices
<1>3. CASE \E t \in outgoing : GetEdit(t) \/ WaitRead(t)
  BY <1>3, GetEditTypes, WaitReadTypes
<1>4. CASE \E a \in Asks : Timeout(a)
  BY <1>4, TimeoutTypes
<1>5. CASE Cancel \/ Exit
  BY <1>5, CancelTypes
<1>6. CASE \E r \in mine \cup {0} : Arrive(r)
  BY <1>6, ArriveTypes
<1>7. CASE \E o \in Theirs : \E d \in {date, date + 1} : Edit(o, d)
  BY <1>7, EditTypes
<1>8. CASE \E max \in mine : Read(max)
  BY <1>8, ReadTypes
<1> QED BY <1>0, <1>1, <1>2, <1>3, <1>4, <1>5, <1>6, <1>7, <1>8 DEF Next

LEMMA AlwaysTypeInv == Spec => []TypeInv
BY InitTypes, TypeStep, PTL DEF Spec

(* Every variable has its type, and a dictionary has at most one future    *)
(* for each target: TypeOK.                                                *)
THEOREM Typed == Spec => []TypeOK
<1>1. TypeInv => TypeOK
  BY DEF TypeInv
<1> QED BY <1>1, AlwaysTypeInv, PTL

-----------------------------------------------------------------------------
(* What the steps do to the futures                                        *)

(* A call of get_response, get_reply, get_edit or wait_read. *)
Ask(kind, t) ==
  \/ kind \in Indices /\ GetMessage(kind, t)
  \/ kind = "edit" /\ GetEdit(t)
  \/ kind = "read" /\ WaitRead(t)

LEMMA AskSteps ==
  ASSUME TypeInv, NEW kind \in Kinds, NEW t \in outgoing, Ask(kind, t)
  PROVE  /\ Asking(kind, t)
         /\ \/ Await(kind, t)
            \/ \E how \in Ends : /\ fut' = [fut EXCEPT ![asked + 1] = how]
                                 /\ UNCHANGED <<pending, stale>>
<1>1. CASE kind \in Indices /\ GetMessage(kind, t)
  BY <1>1 DEF GetMessage, Return, Ends
<1>2. CASE kind = "edit" /\ GetEdit(t)
  BY <1>2 DEF GetEdit, Return, Ends
<1>3. CASE kind = "read" /\ WaitRead(t)
  BY <1>3 DEF WaitRead, Ends
<1> QED BY <1>1, <1>2, <1>3 DEF Ask

(* Futures are set, and their entries leave the dictionaries. *)
Serving(asks) ==
  /\ fut' = Tell(asks, "done")
  /\ UNCHANGED <<cancelled, stale, calls, outgoing>>
  /\ lost' \in {lost, lost + 1}
  /\ \A k \in Kinds : pending'[k] \subseteq pending[k]
  /\ \A a \in asks : a \in Asks /\ fut[a] \in Settable
  /\ \A k \in Kinds : \A e \in pending'[k] : e.ask \notin asks

Serve ==
  \/ \E m \in Messages : Record(m) /\ UNCHANGED <<calls, outgoing>>
  \/ \E o \in Theirs : \E d \in {date, date + 1} : Edit(o, d)
  \/ \E max \in mine : Read(max)

(* One dictionary, whose entries es are served. *)
LEMMA ServingOne ==
  ASSUME TypeInv, NEW k \in Kinds, NEW es, es \subseteq pending[k],
         pending' = [pending EXCEPT ![k] = @ \ Served(es)],
         fut' = Tell(AsksOf(Served(es)), "done"),
         UNCHANGED <<cancelled, stale, calls, outgoing>>, lost' \in {lost, lost + 1}
  PROVE  Serving(AsksOf(Served(es)))
<1>0. pending \in [Kinds -> SUBSET Entries]
  BY DEF TypeInv, Shape
<1>1. \A l \in Kinds : /\ pending'[l] \subseteq pending[l]
                       /\ l = k => pending'[l] = pending[l] \ Served(es)
  BY <1>0
<1>2. \A a \in AsksOf(Served(es)) :
        a \in Asks /\ \E e \in Served(es) : e \in pending[k] /\ a = e.ask /\ fut[e.ask] \in Settable
  BY ServedAsks
<1>3. \A l \in Kinds : \A e \in pending'[l] : e.ask \notin AsksOf(Served(es))
  BY <1>1, <1>2, EntryUnique
<1> QED BY <1>1, <1>2, <1>3 DEF Serving

LEMMA ServeSteps ==
  ASSUME TypeInv, Serve
  PROVE  \E asks : Serving(asks)
<1>0. pending \in [Kinds -> SUBSET Entries] /\ {"response", "reply", "edit", "read"} = Kinds
  BY DEF TypeInv, Shape, Kinds
<1>1. ASSUME NEW m \in Messages, Record(m), UNCHANGED <<calls, outgoing>> PROVE Serving(ServedBy(m))
  <2> DEFINE first == Served(pending["response"])
             second == Served(Second(m))
  <2>1. /\ pending' = [pending EXCEPT !["response"] = @ \ first, !["reply"] = @ \ second]
        /\ fut' = Tell(ServedBy(m), "done") /\ lost' \in {lost, lost + 1}
        /\ UNCHANGED <<cancelled, stale>>
    BY <1>1, RecordFacts
  <2>2. \A a \in ServedBy(m) : \/ \E e \in first : e \in pending["response"] /\ a = e.ask
                               \/ \E e \in second : e \in pending["reply"] /\ a = e.ask
    BY RecordServes
  <2>3. (\A e \in first : fut[e.ask] \in Settable) /\ \A e \in second : fut[e.ask] \in Settable
    <3>1. Second(m) \subseteq pending["reply"]
      BY RecordServes
    <3> QED BY <1>0, <3>1, ServedAsks
  <2> HIDE DEF first, second
  <2>4. \A a \in ServedBy(m) : a \in Asks /\ fut[a] \in Settable
    BY <2>2, <2>3, RecordServes
  <2>5. /\ \A l \in Kinds : pending'[l] \subseteq pending[l]
        /\ pending'["response"] = pending["response"] \ first
        /\ pending'["reply"] = pending["reply"] \ second
    BY <1>0, <2>1
  <2>6. \A l \in Kinds : \A e \in pending'[l] : e.ask \notin ServedBy(m)
    BY <1>0, <2>2, <2>5, EntryUnique
  <2> QED BY <1>1, <2>1, <2>4, <2>5, <2>6 DEF Serving
<1>2. ASSUME NEW o \in Theirs, NEW d \in {date, date + 1}, Edit(o, d)
      PROVE  Serving(AsksOf(Served(Waiting(o))))
  <2>1. /\ pending' = [pending EXCEPT !["edit"] = @ \ Served(Waiting(o))]
        /\ fut' = Tell(AsksOf(Served(Waiting(o))), "done")
        /\ lost' \in {lost, lost + 1}
        /\ UNCHANGED <<cancelled, outgoing, calls, stale>>
    BY <1>2, EditFacts
  <2>2. Waiting(o) \subseteq pending["edit"]
    BY DEF Waiting
  <2> QED BY <1>0, <2>1, <2>2, ServingOne
<1>3. ASSUME NEW max \in mine, Read(max)
      PROVE  \E asks : Serving(asks)
  <2> DEFINE es == {e \in pending["read"] : e.target >= max}
  <2>1. /\ pending' = [pending EXCEPT !["read"] = @ \ Served(es)]
        /\ fut' = Tell(AsksOf(Served(es)), "done")
        /\ lost' \in {lost, lost + 1}
        /\ UNCHANGED <<cancelled, outgoing, calls, stale>>
    BY <1>3 DEF Read, Dispatched, chat
  <2>2. es \subseteq pending["read"]
    OBVIOUS
  <2> HIDE DEF es
  <2> QED BY <1>0, <2>1, <2>2, ServingOne
<1> QED BY <1>1, <1>2, <1>3 DEF Serve

(* Every step enters, asks, serves, cancels, overflows, times out, or      *)
(* touches no future. *)
LEMMA Steps ==
  ASSUME TypeInv, [Next]_vars
  PROVE  \/ Enter
         \/ \E kind \in Kinds : \E t \in outgoing : Ask(kind, t)
         \/ Serve
         \/ CancelAll /\ UNCHANGED <<memory, pending, calls, lost, outgoing>>
         \/ Overflow /\ UNCHANGED <<calls, outgoing>>
         \/ \E a \in Asks : Timeout(a)
         \/ UNCHANGED <<cancelled, memory, pending, calls, fut, got, count, lost, stale>>
<1>1. CASE Send \/ Sent \/ UNCHANGED vars
  BY <1>1 DEF Send, Sent, vars
<1>2. CASE \E t \in outgoing : GetMessage("response", t) \/ GetMessage("reply", t) \/ GetEdit(t) \/ WaitRead(t)
  BY <1>2 DEF Ask, Indices, Kinds
<1>3. CASE Cancel \/ Exit
  BY <1>3 DEF Cancel, Exit, chat
<1>4. CASE \E r \in mine \cup {0} : Arrive(r)
  <2>1. PICK r \in mine \cup {0} : Arrive(r)
    BY <1>4
  <2> DEFINE m == [id |-> top + 1, reply |-> r, date |-> 0, edit |-> 0]
  <2>2. m \in Messages
    <3>0. top \in 0..MaxTop /\ MaxTop \in Nat /\ mine \subseteq 1..top
      BY ConversationAssumption DEF ConversationAssumption, TypeInv, TypeOK
    <3>1. r \in Nat /\ top \in Nat
      BY <3>0
    <3> QED BY <3>1 DEF Messages
  <2>3. (Overflow \/ Record(m)) /\ UNCHANGED <<calls, outgoing>>
    BY <2>1 DEF Arrive
  <2> HIDE DEF m
  <2> QED BY <2>2, <2>3 DEF Serve
<1> QED BY <1>1, <1>2, <1>3, <1>4, Zenon DEF Next, Serve

-----------------------------------------------------------------------------
(* Everybody is told                                                       *)

LEMMA AwaitFutures ==
  ASSUME TypeInv, NEW kind \in Kinds, NEW t \in outgoing, Asking(kind, t), Await(kind, t)
  PROVE  \A k \in Kinds : \A e \in pending'[k] :
           \/ e \in pending[k] /\ fut'[e.ask] = fut[e.ask]
           \/ e.ask = asked + 1 /\ fut'[e.ask] = IF cancelled THEN "dropped" ELSE "waiting"
<1>1. asked + 1 \in Asks /\ \A a \in 1..asked : a \in Asks \ {asked + 1}
  BY AskingNumbers
<1>2. PICK at \in Nat :
        LET new == [target |-> t, ask |-> asked + 1, at |-> at] IN
          /\ pending'[kind] = {e \in pending[kind] : e.target # t} \cup {new}
          /\ \A k \in Kinds \ {kind} : pending'[k] = pending[k]
  BY AwaitTypes
<1>3. fut' = [fut EXCEPT ![asked + 1] = IF cancelled THEN "dropped" ELSE "waiting"]
      /\ fut \in [Asks -> Outcomes]
  BY Recomposed DEF Await, Futures, Known
<1> TAKE k \in Kinds
<1> TAKE e \in pending'[k]
<1>4. CASE e \in pending[k]
  <2>1. e.ask \in 1..asked
    BY <1>4 DEF TypeInv, Owned, OfCalls
  <2> QED BY <1>1, <1>3, <1>4, <2>1
<1>5. CASE e \notin pending[k]
  <2>1. e.ask = asked + 1
    BY <1>2, <1>5
  <2> QED BY <1>1, <1>3, <2>1
<1> QED BY <1>4, <1>5

LEMMA ToldStep == TypeInv /\ Told /\ [Next]_vars => Told'
<1> SUFFICES ASSUME TypeInv, Told, [Next]_vars, cancelled', lost' = 0,
                    NEW k \in Kinds \ {"read"}, NEW e \in pending'[k], fut'[e.ask] = "waiting"
             PROVE  FALSE
  BY DEF Told
<1>0. lost \in Nat /\ fut \in [Asks -> Outcomes]
  BY Recomposed DEF Memory, Futures, Known
<1>1. ASSUME cancelled, lost = 0, e \in pending[k] PROVE fut[e.ask] # "waiting"
  BY <1>1 DEF Told
<1>2. CASE \E kind \in Kinds : \E t \in outgoing : Ask(kind, t)
  <2>1. PICK kind \in Kinds : \E t \in outgoing : Ask(kind, t)
    BY <1>2
  <2>2. PICK t \in outgoing : Ask(kind, t)
    BY <2>1
  <2>3. cancelled /\ lost = 0
    BY <2>2, AskSteps DEF Asking
  <2>4. CASE Await(kind, t)
    BY <1>1, <2>2, <2>3, <2>4, AskSteps, AwaitFutures
  <2>5. ASSUME NEW how \in Ends, fut' = [fut EXCEPT ![asked + 1] = how], UNCHANGED <<pending, stale>>
        PROVE  FALSE
    <3>1. fut[e.ask] # "waiting" /\ e \in pending[k]
      BY <1>1, <2>3, <2>5
    <3>2. e.ask \in Asks
      BY <3>1, EntryTypes
    <3> QED BY <1>0, <2>5, <3>1, <3>2 DEF Ends
  <2> QED BY <2>2, <2>4, <2>5, AskSteps
<1>3. CASE Serve
  <2>1. PICK asks : Serving(asks)
    BY <1>3, ServeSteps
  <2>2. cancelled /\ lost = 0 /\ e \in pending[k] /\ e.ask \notin asks
    BY <1>0, <2>1 DEF Serving
  <2>3. e.ask \in Asks
    BY <2>2, EntryTypes
  <2>4. fut'[e.ask] = fut[e.ask]
    BY <2>1, <2>2, <2>3 DEF Serving, Tell
  <2> QED BY <1>1, <2>2, <2>4
<1>4. CASE CancelAll /\ UNCHANGED <<memory, pending, calls, lost, outgoing>>
  <2>1. e \in pending[k] /\ e.ask \in Asks /\ e.ask \in AsksOf(Cancellable)
    BY <1>4, CancellableTypes, EntryTypes
  <2> QED BY <1>4, <2>1 DEF CancelAll, Settable
<1>5. CASE Overflow /\ UNCHANGED <<calls, outgoing>>
  <2>1. pending' = pending /\ ~Raises(Cancellable) /\ fut' = Tell(AsksOf(Served(Cancellable)), "error")
    BY <1>0, <1>5 DEF Overflow, Dispatched
  <2>2. Served(Cancellable) = Cancellable
    BY <2>1 DEF Served, Raises
  <2>3. e.ask \in Asks /\ e.ask \in AsksOf(Cancellable)
    BY <2>1, CancellableTypes, EntryTypes
  <2> QED BY <2>1, <2>2, <2>3 DEF Tell, Settled
<1>6. CASE \E a \in Asks : Timeout(a)
  <2>1. PICK a \in Asks : Timeout(a)
    BY <1>6
  <2>2. cancelled /\ lost = 0 /\ e \in pending[k] /\ fut' = [fut EXCEPT ![a] = "timeout"]
    BY <2>1 DEF Timeout
  <2>3. e.ask \in Asks
    BY <2>2, EntryTypes
  <2> QED BY <1>0, <1>1, <2>2, <2>3
<1>7. CASE UNCHANGED <<cancelled, memory, pending, calls, fut, got, count, lost, stale>>
  BY <1>1, <1>7
<1>8. CASE Enter
  BY <1>8 DEF Enter
<1> QED BY <1>2, <1>3, <1>4, <1>5, <1>6, <1>7, <1>8, Steps

(* Once a conversation is cancelled nobody waits in it for a response, a   *)
(* reply or an edit: Told. *)
THEOREM AlwaysTold == Spec => []Told
<1>1. Init => Told
  BY DEF Init, Told
<1> QED BY <1>1, ToldStep, AlwaysTypeInv, PTL DEF Spec

-----------------------------------------------------------------------------
(* Nobody waits for what is there                                          *)

(* The futures of the dictionaries can be set, unless one ended there. *)
Alive == ~stale => \A k \in Kinds : \A e \in pending[k] : fut[e.ask] \in Settable

LEMMA AliveStep == TypeInv /\ Alive /\ [Next]_vars => Alive'
<1> SUFFICES ASSUME TypeInv, Alive, [Next]_vars, ~stale', NEW k \in Kinds, NEW e \in pending'[k]
             PROVE  fut'[e.ask] \in Settable
  BY DEF Alive, Settable
<1>0. fut \in [Asks -> Outcomes] /\ stale \in BOOLEAN
  BY Recomposed DEF Memory, Futures, Known
<1>1. ASSUME ~stale, e \in pending[k] PROVE fut[e.ask] \in Settable /\ e.ask \in Asks
  BY <1>1, EntryTypes DEF Alive
<1>2. CASE \E kind \in Kinds : \E t \in outgoing : Ask(kind, t)
  <2>1. PICK kind \in Kinds : \E t \in outgoing : Ask(kind, t)
    BY <1>2
  <2>2. PICK t \in outgoing : Ask(kind, t)
    BY <2>1
  <2>3. CASE Await(kind, t)
    <3>1. ~stale
      BY <2>3 DEF Await
    <3>2. \/ e \in pending[k] /\ fut'[e.ask] = fut[e.ask]
          \/ fut'[e.ask] = IF cancelled THEN "dropped" ELSE "waiting"
      BY <2>2, <2>3, AskSteps, AwaitFutures
    <3> QED BY <1>1, <3>1, <3>2 DEF Settable
  <2>4. ASSUME NEW how \in Ends, fut' = [fut EXCEPT ![asked + 1] = how], UNCHANGED <<pending, stale>>
        PROVE  fut'[e.ask] \in Settable
    <3>1. fut[e.ask] \in Settable /\ e.ask \in Asks /\ e.ask # asked + 1
      <4>1. e \in pending[k] /\ ~stale
        BY <2>4
      <4>2. e.ask \in 1..asked
        BY <4>1 DEF TypeInv, Owned, OfCalls
      <4>3. \A a \in 1..asked : a \in Asks \ {asked + 1}
        BY <2>2, AskSteps, AskingNumbers
      <4> QED BY <1>1, <4>1, <4>2, <4>3
    <3> QED BY <1>0, <2>4, <3>1
  <2> QED BY <2>2, <2>3, <2>4, AskSteps
<1>3. CASE Serve
  <2>1. PICK asks : Serving(asks)
    BY <1>3, ServeSteps
  <2>2. ~stale /\ e \in pending[k] /\ e.ask \notin asks
    BY <2>1 DEF Serving
  <2>3. fut'[e.ask] = fut[e.ask]
    BY <1>1, <2>1, <2>2 DEF Serving, Tell
  <2> QED BY <1>1, <2>2, <2>3
<1>4. ASSUME stale' = (stale \/ Cancellable # {}), pending' = pending
      PROVE  ~stale /\ Cancellable = {} /\ e \in pending[k] /\ AsksOf(Cancellable) = {}
  BY <1>4 DEF AsksOf
<1>5. CASE CancelAll /\ UNCHANGED <<memory, pending, calls, lost, outgoing>>
  BY <1>0, <1>1, <1>4, <1>5 DEF CancelAll
<1>6. CASE Overflow /\ UNCHANGED <<calls, outgoing>>
  <2>1. fut' = Tell(AsksOf(Served(Cancellable)), "error") /\ stale' = (stale \/ Cancellable # {}) /\ pending' = pending
    BY <1>6 DEF Overflow
  <2>2. AsksOf(Served(Cancellable)) = {}
    BY <1>4, <2>1 DEF Served, AsksOf
  <2> QED BY <1>1, <1>4, <2>1, <2>2 DEF Tell
<1>7. CASE \E a \in Asks : Timeout(a)
  BY <1>7 DEF Timeout
<1>8. CASE UNCHANGED <<cancelled, memory, pending, calls, fut, got, count, lost, stale>>
  BY <1>1, <1>8
<1>9. CASE Enter
  <2>1. /\ stale' = Raises(pending["read"]) /\ fut' = fut
        /\ pending' = [l \in Kinds |-> IF l = "read" THEN pending[l] ELSE {}]
    BY <1>9 DEF Enter
  <2>2. e \in pending["read"]
    BY <2>1
  <2>3. e \notin Stuck(pending["read"])
    BY <2>1 DEF Raises
  <2> QED BY <2>1, <2>2, <2>3 DEF Stuck
<1> QED BY <1>2, <1>3, <1>5, <1>6, <1>7, <1>8, <1>9, Steps

(* A question moves the position of its target only to the answer, or      *)
(* behind the last message. *)
LEMMA AskIndices ==
  ASSUME TypeInv, NEW kind \in Indices, NEW t \in outgoing, GetMessage(kind, t)
  PROVE  LET i == Index(kind, t)
             there == i < Len(incoming) /\ Responds(kind, incoming[i + 1], t)
             d == Dictionary(kind)
         IN /\ t \in Ids /\ d \in Indices /\ i \in 0..Len(incoming)
            /\ indices[d][t] \in -1..Len(incoming) /\ (indices[d][t] # -1 => i = indices[d][t])
            /\ indices'[d][t] = IF there THEN i + 1 ELSE i
            /\ \A k \in Indices : \A u \in Ids : k # d \/ u # t => indices'[k][u] = indices[k][u]
            /\ IF there THEN Return(incoming[i + 1]) ELSE Await(kind, t)
            /\ incoming' = incoming
<1> DEFINE i == Index(kind, t)
           there == i < Len(incoming) /\ Responds(kind, incoming[i + 1], t)
           d == Dictionary(kind)
<1>1. Asking(kind, t) /\ t \in Ids /\ incoming' = incoming
  <2>1. Asking(kind, t)
    BY DEF GetMessage
  <2> QED BY <2>1, AskingNumbers DEF Asking
<1>2. d \in Indices /\ indices[d][t] \in -1..Len(incoming) /\ i \in 0..Len(incoming)
  <2>1. /\ Dictionary(kind) \in Indices /\ Index(kind, t) \in 0..Len(incoming)
        /\ indices[Dictionary(kind)][t] \in -1..Len(incoming)
    BY <1>1, IndexTypes
  <2> QED BY <2>1
<1>3. indices[d][t] # -1 => i = indices[d][t]
  BY DEF Index
<1>4. indices' = [indices EXCEPT ![d][t] = IF there THEN i + 1 ELSE i]
  BY DEF GetMessage
<1>5. IF there THEN Return(incoming[i + 1]) ELSE Await(kind, t)
  BY DEF GetMessage
<1>6. indices \in [Indices -> [Ids -> Int]]
  BY DEF TypeInv, Shape
<1> HIDE DEF i, there, d
<1>7. /\ indices'[d][t] = IF there THEN i + 1 ELSE i
      /\ \A k \in Indices : \A u \in Ids : k # d \/ u # t => indices'[k][u] = indices[k][u]
  BY <1>1, <1>2, <1>4, <1>6
<1> QED BY <1>1, <1>2, <1>3, <1>5, <1>7 DEF i, there, d

LEMMA PromptStep == TypeInv /\ Alive /\ Prompt /\ [Next]_vars => Prompt'
<1> SUFFICES ASSUME TypeInv, Alive, Prompt, [Next]_vars, ~stale', NEW e \in pending'["response"]
             PROVE  indices'["response"][e.target] = Len(incoming')
  BY DEF Prompt
<1>0. "response" \in Kinds /\ stale \in BOOLEAN /\ Len(incoming) \in Nat
  BY DEF TypeInv, Shape, Kinds
<1>1. ASSUME ~stale, e \in pending["response"]
      PROVE  indices["response"][e.target] = Len(incoming) /\ e.target \in Ids
  <2>1. e.target \in Ids
    BY <1>0, <1>1, EntryTypes
  <2> QED BY <1>1, <2>1 DEF Prompt
<1>2. CASE \E kind \in Indices : \E t \in outgoing : GetMessage(kind, t)
  <2>1. PICK kind \in Indices : \E t \in outgoing : GetMessage(kind, t)
    BY <1>2
  <2>2. PICK t \in outgoing : GetMessage(kind, t)
    BY <2>1
  <2> DEFINE i == Index(kind, t)
             there == i < Len(incoming) /\ Responds(kind, incoming[i + 1], t)
             d == Dictionary(kind)
  <2>3. /\ t \in Ids /\ d \in Indices /\ i \in 0..Len(incoming)
        /\ indices[d][t] \in -1..Len(incoming) /\ (indices[d][t] # -1 => i = indices[d][t])
        /\ indices'[d][t] = IF there THEN i + 1 ELSE i
        /\ \A k \in Indices : \A u \in Ids : k # d \/ u # t => indices'[k][u] = indices[k][u]
        /\ IF there THEN Return(incoming[i + 1]) ELSE Await(kind, t)
        /\ incoming' = incoming
    BY <2>2, AskIndices
  <2>4. Asking(kind, t) /\ kind \in Kinds
    BY <2>2 DEF GetMessage, Indices, Kinds
  <2>5. ~there => i >= Len(incoming) \/ kind # "response"
    BY <1>0, <2>3 DEF Responds
  <2>6. kind = "response" => d = "response"
    BY DEF Dictionary
  <2>7. there => i < Len(incoming)
    OBVIOUS
  <2> HIDE DEF i, there, d
  <2>8. ~stale
    <3>1. CASE there
      BY <2>3, <3>1 DEF Return
    <3>2. CASE ~there
      BY <2>3, <3>2 DEF Await
    <3> QED BY <3>1, <3>2
  <2>9. CASE e \in pending["response"]
    <3>1. indices["response"][e.target] = Len(incoming) /\ e.target \in Ids
      BY <1>1, <2>8, <2>9
    <3>2. CASE d = "response" /\ t = e.target
      <4>1. i = Len(incoming) /\ ~there
        BY <1>0, <2>3, <2>7, <3>1, <3>2
      <4> QED BY <2>3, <3>2, <4>1
    <3>3. CASE ~(d = "response" /\ t = e.target)
      BY <2>3, <3>1, <3>3 DEF Indices
    <3> QED BY <3>2, <3>3
  <2>10. CASE e \notin pending["response"]
    <3>1. ~there /\ Await(kind, t)
      BY <2>3, <2>10 DEF Return
    <3>2. kind = "response" /\ e.target = t
      <4>1. PICK at \in Nat :
              LET new == [target |-> t, ask |-> asked + 1, at |-> at] IN
                /\ pending'[kind] = {x \in pending[kind] : x.target # t} \cup {new}
                /\ \A k \in Kinds \ {kind} : pending'[k] = pending[k]
        BY <2>4, <3>1, AwaitTypes
      <4> QED BY <1>0, <2>10, <4>1
    <3>3. indices'["response"][t] = i /\ i = Len(incoming)
      BY <1>0, <2>3, <2>5, <2>6, <3>1, <3>2
    <3> QED BY <2>3, <3>2, <3>3
  <2> QED BY <2>9, <2>10
<1>3. CASE \E kind \in {"edit", "read"} : \E t \in outgoing : Ask(kind, t)
  <2>1. PICK kind \in {"edit", "read"} : \E t \in outgoing : Ask(kind, t)
    BY <1>3
  <2>2. PICK t \in outgoing : Ask(kind, t)
    BY <2>1
  <2>3. kind \in Kinds \ {"response"} /\ Asking(kind, t)
    BY <2>2, AskSteps DEF Kinds
  <2>4. indices' = indices /\ incoming' = incoming
    BY <2>2, <2>3 DEF Ask, GetEdit, WaitRead, Asking, Indices
  <2>5. ~stale /\ e \in pending["response"]
    <3>1. CASE Await(kind, t)
      <4>1. \A k \in Kinds \ {kind} : pending'[k] = pending[k]
        BY <2>3, <3>1, AwaitTypes
      <4> QED BY <1>0, <2>3, <3>1, <4>1 DEF Await
    <3>2. CASE UNCHANGED <<pending, stale>>
      BY <3>2
    <3> QED BY <2>2, <2>3, <3>1, <3>2, AskSteps
  <2> QED BY <1>1, <2>4, <2>5
<1>4. ASSUME NEW m \in Messages, Record(m) PROVE FALSE
  <2>1. ~stale /\ pending' = [pending EXCEPT !["response"] = @ \ Served(pending["response"]),
                                           !["reply"] = @ \ Served(Second(m))]
    BY <1>4, RecordFacts
  <2>2. Stuck(pending["response"]) = {}
    BY <1>0, <2>1 DEF Alive, Stuck
  <2>3. Served(pending["response"]) = pending["response"]
    BY <2>2 DEF Served
  <2>4. pending'["response"] = pending["response"] \ Served(pending["response"])
    BY <2>1 DEF TypeInv, Shape, Kinds
  <2> QED BY <2>3, <2>4
<1>5. ASSUME UNCHANGED <<incoming, indices>> \/ (Len(incoming') = Len(incoming) /\ indices' = indices),
             ~stale, e \in pending["response"]
      PROVE  indices'["response"][e.target] = Len(incoming')
  BY <1>1, <1>5
<1>6. CASE Serve
  <2>1. ASSUME NEW o \in Theirs, NEW d \in {date, date + 1}, Edit(o, d)
        PROVE  Len(incoming') = Len(incoming) /\ indices' = indices
    BY <2>1, EditFacts, ReplacedFacts
  <2>2. ~stale /\ e \in pending["response"]
    BY <1>0, <1>6, ServeSteps DEF Serving
  <2> QED BY <1>4, <1>5, <1>6, <2>1, <2>2 DEF Serve, Read
<1>7. CASE CancelAll /\ UNCHANGED <<memory, pending, calls, lost, outgoing>>
  BY <1>0, <1>5, <1>7 DEF CancelAll, memory
<1>8. CASE Overflow /\ UNCHANGED <<calls, outgoing>>
  BY <1>0, <1>5, <1>8 DEF Overflow, memory
<1>9. CASE \E a \in Asks : Timeout(a)
  BY <1>9 DEF Timeout
<1>10. CASE UNCHANGED <<cancelled, memory, pending, calls, fut, got, count, lost, stale>>
  BY <1>5, <1>10 DEF memory
<1>11. (\E kind \in Kinds : \E t \in outgoing : Ask(kind, t)) =>
         \/ \E kind \in Indices : \E t \in outgoing : GetMessage(kind, t)
         \/ \E kind \in {"edit", "read"} : \E t \in outgoing : Ask(kind, t)
  BY DEF Ask, Kinds, Indices
<1>12. CASE Enter
  BY <1>0, <1>12 DEF Enter
<1> QED BY <1>2, <1>3, <1>6, <1>7, <1>8, <1>9, <1>10, <1>11, <1>12, Steps

(* Nobody waits for a response that is there, unless a future ended and    *)
(* stayed in its dictionary: Prompt.                                       *)
THEOREM AlwaysPrompt == Spec => []Prompt
<1>1. Init => Alive /\ Prompt
  BY DEF Init, Alive, Prompt, Kinds
<1> QED BY <1>1, AliveStep, PromptStep, AlwaysTypeInv, PTL DEF Spec

-----------------------------------------------------------------------------
(* No answer is given twice                                                *)

(* The messages are in the order of their ids. *)
OrderedIn ==
  /\ \A i \in 1..Len(incoming) : incoming[i].id <= top /\ incoming[i].edit <= count["edit"]
  /\ \A i, j \in 1..Len(incoming) : i < j => incoming[i].id < incoming[j].id

(* A message that answered is at or before the position of the target; an  *)
(* edit that answered is not after its date. *)
Placed(a) ==
  ask[a].kind \in Indices => \E p \in 1..Len(incoming) :
    /\ p <= indices[Dictionary(ask[a].kind)][ask[a].target]
    /\ got[a].id = incoming[p].id

Dated(a) ==
  ask[a].kind = "edit" => /\ Stamp(got[a].date) <= editDates[ask[a].target]
                          /\ got[a].edit <= count["edit"]

(* Those of an earlier time in the conversation cannot be asked for again. *)
AnswersPlaced ==
  \A a \in Asks : fut[a] = "done" /\ ask[a].kind # "read" /\ ask[a].target \in outgoing =>
    ask[a].target \in Ids /\ Placed(a) /\ Dated(a)

(* Positions, dates and messages stay or grow. *)
Grown ==
  /\ \A k \in Indices : \A t \in Ids : indices[k][t] <= indices'[k][t]
  /\ Len(incoming) <= Len(incoming')
  /\ \A p \in 1..Len(incoming) : incoming'[p].id = incoming[p].id
  /\ \A t \in Ids : editDates[t] <= editDates'[t]
  /\ count["edit"] <= count'["edit"]
  /\ top <= top'

LEMMA Numbered ==
  ASSUME TypeInv
  PROVE  /\ \A k \in Indices : \A t \in Ids : indices[k][t] \in Int
         /\ Len(incoming) \in Nat
         /\ \A p \in 1..Len(incoming) :
              /\ incoming[p] \in Messages
              /\ incoming[p].id \in Nat /\ incoming[p].date \in Nat /\ incoming[p].edit \in Nat
         /\ \A t \in Ids : editDates[t] \in Nat
         /\ count["edit"] \in Nat
         /\ top \in Nat
         /\ DOMAIN incoming = 1..Len(incoming)
<1>1. incoming \in Seq(Messages) /\ indices \in [Indices -> [Ids -> Int]] /\ count \in [DOMAIN Bound -> Nat]
  BY DEF TypeInv, Shape
<1>2. editDates \in [Ids -> Nat] /\ top \in 0..MaxTop /\ MaxTop \in Nat
  BY ConversationAssumption DEF ConversationAssumption, TypeInv, TypeOK
<1>3. "edit" \in DOMAIN Bound
  BY DEF Bound
<1>4. \A p \in 1..Len(incoming) : incoming[p] \in Messages
  BY <1>1
<1>5. \A m \in Messages : m.id \in Nat /\ m.date \in Nat /\ m.edit \in Nat
  BY DEF Messages
<1> QED BY <1>1, <1>2, <1>3, <1>4, <1>5

LEMMA GrownUnchanged ==
  ASSUME TypeInv, UNCHANGED <<indices, incoming, editDates>>,
         count["edit"] <= count'["edit"], top <= top'
  PROVE  Grown
<1>1. /\ \A k \in Indices : \A t \in Ids : indices[k][t] <= indices[k][t]
      /\ Len(incoming) <= Len(incoming)
      /\ \A t \in Ids : editDates[t] <= editDates[t]
  BY Numbered
<1>2. indices' = indices /\ incoming' = incoming /\ editDates' = editDates
  OBVIOUS
<1> QED BY <1>1, <1>2 DEF Grown

LEMMA GrowsAsk ==
  ASSUME TypeInv, NEW kind \in Kinds, NEW t \in outgoing, Ask(kind, t)
  PROVE  Grown /\ incoming' = incoming /\ top' = top /\ count' = count
<1>0. Asking(kind, t) /\ t \in Ids
  BY AskSteps, TargetIds
<1>1. incoming' = incoming /\ top' = top /\ count' = count
  BY <1>0 DEF Asking, chat
<1>2. count["edit"] <= count'["edit"] /\ top <= top' /\ Len(incoming) <= Len(incoming')
  BY <1>1, Numbered
<1>3. CASE kind \in Indices /\ GetMessage(kind, t)
  <2>1. editDates' = editDates
    BY <1>3 DEF GetMessage
  <2>2. \A k \in Indices : \A u \in Ids : indices[k][u] <= indices'[k][u]
    <3> DEFINE i == Index(kind, t)
               there == i < Len(incoming) /\ Responds(kind, incoming[i + 1], t)
               d == Dictionary(kind)
    <3>1. /\ t \in Ids /\ d \in Indices /\ i \in 0..Len(incoming)
          /\ indices[d][t] \in -1..Len(incoming) /\ (indices[d][t] # -1 => i = indices[d][t])
          /\ indices'[d][t] = IF there THEN i + 1 ELSE i
          /\ \A k \in Indices : \A u \in Ids : k # d \/ u # t => indices'[k][u] = indices[k][u]
      BY <1>3, AskIndices
    <3> HIDE DEF i, there, d
    <3>2. Len(incoming) \in Nat
      BY Numbered
    <3>3. indices[d][t] <= i
      BY <3>1, <3>2
    <3>4. indices[d][t] <= indices'[d][t]
      BY <3>1, <3>2, <3>3
    <3> TAKE k \in Indices
    <3> TAKE u \in Ids
    <3>5. CASE k = d /\ u = t
      BY <3>4, <3>5
    <3>6. CASE ~(k = d /\ u = t)
      BY <3>1, <3>6, Numbered
    <3> QED BY <3>5, <3>6
  <2>3. \A u \in Ids : editDates[u] <= editDates'[u]
    BY <2>1, Numbered
  <2> QED BY <1>1, <1>2, <2>2, <2>3 DEF Grown
<1>4. CASE kind = "edit" /\ GetEdit(t)
  <2>1. indices' = indices
    BY <1>4 DEF GetEdit
  <2>2. \A u \in Ids : editDates[u] <= editDates'[u]
    <3>1. CASE Edited(t) = {}
      BY <1>4, <3>1, Numbered DEF GetEdit
    <3>2. CASE Edited(t) # {}
      <4>1. PICK i \in Edited(t) : editDates' = [editDates EXCEPT ![t] = Stamp(incoming[i].date)]
        BY <1>4, <3>2, TargetIds, EditAnswers DEF GetEdit
      <4>2. i \in 1..Len(incoming) /\ Stamp(incoming[i].date) > editDates[t]
        BY Numbered DEF Edited
      <4>3. Stamp(incoming[i].date) \in Nat
        BY <4>2, Numbered, StampNat
      <4>4. editDates \in [Ids -> Nat]
        BY DEF TypeInv, TypeOK
      <4> QED BY <1>0, <4>1, <4>2, <4>3, <4>4
    <3> QED BY <3>1, <3>2
  <2> QED BY <1>1, <1>2, <2>1, <2>2, Numbered DEF Grown
<1>5. CASE kind = "read" /\ WaitRead(t)
  <2>1. UNCHANGED <<indices, editDates>>
    BY <1>5 DEF WaitRead
  <2> QED BY <1>1, <1>2, <2>1, GrownUnchanged
<1> QED BY <1>1, <1>3, <1>4, <1>5 DEF Ask

LEMMA GrowsRecord ==
  ASSUME TypeInv, NEW m \in Messages, Record(m), top <= top', count' = count
  PROVE  Grown
<1>1. incoming' = Append(incoming, m) /\ editDates' = editDates /\ incoming \in Seq(Messages)
  BY RecordFacts DEF TypeInv, Shape
<1>2. Len(incoming) <= Len(incoming') /\ \A p \in 1..Len(incoming) : incoming'[p] = incoming[p]
  BY <1>1
<1>3. \A k \in Indices : \A t \in Ids : indices[k][t] <= indices'[k][t]
  <2> TAKE k \in Indices
  <2> TAKE t \in Ids
  <2>1. indices[k][t] \in -1..Len(incoming) /\ Len(incoming) \in Nat
    BY Numbered, Recomposed DEF Places
  <2>2. indices'[k][t] \in {indices[k][t], Len(incoming) + 1}
    BY RecordIndices
  <2> QED BY <2>1, <2>2
<1>4. (\A t \in Ids : editDates[t] <= editDates'[t]) /\ count["edit"] <= count'["edit"]
  BY <1>1, Numbered
<1> QED BY <1>2, <1>3, <1>4 DEF Grown

LEMMA GrowsEdit ==
  ASSUME TypeInv, NEW o \in Theirs, NEW d \in {date, date + 1}, Edit(o, d)
  PROVE  Grown
<1>1. /\ indices' = indices /\ top' = top
      /\ count'["edit"] = count["edit"] + 1 /\ editDates' \in [Ids -> Nat]
      /\ \A t \in Ids : editDates'[t] >= editDates[t]
  BY EditFacts
<1>2. Len(incoming') = Len(incoming) /\ \A p \in 1..Len(incoming) : incoming'[p].id = incoming[p].id
  BY ReplacedFacts
<1>3. (\A k \in Indices : \A t \in Ids : indices[k][t] <= indices'[k][t]) /\ top <= top'
      /\ count["edit"] <= count'["edit"] /\ Len(incoming) <= Len(incoming')
  BY <1>1, <1>2, Numbered
<1>4. \A t \in Ids : editDates[t] <= editDates'[t]
  BY <1>1, Numbered
<1> QED BY <1>2, <1>3, <1>4 DEF Grown

(* A call that was answered before stays so; one that is answered in this  *)
(* step is answered with something new. *)
Kept(a) == fut[a] = "done" /\ got'[a] = got[a] /\ ask'[a] = ask[a]

New(a) ==
  \/ ask'[a].kind = "read"
  \/ /\ ask'[a].target \in Ids /\ Placed(a)' /\ Dated(a)'
     /\ \A b \in Asks : b # a /\ fut'[b] = "done" /\ ask'[b] = ask'[a] => got'[b] # got'[a]

LEMMA PlacedKept ==
  ASSUME TypeInv, TypeInv', AnswersPlaced, Grown, NEW a \in Asks, Kept(a), ask[a].kind # "read",
         ask[a].target \in outgoing
  PROVE  ask'[a].target \in Ids /\ Placed(a)' /\ Dated(a)'
<1>1. /\ fut[a] = "done" /\ got'[a] = got[a] /\ ask'[a] = ask[a]
      /\ ask[a].target \in Ids /\ Placed(a) /\ Dated(a)
  BY DEF Kept, AnswersPlaced
<1> DEFINE t == ask[a].target
           k == Dictionary(ask[a].kind)
<1>2. Placed(a)'
  <2> SUFFICES ASSUME ask'[a].kind \in Indices
               PROVE  \E p \in 1..Len(incoming') :
                        /\ p <= indices'[Dictionary(ask'[a].kind)][ask'[a].target]
                        /\ got'[a].id = incoming'[p].id
    BY DEF Placed
  <2>1. PICK p \in 1..Len(incoming) : p <= indices[k][t] /\ got[a].id = incoming[p].id
    BY <1>1 DEF Placed
  <2>2. k \in Indices
    BY <1>1 DEF Dictionary, Indices
  <2>3. Dictionary(ask'[a].kind) = k /\ ask'[a].target = t
    BY <1>1
  <2> HIDE DEF k, t
  <2>4. indices[k][t] \in Int /\ indices'[k][t] \in Int /\ Len(incoming) \in Nat /\ Len(incoming') \in Nat
    <3>1. indices \in [Indices -> [Ids -> Int]] /\ indices' \in [Indices -> [Ids -> Int]]
      BY DEF TypeInv, Shape
    <3>2. incoming \in Seq(Messages) /\ incoming' \in Seq(Messages)
      BY DEF TypeInv, Shape
    <3> QED BY <1>1, <2>2, <3>1, <3>2 DEF t
  <2>5. indices[k][t] <= indices'[k][t] /\ Len(incoming) <= Len(incoming') /\ incoming'[p].id = incoming[p].id
    BY <1>1, <2>2 DEF Grown, t
  <2>6. p \in 1..Len(incoming') /\ p <= indices'[k][t]
    BY <2>1, <2>4, <2>5
  <2> QED BY <1>1, <2>1, <2>3, <2>5, <2>6
<1>3. Dated(a)'
  <2> SUFFICES ASSUME ask'[a].kind = "edit"
               PROVE  /\ Stamp(got'[a].date) <= editDates'[ask'[a].target]
                      /\ got'[a].edit <= count'["edit"]
    BY DEF Dated
  <2>1. Stamp(got[a].date) <= editDates[t] /\ got[a].edit <= count["edit"]
    BY <1>1 DEF Dated
  <2>2. got[a].date \in Nat /\ got[a].edit \in Nat
    BY DEF TypeInv, Shape, Messages
  <2>3. Stamp(got[a].date) \in Nat /\ editDates[t] \in Nat /\ editDates'[t] \in Nat
    BY <1>1, <2>2, StampNat DEF TypeInv, TypeOK
  <2>4. count["edit"] \in Nat /\ count'["edit"] \in Nat
    BY DEF TypeInv, Shape, Bound
  <2>5. editDates[t] <= editDates'[t] /\ count["edit"] <= count'["edit"]
    BY <1>1 DEF Grown
  <2> QED BY <1>1, <2>1, <2>2, <2>3, <2>4, <2>5
<1> QED BY <1>1, <1>2, <1>3

(* The message whose sending returns was not asked about yet. *)
LEMMA NotAskedYet ==
  ASSUME TypeInv, NEW a \in Asks, fut[a] = "done"
  PROVE  a \in 1..asked /\ ask[a].target # sending
<1>1. ~(a > asked) /\ asked \in Nat
  BY PartsOfTypes DEF Futures, Known
<1>2. a \in 1..asked
  BY <1>1 DEF Asks
<1> QED BY <1>2 DEF TypeInv, Owned, Targeted

LEMMA OnceFrom ==
  ASSUME TypeInv, TypeInv', AnswersPlaced, Once, Grown, outgoing' \subseteq outgoing \cup {sending},
         \A a \in Asks : fut'[a] = "done" => Kept(a) \/ New(a)
  PROVE  AnswersPlaced' /\ Once'
<1>1. AnswersPlaced'
  <2> SUFFICES ASSUME NEW a \in Asks, fut'[a] = "done", ask'[a].kind # "read",
                      ask'[a].target \in outgoing'
               PROVE  ask'[a].target \in Ids /\ Placed(a)' /\ Dated(a)'
    BY DEF AnswersPlaced
  <2>1. CASE Kept(a)
    <3>1. ask[a].target # sending /\ ask'[a] = ask[a]
      BY <2>1, NotAskedYet DEF Kept
    <3>2. ask[a].target \in outgoing
      BY <3>1
    <3> QED BY <2>1, <3>1, <3>2, PlacedKept
  <2>2. CASE New(a)
    BY <2>2 DEF New
  <2> QED BY <2>1, <2>2
<1>2. Once'
  <2> SUFFICES ASSUME NEW a \in Asks, NEW b \in Asks, a # b, ask'[a] = ask'[b],
                      fut'[a] = "done", fut'[b] = "done", ask'[a].kind # "read"
               PROVE  got'[a] # got'[b]
    BY DEF Once, Like
  <2>1. CASE Kept(a) /\ Kept(b)
    BY <2>1 DEF Kept, Once, Like
  <2>2. CASE New(a)
    BY <2>2 DEF New
  <2>3. CASE New(b)
    BY <2>3 DEF New
  <2> QED BY <2>1, <2>2, <2>3
<1> QED BY <1>1, <1>2

(* Steps that answer nobody. *)
LEMMA Unanswered ==
  ASSUME TypeInv, [Next]_vars,
         \/ CancelAll /\ UNCHANGED <<memory, pending, calls, lost, outgoing>> /\ got' = got
         \/ Overflow /\ UNCHANGED <<calls, outgoing>>
         \/ \E a \in Asks : Timeout(a)
         \/ UNCHANGED <<cancelled, memory, pending, calls, fut, got, count, lost, stale>>
  PROVE  \A a \in Asks : fut'[a] = "done" => Kept(a)
<1> SUFFICES ASSUME NEW a \in Asks, fut'[a] = "done" PROVE Kept(a)
  OBVIOUS
<1>0. fut \in [Asks -> Outcomes]
  BY Recomposed DEF Futures, Known
<1>1. CASE CancelAll /\ UNCHANGED <<memory, pending, calls, lost, outgoing>> /\ got' = got
  BY <1>1 DEF CancelAll, Kept, calls
<1>2. CASE Overflow /\ UNCHANGED <<calls, outgoing>>
  <2>1. fut' = Tell(AsksOf(Served(Cancellable)), "error") /\ got' = got /\ ask' = ask
    BY <1>2 DEF Overflow, calls
  <2>2. fut'[a] = "done" => fut[a] = "done"
    BY <2>1 DEF Tell, Settled
  <2> QED BY <2>1, <2>2 DEF Kept
<1>3. CASE \E b \in Asks : Timeout(b)
  BY <1>0, <1>3 DEF Timeout, Kept, calls
<1>4. CASE UNCHANGED <<cancelled, memory, pending, calls, fut, got, count, lost, stale>>
  BY <1>4 DEF Kept, calls
<1> QED BY <1>1, <1>2, <1>3, <1>4

(* Other calls than the one that is made keep their answers. *)
LEMMA KeptAsking ==
  ASSUME TypeInv, NEW kind \in Kinds, NEW t \in outgoing, Ask(kind, t),
         NEW a \in Asks, a # asked + 1, fut'[a] = "done"
  PROVE  Kept(a)
<1>1. Asking(kind, t) /\ asked + 1 \in Asks
  BY AskSteps, AskingNumbers
<1>2. ask' = [ask EXCEPT ![asked + 1] = [kind |-> kind, target |-> t]]
  BY <1>1 DEF Asking
<1>3. fut \in [Asks -> Outcomes] /\ ask \in [Asks -> Requests] /\ got \in [Asks -> Messages]
  BY Recomposed DEF Futures, Known, Dictionaries, Memory
<1>4. ask'[a] = ask[a]
  BY <1>1, <1>2, <1>3
<1>5. CASE Await(kind, t)
  BY <1>1, <1>3, <1>4, <1>5 DEF Await, Kept
<1>6. ASSUME NEW m, Return(m) PROVE Kept(a)
  BY <1>1, <1>3, <1>4, <1>6 DEF Return, Kept
<1>7. CASE kind = "read" /\ WaitRead(t)
  BY <1>1, <1>3, <1>4, <1>5, <1>7 DEF WaitRead, Kept
<1>8. CASE kind \in Indices /\ GetMessage(kind, t)
  BY <1>5, <1>6, <1>8 DEF GetMessage
<1>9. CASE kind = "edit" /\ GetEdit(t)
  BY <1>5, <1>6, <1>9 DEF GetEdit
<1> QED BY <1>7, <1>8, <1>9 DEF Ask

LEMMA NewMessage ==
  ASSUME TypeInv, OrderedIn, AnswersPlaced, NEW kind \in Indices, NEW t \in outgoing,
         GetMessage(kind, t), NEW a \in Asks, a = asked + 1, fut'[a] = "done"
  PROVE  New(a)
<1> DEFINE i == Index(kind, t)
           there == i < Len(incoming) /\ Responds(kind, incoming[i + 1], t)
           d == Dictionary(kind)
<1>1. /\ t \in Ids /\ d \in Indices /\ i \in 0..Len(incoming)
      /\ indices[d][t] \in -1..Len(incoming) /\ (indices[d][t] # -1 => i = indices[d][t])
      /\ indices'[d][t] = IF there THEN i + 1 ELSE i
      /\ \A k \in Indices : \A u \in Ids : k # d \/ u # t => indices'[k][u] = indices[k][u]
      /\ IF there THEN Return(incoming[i + 1]) ELSE Await(kind, t)
      /\ incoming' = incoming
  BY AskIndices
<1>2. kind \in Kinds /\ Ask(kind, t) /\ Asking(kind, t)
  BY DEF Indices, Kinds, Ask, GetMessage
<1>3. a \in Asks /\ ask' = [ask EXCEPT ![a] = [kind |-> kind, target |-> t]]
  BY <1>2, AskingNumbers DEF Asking
<1>4. fut \in [Asks -> Outcomes] /\ ask \in [Asks -> Requests] /\ got \in [Asks -> Messages]
  BY Recomposed DEF Futures, Known, Dictionaries, Memory
<1>5. ask'[a].kind = kind /\ ask'[a].target = t
  BY <1>3, <1>4
<1>6. there => i < Len(incoming)
  OBVIOUS
<1> HIDE DEF i, there
<1>7. there
  BY <1>1, <1>3, <1>4 DEF Await
<1>8. got'[a] = incoming[i + 1]
  BY <1>1, <1>3, <1>4, <1>7 DEF Return
<1>9. i + 1 \in 1..Len(incoming) /\ Len(incoming) \in Nat /\ i \in Nat
  BY <1>1, <1>6, <1>7, Numbered
<1>10. indices'[d][t] = i + 1
  BY <1>1, <1>7
<1>11. Placed(a)' /\ Dated(a)'
  <2>1. Placed(a)'
    <3>1. i + 1 \in 1..Len(incoming') /\ i + 1 <= indices'[d][t] /\ got'[a].id = incoming'[i + 1].id
      BY <1>1, <1>8, <1>9, <1>10
    <3>2. Dictionary(ask'[a].kind) = d /\ ask'[a].target = t
      BY <1>5
    <3> HIDE DEF d
    <3>3. \E p \in 1..Len(incoming') : p <= indices'[d][t] /\ got'[a].id = incoming'[p].id
      BY <3>1
    <3> QED BY <3>2, <3>3 DEF Placed
  <2>2. Dated(a)'
    BY <1>5 DEF Dated, Indices
  <2> QED BY <2>1, <2>2
<1>12. ASSUME NEW b \in Asks, b # a, fut'[b] = "done", ask'[b] = ask'[a]
       PROVE  got'[b] # got'[a]
  <2>1. Kept(b)
    BY <1>2, <1>12, KeptAsking
  <2>2. fut[b] = "done" /\ ask[b].kind = kind /\ ask[b].target = t /\ got'[b] = got[b]
    BY <1>5, <1>12, <2>1 DEF Kept
  <2>3. kind # "read"
    BY DEF Indices
  <2>4. Placed(b)
    BY <2>2, <2>3 DEF AnswersPlaced
  <2>5. PICK p \in 1..Len(incoming) : p <= indices[d][t] /\ got[b].id = incoming[p].id
    BY <2>2, <2>4 DEF Placed
  <2>6. p < i + 1
    BY <1>1, <1>9, <2>5
  <2>7. incoming[p].id < incoming[i + 1].id /\ incoming[p].id \in Nat /\ incoming[i + 1].id \in Nat
    BY <1>9, <2>6, Numbered DEF OrderedIn
  <2>8. incoming[p].id # incoming[i + 1].id
    BY <2>7
  <2> QED BY <1>8, <2>2, <2>5, <2>8
<1> QED BY <1>1, <1>5, <1>11, <1>12 DEF New

LEMMA NewEdit ==
  ASSUME TypeInv, OrderedIn, AnswersPlaced, NEW t \in outgoing,
         GetEdit(t), NEW a \in Asks, a = asked + 1, fut'[a] = "done"
  PROVE  New(a)
<1>1. "edit" \in Kinds /\ Ask("edit", t) /\ Asking("edit", t) /\ t \in Ids /\ t \in Nat
  BY TargetIds DEF Kinds, Ask, GetEdit
<1>2. a \in Asks /\ ask' = [ask EXCEPT ![a] = [kind |-> "edit", target |-> t]] /\ count' = count
  BY <1>1, AskingNumbers DEF Asking
<1>3. /\ fut \in [Asks -> Outcomes] /\ ask \in [Asks -> Requests] /\ got \in [Asks -> Messages]
      /\ editDates \in [Ids -> Nat]
  BY Recomposed DEF Futures, Known, Dictionaries, Memory
<1>4. ask'[a].kind = "edit" /\ ask'[a].target = t
  BY <1>2, <1>3
<1>5. Edited(t) # {}
  BY <1>2, <1>3 DEF GetEdit, Await
<1>6. PICK i \in Edited(t) : Return(incoming[i]) /\ editDates' = [editDates EXCEPT ![t] = Stamp(incoming[i].date)]
  BY <1>1, <1>5, EditAnswers DEF GetEdit
<1>7. got'[a] = incoming[i] /\ editDates'[t] = Stamp(incoming[i].date)
  BY <1>1, <1>2, <1>3, <1>6 DEF Return
<1>8. i \in 1..Len(incoming) /\ Stamp(incoming[i].date) > editDates[t]
  BY Numbered DEF Edited
<1>9. Stamp(incoming[i].date) \in Nat /\ editDates[t] \in Nat
  BY <1>1, <1>3, <1>8, Numbered, StampNat
<1>10. Placed(a)' /\ Dated(a)'
  <2>1. incoming[i].edit <= count["edit"]
    BY <1>8 DEF OrderedIn
  <2>2. Stamp(got'[a].date) <= editDates'[t]
    BY <1>7, <1>9
  <2> QED BY <1>2, <1>4, <1>7, <2>1, <2>2 DEF Placed, Dated, Indices
<1>11. ASSUME NEW b \in Asks, b # a, fut'[b] = "done", ask'[b] = ask'[a]
       PROVE  got'[b] # got'[a]
  <2>1. Kept(b)
    BY <1>1, <1>11, KeptAsking
  <2>2. fut[b] = "done" /\ ask[b].kind = "edit" /\ ask[b].target = t /\ got'[b] = got[b]
    BY <1>4, <1>11, <2>1 DEF Kept
  <2>3. Dated(b)
    BY <2>2 DEF AnswersPlaced
  <2>4. Stamp(got[b].date) <= editDates[t]
    BY <2>2, <2>3 DEF Dated
  <2>5. Stamp(got[b].date) \in Nat
    BY <1>3, StampNat DEF Messages
  <2>6. Stamp(got[b].date) # Stamp(incoming[i].date)
    BY <1>8, <1>9, <2>4, <2>5
  <2> QED BY <1>7, <2>2, <2>6
<1> QED BY <1>1, <1>4, <1>10, <1>11 DEF New

(* What Tell and Give do together. *)
LEMMA Given ==
  ASSUME TypeInv, NEW asks, \A a \in asks : a \in Asks /\ fut[a] # "none",
         fut' = Tell(asks, "done"), ask' = ask, NEW m, got' = Give(asks, m),
         NEW a \in Asks, fut'[a] = "done"
  PROVE  \/ Kept(a)
         \/ a \in asks /\ fut[a] = "waiting" /\ got'[a] = m /\ ask'[a] = ask[a]
<1>1. CASE a \in asks
  <2>1. fut[a] = "waiting"
    BY <1>1 DEF Tell, Settled
  <2> QED BY <1>1, <2>1 DEF Give
<1>2. CASE a \notin asks
  BY <1>2 DEF Tell, Give, Kept
<1> QED BY <1>1, <1>2

LEMMA NewRecorded ==
  ASSUME TypeInv, OrderedIn, AnswersPlaced, NEW m \in Messages, m.id = top + 1, Record(m),
         calls' = calls, NEW a \in Asks, fut'[a] = "done"
  PROVE  Kept(a) \/ New(a)
<1> DEFINE n == Len(incoming) + 1
<1>1. /\ incoming' = Append(incoming, m) /\ Len(incoming') = n
      /\ fut' = Tell(ServedBy(m), "done") /\ got' = Give(ServedBy(m), m)
  BY RecordFacts
<1>2. ask' = ask /\ \A b \in ServedBy(m) : b \in Asks /\ fut[b] # "none"
  BY RecordServes DEF calls
<1>3. n \in 1..Len(incoming') /\ incoming'[n] = m
  BY <1>1 DEF TypeInv, Shape
<1>4. \A b \in Asks : fut'[b] = "done" =>
        Kept(b) \/ (b \in ServedBy(m) /\ fut[b] = "waiting" /\ got'[b] = m /\ ask'[b] = ask[b])
  BY <1>1, <1>2, Given
<1> SUFFICES ASSUME a \in ServedBy(m), got'[a] = m PROVE New(a)
  BY <1>4
<1>5. PICK k \in Indices : \E e \in pending[k] :
        /\ a = e.ask
        /\ \/ k = "response" /\ e \in Touched(pending["response"])
           \/ k = "reply" /\ e \in Touched(Second(m))
  <2>1. "response" \in Kinds /\ "reply" \in Kinds /\ Second(m) \subseteq pending["reply"]
    BY RecordServes DEF Kinds
  <2>2. /\ Served(pending["response"]) \subseteq Touched(pending["response"])
        /\ Served(Second(m)) \subseteq Touched(Second(m))
    BY <2>1, ServedAsks
  <2>3. \/ \E e \in Served(pending["response"]) : e \in pending["response"] /\ a = e.ask
        \/ \E e \in Served(Second(m)) : e \in pending["reply"] /\ a = e.ask
    BY RecordServes
  <2> QED BY <2>2, <2>3 DEF Indices
<1>6. PICK e \in pending[k] :
        /\ a = e.ask
        /\ \/ k = "response" /\ e \in Touched(pending["response"])
           \/ k = "reply" /\ e \in Touched(Second(m))
  BY <1>5
<1>7. k \in Kinds
  BY DEF Indices, Kinds
<1>8. /\ e.target \in Ids /\ ask[a].kind = k /\ ask[a].target = e.target
      /\ e.target \in outgoing
  <2>1. k # "read"
    BY DEF Indices
  <2> QED BY <1>6, <1>7, <2>1, EntryTypes
<1>9. indices'[Dictionary(k)][e.target] = n
  <2>1. k = "response" => Dictionary(k) = "response"
    BY DEF Dictionary
  <2> QED BY <1>6, <1>8, <2>1, RecordIndices
<1>10. Placed(a)'
  <2>1. n <= n /\ got'[a].id = incoming'[n].id
    BY <1>3, Numbered
  <2> HIDE DEF n
  <2> QED BY <1>2, <1>3, <1>8, <1>9, <2>1 DEF Placed
<1>11. Dated(a)'
  BY <1>2, <1>8 DEF Dated, Indices
<1>12. ASSUME NEW b \in Asks, b # a, fut'[b] = "done", ask'[b] = ask'[a]
       PROVE  got'[b] # got'[a]
  <2>1. ask[b].kind = k /\ k # "read" /\ ask[b] = ask[a]
    BY <1>2, <1>8, <1>12 DEF Indices
  <2>2. CASE Kept(b)
    <3>1. fut[b] = "done" /\ got'[b] = got[b]
      BY <2>2 DEF Kept
    <3>2. Placed(b)
      BY <1>8, <2>1, <3>1 DEF AnswersPlaced
    <3>3. PICK p \in 1..Len(incoming) : got[b].id = incoming[p].id
      BY <2>1, <3>2 DEF Placed
    <3>4. incoming[p].id <= top /\ top \in Nat /\ incoming[p].id \in Nat
      BY Numbered DEF OrderedIn
    <3>5. got[b].id # m.id
      BY <3>3, <3>4
    <3> QED BY <3>1, <3>5
  <2>3. CASE b \in ServedBy(m)
    <3>1. PICK l \in Kinds : \E f \in pending[l] : b = f.ask
      BY <2>3, RecordServes DEF Kinds
    <3>2. PICK f \in pending[l] : b = f.ask
      BY <3>1
    <3>3. ask[b].kind = l /\ ask[b].target = f.target
      BY <3>2, EntryTypes
    <3>4. l = k /\ f.target = e.target
      BY <1>8, <2>1, <3>3
    <3>5. f = e
      BY <1>7, <3>4 DEF TypeInv, TypeOK
    <3> QED BY <1>6, <1>12, <3>2, <3>5
  <2> QED BY <1>4, <1>12, <2>2, <2>3
<1> QED BY <1>2, <1>8, <1>10, <1>11, <1>12 DEF New

LEMMA NewEdited ==
  ASSUME TypeInv, AnswersPlaced, NEW o \in Theirs, NEW d \in {date, date + 1}, Edit(o, d),
         NEW a \in Asks, fut'[a] = "done"
  PROVE  Kept(a) \/ New(a)
<1> DEFINE m == Edition(o, d)
           es == Waiting(o)
<1>1. /\ m \in Messages /\ m.date = d /\ m.edit = count["edit"] + 1 /\ Stamp(d) \in Nat
      /\ fut' = Tell(AsksOf(Served(es)), "done") /\ got' = Give(AsksOf(Served(es)), m)
      /\ count'["edit"] = count["edit"] + 1 /\ editDates' \in [Ids -> Nat]
      /\ \A e \in Touched(es) : e.target \in Ids => editDates'[e.target] >= Stamp(d)
      /\ ask' = ask
  BY EditFacts DEF calls
<1>2. es \subseteq pending["edit"] /\ "edit" \in Kinds
  BY DEF Waiting, Kinds
<1> HIDE DEF m, es
<1>3. /\ Served(es) \subseteq Touched(es)
      /\ \A b \in AsksOf(Served(es)) : b \in Asks /\ fut[b] # "none"
      /\ \A b \in AsksOf(Served(es)) : \E e \in Served(es) : e \in pending["edit"] /\ b = e.ask
  BY <1>2, ServedAsks
<1>4. \A b \in Asks : fut'[b] = "done" =>
        Kept(b) \/ (b \in AsksOf(Served(es)) /\ fut[b] = "waiting" /\ got'[b] = m /\ ask'[b] = ask[b])
  <2> DEFINE as == AsksOf(Served(es))
  <2>1. fut' = Tell(as, "done") /\ got' = Give(as, m) /\ \A b \in as : b \in Asks /\ fut[b] # "none"
    BY <1>1, <1>3
  <2> HIDE DEF as
  <2>2. \A b \in Asks : fut'[b] = "done" =>
        Kept(b) \/ (b \in as /\ fut[b] = "waiting" /\ got'[b] = m /\ ask'[b] = ask[b])
    BY <1>1, <2>1, Given
  <2> QED BY <2>2 DEF as
<1> SUFFICES ASSUME a \in AsksOf(Served(es)), got'[a] = m PROVE New(a)
  BY <1>4
<1>5. PICK e \in pending["edit"] : a = e.ask /\ e \in Touched(es)
  BY <1>3
<1>6. /\ e.target \in Ids /\ ask[a].kind = "edit" /\ ask[a].target = e.target
      /\ e.target \in outgoing
  BY <1>2, <1>5, EntryTypes
<1>7. count["edit"] \in Nat /\ editDates'[e.target] \in Nat
  BY <1>1, <1>6, Numbered
<1>8. Placed(a)' /\ Dated(a)'
  <2>1. Stamp(d) <= editDates'[e.target]
    BY <1>1, <1>5, <1>6, <1>7
  <2>2. got'[a].edit <= count'["edit"]
    BY <1>1, <1>7
  <2> QED BY <1>1, <1>6, <2>1, <2>2 DEF Placed, Dated, Indices
<1>9. ASSUME NEW b \in Asks, b # a, fut'[b] = "done", ask'[b] = ask'[a]
      PROVE  got'[b] # got'[a]
  <2>1. ask[b].kind = "edit" /\ ask[b] = ask[a]
    BY <1>1, <1>6, <1>9
  <2>2. CASE Kept(b)
    <3>1. fut[b] = "done" /\ got'[b] = got[b]
      BY <2>2 DEF Kept
    <3>2. Dated(b)
      BY <1>6, <2>1, <3>1 DEF AnswersPlaced
    <3>3. got[b].edit <= count["edit"] /\ got[b].edit \in Nat
      BY <2>1, <3>2 DEF Dated, TypeInv, Shape, Messages
    <3>4. got[b].edit # m.edit
      BY <1>1, <1>7, <3>3
    <3> QED BY <3>1, <3>4
  <2>3. CASE b \in AsksOf(Served(es))
    <3>1. PICK f \in pending["edit"] : b = f.ask
      BY <1>3, <2>3
    <3>2. f.target = e.target
      BY <1>2, <1>6, <2>1, <3>1, EntryTypes
    <3>3. f = e
      BY <1>2, <3>2 DEF TypeInv, TypeOK
    <3> QED BY <1>5, <1>9, <3>1, <3>3
  <2> QED BY <1>4, <1>9, <2>2, <2>3
<1> QED BY <1>1, <1>6, <1>8, <1>9 DEF New

LEMMA NewRead ==
  ASSUME TypeInv, NEW max \in mine, Read(max), NEW a \in Asks, fut'[a] = "done"
  PROVE  Kept(a) \/ New(a)
<1> DEFINE es == {e \in pending["read"] : e.target >= max}
           as == AsksOf(Served(es))
<1>1. fut' = Tell(as, "done") /\ got' = got /\ ask' = ask
  BY DEF Read, calls
<1>2. es \subseteq pending["read"] /\ "read" \in Kinds
  BY DEF Kinds
<1> HIDE DEF es
<1>3. \A b \in as : \E e \in Served(es) : e \in pending["read"] /\ b = e.ask
  BY <1>2, ServedAsks
<1> HIDE DEF as
<1>4. CASE a \in as
  <2>1. PICK e \in pending["read"] : a = e.ask
    BY <1>3, <1>4
  <2>2. ask[a].kind = "read"
    BY <1>2, <2>1, EntryTypes
  <2> QED BY <1>1, <2>2 DEF New
<1>5. CASE a \notin as
  BY <1>1, <1>5 DEF Tell, Kept
<1> QED BY <1>4, <1>5

LEMMA OrderedKept ==
  ASSUME TypeInv, OrderedIn, incoming' = incoming, count'["edit"] = count["edit"], top' \in {top, top + 1}
  PROVE  OrderedIn'
<1>1. \A i \in 1..Len(incoming) : incoming[i].id <= top' /\ incoming[i].edit <= count'["edit"]
  <2> TAKE i \in 1..Len(incoming)
  <2>1. incoming[i].id <= top /\ incoming[i].id \in Nat /\ top \in Nat
    BY Numbered DEF OrderedIn
  <2>2. incoming[i].edit <= count["edit"] /\ incoming[i].edit \in Nat /\ count["edit"] \in Nat
    BY Numbered DEF OrderedIn
  <2> QED BY <2>1, <2>2
<1> QED BY <1>1 DEF OrderedIn

OnceInv == OrderedIn /\ AnswersPlaced /\ Once

(* Everything that answers at most what was answered before. *)
LEMMA OnceQuiet ==
  ASSUME TypeInv, TypeInv', OnceInv, UNCHANGED <<indices, incoming, editDates>>,
         outgoing' \subseteq outgoing \cup {sending},
         count'["edit"] = count["edit"], top' \in {top, top + 1},
         \A a \in Asks : fut'[a] = "done" => Kept(a) \/ New(a)
  PROVE  OnceInv'
<1>1. count["edit"] <= count'["edit"] /\ top <= top'
  BY Numbered
<1>2. Grown
  BY <1>1, GrownUnchanged
<1>3. OrderedIn'
  BY OrderedKept DEF OnceInv
<1> QED BY <1>2, <1>3, OnceFrom DEF OnceInv

LEMMA OnceAsk ==
  ASSUME TypeInv, TypeInv', OnceInv, NEW kind \in Kinds, NEW t \in outgoing, Ask(kind, t)
  PROVE  OnceInv'
<1>1. Grown /\ incoming' = incoming /\ top' = top /\ count' = count /\ outgoing' = outgoing
  BY GrowsAsk, AskSteps, AskingNumbers
<1>2. OrderedIn'
  BY <1>1, OrderedKept DEF OnceInv
<1>3. \A a \in Asks : fut'[a] = "done" => Kept(a) \/ New(a)
  <2> SUFFICES ASSUME NEW a \in Asks, fut'[a] = "done", a = asked + 1 PROVE New(a)
    BY KeptAsking
  <2>1. CASE kind \in Indices /\ GetMessage(kind, t)
    BY <2>1, NewMessage DEF OnceInv
  <2>2. CASE kind = "edit" /\ GetEdit(t)
    BY <2>2, NewEdit DEF OnceInv
  <2>3. CASE kind = "read" /\ WaitRead(t)
    <3>1. Asking(kind, t)
      BY AskSteps
    <3>2. ask' = [ask EXCEPT ![a] = [kind |-> kind, target |-> t]] /\ ask \in [Asks -> Requests]
      BY <3>1 DEF Asking, TypeInv, Shape
    <3>3. ask'[a].kind = "read"
      BY <2>3, <3>2
    <3> QED BY <3>3 DEF New
  <2> QED BY <2>1, <2>2, <2>3 DEF Ask
<1> QED BY <1>1, <1>2, <1>3, OnceFrom DEF OnceInv

LEMMA OnceArrive ==
  ASSUME TypeInv, TypeInv', OnceInv, [Next]_vars, NEW r \in mine \cup {0}, Arrive(r)
  PROVE  OnceInv'
<1> DEFINE m == [id |-> top + 1, reply |-> r, date |-> 0, edit |-> 0]
<1>0. top' = top + 1 /\ calls' = calls /\ outgoing' = outgoing /\ count' = count /\ (Overflow \/ Record(m))
  BY DEF Arrive
<1>1. CASE Overflow
  <2>1. UNCHANGED <<indices, incoming, editDates>>
    BY <1>1 DEF Overflow, memory
  <2>2. \A a \in Asks : fut'[a] = "done" => Kept(a)
    BY <1>0, <1>1, Unanswered
  <2> QED BY <1>0, <2>1, <2>2, OnceQuiet
<1>2. CASE Record(m)
  <2>1. m \in Messages /\ m.id = top + 1 /\ m.edit = 0
    <3>1. r \in Nat /\ top \in Nat
      BY TargetIds, Numbered
    <3> QED BY <3>1 DEF Messages
  <2> HIDE DEF m
  <2>2. Grown
    BY <1>0, <1>2, <2>1, Numbered, GrowsRecord
  <2>3. \A a \in Asks : fut'[a] = "done" => Kept(a) \/ New(a)
    BY <1>0, <1>2, <2>1, NewRecorded DEF OnceInv
  <2>4. OrderedIn'
    <3> DEFINE n == Len(incoming) + 1
    <3>1. incoming' = Append(incoming, m) /\ incoming \in Seq(Messages) /\ Len(incoming') = n
      BY <1>2, <2>1, RecordFacts DEF TypeInv, Shape
    <3>2. n \in Nat /\ incoming'[n] = m /\ (\A i \in 1..Len(incoming) : incoming'[i] = incoming[i])
          /\ \A i \in 1..n : i # n => i \in 1..Len(incoming)
      BY <3>1
    <3>3. \A i \in 1..Len(incoming) : /\ incoming[i].id <= top /\ incoming[i].id < top + 1
                                      /\ incoming[i].id <= top + 1
                                      /\ incoming[i].edit <= count["edit"]
      BY Numbered DEF OnceInv, OrderedIn
    <3>4. 0 <= count["edit"] /\ top + 1 <= top + 1
      BY Numbered
    <3> HIDE DEF n
    <3>5. \A i \in 1..n : incoming'[i].id <= top' /\ incoming'[i].edit <= count'["edit"]
      BY <1>0, <2>1, <3>2, <3>3, <3>4
    <3>6. \A i, j \in 1..n : i < j => incoming'[i].id < incoming'[j].id
      <4> TAKE i, j \in 1..n
      <4> HAVE i < j
      <4>1. i # n /\ i \in 1..Len(incoming)
        BY <3>2
      <4>2. CASE j = n
        BY <2>1, <3>2, <3>3, <4>1, <4>2
      <4>3. CASE j # n
        BY <3>2, <4>1, <4>3 DEF OnceInv, OrderedIn
      <4> QED BY <4>2, <4>3
    <3> QED BY <3>1, <3>5, <3>6 DEF OrderedIn
  <2> QED BY <1>0, <2>2, <2>3, <2>4, OnceFrom DEF OnceInv
<1> QED BY <1>0, <1>1, <1>2

LEMMA OnceEdit ==
  ASSUME TypeInv, TypeInv', OnceInv, NEW o \in Theirs, NEW d \in {date, date + 1}, Edit(o, d)
  PROVE  OnceInv'
<1>1. Grown
  BY GrowsEdit
<1>2. \A a \in Asks : fut'[a] = "done" => Kept(a) \/ New(a)
  BY NewEdited DEF OnceInv
<1>3. OrderedIn'
  <2> DEFINE c == count["edit"]
  <2>1. /\ Edition(o, d).edit = c + 1
        /\ top' = top /\ count'["edit"] = c + 1
    BY EditFacts
  <2>2. /\ Len(incoming') = Len(incoming)
        /\ \A j \in 1..Len(incoming) : /\ incoming'[j].id = incoming[j].id
                                       /\ incoming'[j].edit \in {c + 1, incoming[j].edit}
    <3> HIDE DEF c
    <3> QED BY <2>1, ReplacedFacts
  <2>3. \A j \in 1..Len(incoming) : incoming[j].edit <= c + 1 /\ incoming[j].id <= top /\ c + 1 <= c + 1
    BY Numbered DEF OnceInv, OrderedIn
  <2> HIDE DEF c
  <2>4. \A j \in 1..Len(incoming) : incoming'[j].edit <= count'["edit"] /\ incoming'[j].id <= top'
    BY <2>1, <2>2, <2>3
  <2>5. \A j, k \in 1..Len(incoming) : j < k => incoming[j].id < incoming[k].id
    BY DEF OnceInv, OrderedIn
  <2>6. \A j, k \in 1..Len(incoming') : j < k => incoming'[j].id < incoming'[k].id
    <3> TAKE j, k \in 1..Len(incoming')
    <3> HAVE j < k
    <3>1. j \in 1..Len(incoming) /\ k \in 1..Len(incoming)
      BY <2>2
    <3>2. incoming[j].id < incoming[k].id
      BY <2>5, <3>1
    <3>3. incoming'[j].id = incoming[j].id /\ incoming'[k].id = incoming[k].id
      BY <1>1, <3>1 DEF Grown
    <3> QED BY <3>2, <3>3
  <2>7. \A j \in 1..Len(incoming') : incoming'[j].id <= top' /\ incoming'[j].edit <= count'["edit"]
    BY <2>2, <2>4
  <2> QED BY <2>6, <2>7 DEF OrderedIn
<1>4. outgoing' = outgoing
  BY EditFacts
<1> QED BY <1>1, <1>2, <1>3, <1>4, OnceFrom DEF OnceInv

(* Who enters again starts with nothing that was answered before. *)
LEMMA OnceEnter ==
  ASSUME TypeInv, TypeInv', OnceInv, Enter
  PROVE  OnceInv'
<1>1. outgoing' = {} /\ incoming' = <<>> /\ UNCHANGED <<asked, ask, fut, got>>
  BY DEF Enter, calls
<1>2. OrderedIn'
  BY <1>1 DEF OrderedIn
<1>3. AnswersPlaced'
  BY <1>1 DEF AnswersPlaced
<1>4. Once'
  BY <1>1 DEF OnceInv, Once, Like
<1> QED BY <1>2, <1>3, <1>4 DEF OnceInv

LEMMA OnceStep == TypeInv /\ TypeInv' /\ OnceInv /\ [Next]_vars => OnceInv'
<1> SUFFICES ASSUME TypeInv, TypeInv', OnceInv, [Next]_vars PROVE OnceInv'
  OBVIOUS
<1>1. CASE \E kind \in Kinds : \E t \in outgoing : Ask(kind, t)
  BY <1>1, OnceAsk
<1>2. CASE \E r \in mine \cup {0} : Arrive(r)
  BY <1>2, OnceArrive
<1>3. CASE \E o \in Theirs : \E d \in {date, date + 1} : Edit(o, d)
  BY <1>3, OnceEdit
<1>4. CASE \E max \in mine : Read(max)
  <2>1. PICK max \in mine : Read(max)
    BY <1>4
  <2>2. UNCHANGED <<indices, incoming, editDates, top, outgoing>> /\ count'["edit"] = count["edit"]
    BY <2>1 DEF Read, chat, Count, Bound, TypeInv, Shape
  <2>3. \A a \in Asks : fut'[a] = "done" => Kept(a) \/ New(a)
    BY <2>1, NewRead
  <2> QED BY <2>2, <2>3, OnceQuiet
<1>5. CASE Send \/ Sent \/ UNCHANGED vars
  <2>1. /\ UNCHANGED <<cancelled, memory, pending, calls, fut, got, count, lost, stale>>
        /\ top' \in {top, top + 1}
        /\ outgoing' \in {outgoing, outgoing \cup {sending}}
    BY <1>5 DEF Send, Sent, vars, chat
  <2>2. \A a \in Asks : fut'[a] = "done" => Kept(a)
    BY <2>1, Unanswered
  <2> QED BY <2>1, <2>2, OnceQuiet DEF memory
<1>6. CASE Cancel \/ Exit
  <2>1. /\ CancelAll /\ UNCHANGED <<memory, pending, calls, lost, outgoing>> /\ got' = got /\ top' = top
    BY <1>6 DEF Cancel, Exit, chat
  <2>2. count'["edit"] = count["edit"]
    BY <1>6 DEF Cancel, Exit, Count, Bound, TypeInv, Shape
  <2>3. \A a \in Asks : fut'[a] = "done" => Kept(a)
    BY <2>1, Unanswered
  <2> QED BY <2>1, <2>2, <2>3, OnceQuiet DEF memory
<1>7. CASE \E a \in Asks : Timeout(a)
  <2>1. UNCHANGED <<memory, top, outgoing>>
    BY <1>7 DEF Timeout, chat
  <2>2. count'["edit"] = count["edit"]
    BY <1>7 DEF Timeout, Count, Bound, TypeInv, Shape
  <2>3. \A a \in Asks : fut'[a] = "done" => Kept(a)
    BY <1>7, Unanswered
  <2> QED BY <2>1, <2>2, <2>3, OnceQuiet DEF memory
<1>8. (\E t \in outgoing : GetMessage("response", t) \/ GetMessage("reply", t) \/ GetEdit(t) \/ WaitRead(t))
       => \E kind \in Kinds : \E t \in outgoing : Ask(kind, t)
  BY DEF Ask, Indices, Kinds
<1> QED BY <1>1, <1>2, <1>3, <1>4, <1>5, <1>6, <1>7, <1>8, OnceEnter, Zenon DEF Next

(* The same question never gets the same message or the same edit twice,   *)
(* from what is saved and from what arrives: Once.                         *)
THEOREM NoneTwice == Spec => []Once
<1>1. Init => OnceInv
  BY DEF Init, OnceInv, OrderedIn, AnswersPlaced, Once, Like
<1>2. OnceInv => Once
  BY DEF OnceInv
<1> QED BY <1>1, <1>2, OnceStep, AlwaysTypeInv, PTL DEF Spec

-----------------------------------------------------------------------------
(* No answer is skipped                                                    *)

Done(t) == {a \in Answers(t) : fut[a] = "done"}

(* The responses to t were given, or are awaited in the dictionary, and    *)
(* nothing else moved the position. *)
Orderly(t) ==
  /\ lost = 0
  /\ \A a \in Answers(t) :
       fut[a] = "done" \/ (fut[a] = "waiting" /\ \E e \in pending["response"] : e.ask = a)
  /\ Shared => \A a \in 1..asked : ask[a].kind # "reply"

(* As many messages were given as the position is behind the first one,    *)
(* and these; who waits has got all of them.                               *)
Gapless(t) ==
  LET f == FirstAfter(t)
      x == indices["response"][t]
      n == Cardinality(Done(t))
  IN
  /\ x = -1 => Answers(t) = {}
  /\ x # -1 => x = f + n
  /\ {got[a].id : a \in Done(t)} = {incoming[i].id : i \in f + 1..f + n}
  /\ (\E a \in Answers(t) : fut[a] = "waiting") => x = Len(incoming)

(* What cannot be asked about has no position. *)
Untouched == \A t \in Ids \ outgoing : indices["response"][t] = -1

SkipInv == Untouched /\ \A t \in outgoing : Orderly(t) => Gapless(t)

LEMMA AnswersFinite ==
  ASSUME TypeInv, NEW t
  PROVE  /\ Answers(t) \subseteq Asks
         /\ IsFiniteSet(Done(t)) /\ Cardinality(Done(t)) \in Nat
<1>1. asked \in 0..MaxAsks /\ MaxAsks \in Nat
  BY ConversationAssumption DEF ConversationAssumption, TypeInv, TypeOK
<1>2. 1..asked \subseteq Asks /\ IsFiniteSet(1..asked)
  <2>1. IsFiniteSet(1..asked)
    BY <1>1, FS_Interval
  <2> QED BY <1>1, <2>1 DEF Asks
<1>3. Answers(t) \subseteq 1..asked /\ Done(t) \subseteq 1..asked
  BY DEF Answers, Done
<1>4. IsFiniteSet(Done(t))
  BY <1>2, <1>3, FS_Subset
<1> QED BY <1>2, <1>3, <1>4, FS_CardinalityType

(* The messages that were given are there. *)
LEMMA GaplessRange ==
  ASSUME TypeInv, NEW t \in outgoing, Gapless(t)
  PROVE  /\ FirstAfter(t) \in 0..Len(incoming) /\ indices["response"][t] \in -1..Len(incoming)
         /\ Cardinality(Done(t)) \in Nat /\ Len(incoming) \in Nat
         /\ indices["response"][t] = -1 => Cardinality(Done(t)) = 0
         /\ FirstAfter(t) + Cardinality(Done(t)) <= Len(incoming)
<1>1. FirstAfter(t) \in 0..Len(incoming)
  BY TargetIds, FirstPosition DEF TypeInv, Shape
<1>2. indices["response"][t] \in -1..Len(incoming) /\ Len(incoming) \in Nat
  BY TargetIds, Numbered, Recomposed DEF Places, Indices
<1>3. Cardinality(Done(t)) \in Nat
  BY AnswersFinite
<1>4. indices["response"][t] = -1 => Cardinality(Done(t)) = 0
  <2>1. indices["response"][t] = -1 => Done(t) = {}
    BY DEF Gapless, Done
  <2> QED BY <2>1, FS_EmptySet
<1>5. indices["response"][t] # -1 => indices["response"][t] = FirstAfter(t) + Cardinality(Done(t))
  BY DEF Gapless
<1> QED BY <1>1, <1>2, <1>3, <1>4, <1>5

(* Messages stay, those that come are later than the target. *)
Extended(t) ==
  /\ Len(incoming) <= Len(incoming')
  /\ \A p \in 1..Len(incoming) : incoming'[p].id = incoming[p].id
  /\ \A p \in 1..Len(incoming') : p > Len(incoming) => incoming'[p].id > t

LEMMA FirstExtended ==
  ASSUME TypeInv, TypeInv', NEW t \in outgoing, Extended(t)
  PROVE  FirstAfter(t)' = FirstAfter(t)
<1>1. t \in Nat /\ incoming \in Seq(Messages) /\ incoming' \in Seq(Messages)
  BY TargetIds DEF TypeInv, Shape
<1>2. FirstIn(incoming', t) = FirstIn(incoming, t)
  BY <1>1, FirstStays DEF Extended
<1>3. FirstAfter(t)' = FirstIn(incoming', t)
  BY DEF FirstAfter, FirstIn
<1>4. FirstAfter(t) = FirstIn(incoming, t)
  BY DEF FirstAfter, FirstIn
<1> QED BY <1>2, <1>3, <1>4

(* Nobody who asked for responses to t is answered. *)
Calm(t) ==
  /\ Answers(t)' = Answers(t)
  /\ lost' = 0 => lost = 0
  /\ (\E a \in 1..asked : ask[a].kind = "reply") => \E a \in 1..asked' : ask'[a].kind = "reply"
  /\ \A a \in Answers(t) : fut'[a] \in {"done", "waiting"} => fut'[a] = fut[a] /\ got'[a] = got[a]
  /\ \A a \in Answers(t) : (\E e \in pending'["response"] : e.ask = a)
                            => \E e \in pending["response"] : e.ask = a
  /\ Extended(t)
  /\ Len(incoming') = Len(incoming) \/ pending'["response"] = {}

LEMMA OrderlyBefore ==
  ASSUME NEW t \in outgoing, Calm(t), Orderly(t)'
  PROVE  Orderly(t) /\ Done(t)' = Done(t) /\ \A a \in Answers(t) : fut'[a] = fut[a]
<1>1. \A a \in Answers(t) : /\ fut'[a] = fut[a]
                            /\ fut[a] = "done" \/ (fut[a] = "waiting" /\ \E e \in pending["response"] : e.ask = a)
  BY DEF Orderly, Calm
<1>2. Orderly(t)
  BY <1>1 DEF Orderly, Calm
<1> QED BY <1>1, <1>2 DEF Done, Calm

LEMMA SkipCalm ==
  ASSUME TypeInv, TypeInv', SkipInv, NEW t \in outgoing, Calm(t), Orderly(t)',
         indices'["response"][t] = indices["response"][t]
  PROVE  Gapless(t)'
<1> DEFINE f == FirstAfter(t)
           x == indices["response"][t]
           n == Cardinality(Done(t))
<1>1. Orderly(t) /\ Done(t)' = Done(t) /\ \A a \in Answers(t) : fut'[a] = fut[a]
  BY OrderlyBefore
<1>2. Gapless(t)
  BY <1>1 DEF SkipInv
<1>3. /\ f \in 0..Len(incoming) /\ n \in Nat /\ Len(incoming) \in Nat
      /\ f + n <= Len(incoming)
  BY <1>2, GaplessRange
<1>4. FirstAfter(t)' = f /\ Cardinality(Done(t))' = n
  BY <1>1, FirstExtended DEF Calm
<1>5. /\ x = -1 => Answers(t) = {}
      /\ x # -1 => x = f + n
      /\ {got[a].id : a \in Done(t)} = {incoming[i].id : i \in f + 1..f + n}
      /\ (\E a \in Answers(t) : fut[a] = "waiting") => x = Len(incoming)
  BY <1>2 DEF Gapless
<1> HIDE DEF f, x, n
<1>6. {got'[a].id : a \in Done(t)} = {got[a].id : a \in Done(t)}
  <2>1. \A a \in Done(t) : got'[a] = got[a]
    BY <1>1 DEF Calm, Done
  <2> QED BY <2>1
<1>7. {incoming'[i].id : i \in f + 1..f + n} = {incoming[i].id : i \in f + 1..f + n}
  <2>1. \A i \in f + 1..f + n : i \in 1..Len(incoming)
    BY <1>3
  <2>2. \A i \in f + 1..f + n : incoming'[i].id = incoming[i].id
    BY <2>1 DEF Calm, Extended
  <2> QED BY <2>2
<1>8. (\E a \in Answers(t)' : fut'[a] = "waiting") => x = Len(incoming')
  <2> SUFFICES ASSUME NEW a \in Answers(t), fut'[a] = "waiting" PROVE x = Len(incoming')
    BY DEF Calm
  <2>1. x = Len(incoming)
    BY <1>1, <1>5
  <2>2. a \in Answers(t)'
    BY DEF Calm
  <2>3. \E e \in pending'["response"] : e.ask = a
    BY <2>2 DEF Orderly
  <2> QED BY <2>1, <2>3 DEF Calm
<1>9. Answers(t)' = Answers(t) /\ indices'["response"][t] = x
  BY DEF Calm, x
<1>10. {got'[a].id : a \in Done(t)'} = {incoming'[i].id : i \in f + 1..f + n}
  BY <1>1, <1>5, <1>6, <1>7
<1> QED BY <1>4, <1>5, <1>8, <1>9, <1>10 DEF Gapless

(* The calls that were made keep their futures and answers. *)
LEMMA AskKeeps ==
  ASSUME TypeInv, NEW kind \in Kinds, NEW t \in outgoing, Ask(kind, t)
  PROVE  /\ asked + 1 \in Asks /\ asked' = asked + 1 /\ asked \in Nat
         /\ \A a \in 1..asked : a \in Asks /\ a # asked + 1
         /\ lost' = lost /\ incoming' = incoming /\ outgoing' = outgoing
         /\ ask' = [ask EXCEPT ![asked + 1] = [kind |-> kind, target |-> t]]
         /\ ask'[asked + 1] = [kind |-> kind, target |-> t]
         /\ \A a \in Asks : a # asked + 1 =>
              ask'[a] = ask[a] /\ fut'[a] = fut[a] /\ got'[a] = got[a]
<1>1. Asking(kind, t)
  BY AskSteps
<1>2. /\ asked + 1 \in Asks /\ asked' = asked + 1 /\ asked \in Nat /\ outgoing' = outgoing
      /\ \A a \in 1..asked : a \in Asks /\ a # asked + 1
  BY <1>1, AskingNumbers
<1>3. /\ lost' = lost /\ incoming' = incoming
      /\ ask' = [ask EXCEPT ![asked + 1] = [kind |-> kind, target |-> t]]
  BY <1>1 DEF Asking
<1>4. fut \in [Asks -> Outcomes] /\ ask \in [Asks -> Requests] /\ got \in [Asks -> Messages]
  BY Recomposed DEF Futures, Known, Dictionaries, Memory
<1>5. \A a \in Asks : a # asked + 1 => ask'[a] = ask[a]
  BY <1>2, <1>3, <1>4
<1>6. ask'[asked + 1] = [kind |-> kind, target |-> t]
  BY <1>2, <1>3, <1>4
<1>7. CASE Await(kind, t)
  BY <1>2, <1>3, <1>4, <1>5, <1>6, <1>7 DEF Await
<1>8. ASSUME NEW m, Return(m) PROVE \A a \in Asks : a # asked + 1 => fut'[a] = fut[a] /\ got'[a] = got[a]
  BY <1>4, <1>8 DEF Return
<1>9. CASE kind = "read" /\ WaitRead(t)
  BY <1>2, <1>3, <1>4, <1>5, <1>6, <1>7, <1>9 DEF WaitRead
<1>10. CASE kind \in Indices /\ GetMessage(kind, t)
  BY <1>2, <1>3, <1>5, <1>6, <1>7, <1>8, <1>10 DEF GetMessage
<1>11. CASE kind = "edit" /\ GetEdit(t)
  BY <1>2, <1>3, <1>5, <1>6, <1>7, <1>8, <1>11 DEF GetEdit
<1> QED BY <1>9, <1>10, <1>11 DEF Ask

LEMMA ExtendedSame ==
  ASSUME TypeInv, NEW t, incoming' = incoming
  PROVE  Extended(t) /\ Len(incoming') = Len(incoming)
<1>1. Len(incoming) \in Nat
  BY Numbered
<1> QED BY <1>1 DEF Extended

(* No call is made. *)
LEMMA CalmCalls ==
  ASSUME TypeInv, NEW t \in outgoing, calls' = calls, lost' \in {lost, lost + 1},
         \A a \in Answers(t) : fut'[a] \in {"done", "waiting"} => fut'[a] = fut[a] /\ got'[a] = got[a],
         pending'["response"] \subseteq pending["response"],
         Extended(t), Len(incoming') = Len(incoming) \/ pending'["response"] = {}
  PROVE  Calm(t)
<1>1. asked' = asked /\ ask' = ask
  BY DEF calls
<1>2. Answers(t)' = Answers(t)
  BY <1>1 DEF Answers
<1>3. lost' = 0 => lost = 0
  <2>1. lost \in Nat
    BY DEF TypeInv, TypeOK
  <2> QED BY <2>1
<1> QED BY <1>1, <1>2, <1>3 DEF Calm

(* A call is made, not for responses to t. *)
LEMMA CalmAsk ==
  ASSUME TypeInv, NEW kind \in Kinds, NEW u \in outgoing, Ask(kind, u),
         NEW t \in outgoing, kind # "response" \/ u # t
  PROVE  Calm(t)
<1>1. /\ asked + 1 \in Asks /\ asked' = asked + 1 /\ asked \in Nat
      /\ \A a \in 1..asked : a \in Asks /\ a # asked + 1
      /\ lost' = lost /\ incoming' = incoming
      /\ ask'[asked + 1] = [kind |-> kind, target |-> u]
      /\ \A a \in Asks : a # asked + 1 => ask'[a] = ask[a] /\ fut'[a] = fut[a] /\ got'[a] = got[a]
  BY AskKeeps
<1>2. Extended(t) /\ Len(incoming') = Len(incoming)
  BY <1>1, ExtendedSame
<1>3. \A a \in 1..asked' : a \in 1..asked \/ a = asked + 1
  BY <1>1
<1>4. \A a \in 1..asked : a \in 1..asked'
  BY <1>1
<1>5. ask'[asked + 1] # [kind |-> "response", target |-> t]
  BY <1>1
<1>6. Answers(t)' = Answers(t)
  BY <1>1, <1>3, <1>4, <1>5 DEF Answers
<1>7. \A a \in Answers(t) : a \in 1..asked
  BY DEF Answers
<1>8. ASSUME NEW e \in pending'["response"], e.ask \in Answers(t)
      PROVE  \E d \in pending["response"] : d.ask = e.ask
  <2>1. e.ask # asked + 1 /\ "response" \in Kinds
    BY <1>1, <1>7, <1>8 DEF Kinds
  <2>2. CASE Await(kind, u)
    BY <2>1, <2>2, AskSteps, AwaitFutures
  <2>3. CASE pending' = pending
    BY <2>3
  <2> QED BY <2>2, <2>3, AskSteps
<1>9. (\E a \in 1..asked : ask[a].kind = "reply") => \E a \in 1..asked' : ask'[a].kind = "reply"
  BY <1>1, <1>4
<1> QED BY <1>1, <1>2, <1>6, <1>7, <1>8, <1>9 DEF Calm

(* Futures end otherwise than by an answer. *)
LEMMA CalmEnds ==
  ASSUME TypeInv, NEW t \in outgoing, UNCHANGED <<calls, pending, incoming, got>>,
         lost' \in {lost, lost + 1},
         \A a \in Asks : fut'[a] = fut[a] \/ fut'[a] \notin {"done", "waiting"}
  PROVE  Calm(t)
<1>1. Extended(t) /\ Len(incoming') = Len(incoming)
  BY ExtendedSame
<1>2. Answers(t) \subseteq Asks
  BY AnswersFinite
<1> QED BY <1>1, <1>2, CalmCalls

(* Edits and reads are served. *)
LEMMA CalmServed ==
  ASSUME TypeInv, NEW t \in outgoing, calls' = calls, lost' \in {lost, lost + 1},
         NEW k \in Kinds \ Indices, NEW es, es \subseteq pending[k],
         pending' = [pending EXCEPT ![k] = @ \ Served(es)],
         fut' = Tell(AsksOf(Served(es)), "done"),
         NEW m, got' = Give(AsksOf(Served(es)), m) \/ got' = got,
         Extended(t), Len(incoming') = Len(incoming)
  PROVE  Calm(t)
<1>1. \A a \in AsksOf(Served(es)) : \E e \in Served(es) : e \in pending[k] /\ a = e.ask
  BY ServedAsks
<1>2. ASSUME NEW a \in Answers(t) PROVE a \in Asks /\ a \notin AsksOf(Served(es))
  <2>1. ask[a].kind = "response"
    BY DEF Answers
  <2>2. \A e \in pending[k] : ask[e.ask].kind = k
    BY EntryTypes
  <2> QED BY <1>1, <2>1, <2>2, AnswersFinite DEF Indices
<1>3. \A a \in Answers(t) : fut'[a] = fut[a] /\ got'[a] = got[a]
  BY <1>2 DEF Tell, Give
<1>4. pending'["response"] = pending["response"]
  BY DEF TypeInv, Shape, Indices
<1> QED BY <1>3, <1>4, CalmCalls

(* One message more, at the next position. *)
LEMMA OneMore ==
  ASSUME NEW D, NEW n, NEW g, NEW h, NEW s, NEW r, NEW f \in Nat, NEW k \in Nat,
         \A a \in D : h[a].id = g[a].id,
         {g[a].id : a \in D} = {s[j].id : j \in f + 1..f + k},
         \A j \in f + 1..f + k : r[j].id = s[j].id,
         h[n].id = r[f + k + 1].id
  PROVE  {h[a].id : a \in D \cup {n}} = {r[j].id : j \in f + 1..f + (k + 1)}
<1>1. f + 1..f + (k + 1) = (f + 1..f + k) \cup {f + k + 1}
  OBVIOUS
<1> DEFINE J == f + 1..f + k
           last == f + k + 1
<1>2. {g[a].id : a \in D} = {s[j].id : j \in J}
  OBVIOUS
<1>3. {h[a].id : a \in D} = {g[a].id : a \in D}
  OBVIOUS
<1>4. {r[j].id : j \in J} = {s[j].id : j \in J}
  OBVIOUS
<1> HIDE DEF J, last
<1>5. {h[a].id : a \in D \cup {n}} = {h[a].id : a \in D} \cup {h[n].id}
  OBVIOUS
<1>6. {r[j].id : j \in J \cup {last}} = {r[j].id : j \in J} \cup {r[last].id}
  OBVIOUS
<1> QED BY <1>1, <1>2, <1>3, <1>4, <1>5, <1>6 DEF J, last

(* The call n is answered with the next message. *)
LEMMA GaplessMore ==
  ASSUME TypeInv, TypeInv', NEW t \in outgoing, Gapless(t), Extended(t),
         NEW n, n \notin Done(t), Done(t)' = Done(t) \cup {n},
         \A a \in Done(t) : got'[a] = got[a],
         NEW p, p = FirstAfter(t) + Cardinality(Done(t)) + 1,
         got'[n].id = incoming'[p].id, indices'["response"][t] = p,
         \A a \in Answers(t)' : fut'[a] # "waiting"
  PROVE  Gapless(t)'
<1> DEFINE f == FirstAfter(t)
           D == Done(t)
           k == Cardinality(D)
<1>1. f \in 0..Len(incoming) /\ k \in Nat /\ Len(incoming) \in Nat /\ f + k <= Len(incoming)
  BY GaplessRange
<1>2. FirstAfter(t)' = f
  BY FirstExtended
<1>3. Cardinality(Done(t))' = k + 1
  <2>1. Cardinality(D \cup {n}) = k + 1
    BY AnswersFinite, FS_AddElement
  <2> QED BY <2>1
<1>4. {got[a].id : a \in D} = {incoming[i].id : i \in f + 1..f + k}
  BY DEF Gapless
<1> HIDE DEF f, k, D
<1>5. \A i \in f + 1..f + k : incoming'[i].id = incoming[i].id
  BY <1>1 DEF Extended
<1>6. \A a \in D : got'[a].id = got[a].id
  BY DEF D
<1>7. p = f + k + 1
  BY DEF f, k, D
<1>8. got'[n].id = incoming'[f + k + 1].id
  BY <1>7
<1>9. f \in Nat
  BY <1>1
<1>10. {got'[a].id : a \in D \cup {n}} = {incoming'[i].id : i \in f + 1..f + (k + 1)}
  BY <1>1, <1>4, <1>5, <1>6, <1>8, <1>9, OneMore
<1>11. {got'[a].id : a \in Done(t)'} = {incoming'[i].id : i \in f + 1..f + (k + 1)}
  BY <1>10 DEF D
<1>12. p = f + (k + 1) /\ p # -1
  BY <1>1, <1>7
<1> QED BY <1>2, <1>3, <1>11, <1>12 DEF Gapless

(* Asking for a response to t. *)
LEMMA SkipAsk ==
  ASSUME TypeInv, TypeInv', SkipInv, NEW t \in outgoing, GetMessage("response", t), Orderly(t)'
  PROVE  Gapless(t)'
<1> DEFINE i == Index("response", t)
           there == i < Len(incoming)
           x == indices["response"][t]
           f == FirstAfter(t)
           k == Cardinality(Done(t))
<1>0. "response" \in Indices /\ "response" \in Kinds /\ Dictionary("response") = "response"
  BY DEF Indices, Kinds, Dictionary
<1>1. Ask("response", t)
  BY <1>0 DEF Ask
<1> DEFINE n == asked + 1
<1>2. /\ n \in Asks /\ asked' = n /\ asked \in Nat
      /\ \A a \in 1..asked : a \in Asks /\ a # n
      /\ lost' = lost /\ incoming' = incoming
      /\ ask'[n] = [kind |-> "response", target |-> t]
      /\ \A a \in Asks : a # n => ask'[a] = ask[a] /\ fut'[a] = fut[a] /\ got'[a] = got[a]
  BY <1>0, <1>1, AskKeeps
<1>3. /\ i \in 0..Len(incoming) /\ x \in -1..Len(incoming) /\ Len(incoming) \in Nat
      /\ (x # -1 => i = x) /\ (x = -1 => i = f)
      /\ indices'["response"][t] = (IF there THEN i + 1 ELSE i)
      /\ IF there THEN Return(incoming[i + 1]) ELSE Await("response", t)
  <2>1. Responds("response", incoming[i + 1], t)
    BY DEF Responds
  <2>2. x = -1 => i = f
    BY <1>0 DEF Index
  <2> QED BY <1>0, <2>1, <2>2, AskIndices, Numbered
<1>4. 1..n = 1..asked \cup {n} /\ n \notin 1..asked
  BY <1>2
<1>5. Answers(t)' = Answers(t) \cup {n} /\ n \notin Answers(t)
  BY <1>2, <1>4 DEF Answers
<1>6. \A a \in Answers(t) : /\ a \in Asks /\ a # n /\ a \in 1..asked
                            /\ fut'[a] = fut[a] /\ got'[a] = got[a]
  BY <1>2 DEF Answers
<1>7. lost = 0 /\ (Shared => \A a \in 1..asked : ask[a].kind # "reply")
  BY <1>2, <1>4 DEF Orderly
<1>8. \A a \in Answers(t)' : fut'[a] = "done" \/
        (fut'[a] = "waiting" /\ \E e \in pending'["response"] : e.ask = a)
  BY DEF Orderly
<1>9. Extended(t)
  BY <1>2, ExtendedSame
<1>10. FirstAfter(t)' = f
  BY <1>9, FirstExtended
<1>11. fut \in [Asks -> Outcomes] /\ got \in [Asks -> Messages]
  BY Recomposed DEF Futures, Known, Memory
<1> HIDE DEF i, there, n
<1>12. CASE there
  <2>1. /\ fut' = [fut EXCEPT ![n] = "done"] /\ got' = [got EXCEPT ![n] = incoming[i + 1]]
        /\ pending' = pending
    BY <1>3, <1>12 DEF Return, n
  <2>2. fut'[n] = "done" /\ got'[n] = incoming'[i + 1]
    BY <1>2, <1>11, <2>1
  <2>3. Orderly(t)
    BY <1>5, <1>6, <1>7, <1>8, <2>1 DEF Orderly
  <2>4. Gapless(t)
    BY <2>3 DEF SkipInv
  <2>5. i < Len(incoming)
    BY <1>12 DEF there
  <2>6. \A a \in Answers(t) : fut[a] # "waiting"
    <3>1. x # Len(incoming)
      BY <1>3, <2>5
    <3> QED BY <2>4, <3>1 DEF Gapless
  <2>7. Done(t)' = Done(t) \cup {n} /\ n \notin Done(t)
    BY <1>5, <1>6, <2>2 DEF Done
  <2>8. i = f + k
    <3>1. k \in Nat /\ f \in 0..Len(incoming) /\ (x = -1 => k = 0)
      BY <2>4, GaplessRange
    <3>2. x # -1 => x = f + k
      BY <2>4 DEF Gapless
    <3> HIDE DEF x, f, k
    <3> QED BY <1>3, <3>1, <3>2
  <2>9. \A a \in Answers(t)' : fut'[a] # "waiting"
    BY <1>5, <1>6, <2>2, <2>6
  <2>10. \A a \in Done(t) : got'[a] = got[a]
    BY <1>6 DEF Done
  <2>11. indices'["response"][t] = i + 1
    BY <1>3, <1>12
  <2> DEFINE p == i + 1
  <2>12. p = FirstAfter(t) + Cardinality(Done(t)) + 1 /\ got'[n].id = incoming'[p].id
         /\ indices'["response"][t] = p
    BY <2>2, <2>8, <2>11
  <2> HIDE DEF p
  <2> QED BY <1>9, <2>4, <2>7, <2>9, <2>10, <2>12, GaplessMore
<1>13. CASE ~there
  <2>1. i = Len(incoming) /\ Await("response", t) /\ indices'["response"][t] = i
    BY <1>3, <1>13 DEF there
  <2>2. \A a \in Answers(t) : fut[a] = "done"
    <3> SUFFICES ASSUME NEW a \in Answers(t), NEW e \in pending'["response"], e.ask = a PROVE FALSE
      BY <1>5, <1>6, <1>8
    <3>1. PICK at \in Nat :
            pending'["response"] = {d \in pending["response"] : d.target # t}
                                     \cup {[target |-> t, ask |-> n, at |-> at]}
      BY <1>0, <1>1, <2>1, AskSteps, AwaitTypes DEF n
    <3>2. e.ask # n
      BY <1>6
    <3>3. e \in pending["response"] /\ e.target # t
      BY <3>1, <3>2
    <3>4. ask[e.ask].target = e.target
      BY <1>0, <3>3, EntryTypes
    <3>5. ask[a].target = t
      BY DEF Answers
    <3> QED BY <3>3, <3>4, <3>5
  <2>3. Orderly(t)
    BY <1>7, <2>2 DEF Orderly
  <2>4. Gapless(t)
    BY <2>3 DEF SkipInv
  <2>5. fut'[n] # "done"
    BY <1>2, <1>11, <2>1 DEF Await, n
  <2>6. Done(t)' = Done(t)
    BY <1>5, <1>6, <2>5 DEF Done
  <2>7. /\ k \in Nat /\ f \in 0..Len(incoming) /\ (x = -1 => k = 0)
        /\ f + k <= Len(incoming)
    BY <2>4, GaplessRange
  <2>8. /\ x # -1 => x = f + k
        /\ {got[a].id : a \in Done(t)} = {incoming[j].id : j \in f + 1..f + k}
    BY <2>4 DEF Gapless
  <2>9. i = f + k
    <3> HIDE DEF x, f, k
    <3> QED BY <1>3, <2>7, <2>8
  <2>10. {got'[a].id : a \in Done(t)} = {got[a].id : a \in Done(t)}
    BY <1>6 DEF Done
  <2>11. i # -1
    BY <1>3
  <2>12. {got'[a].id : a \in Done(t)'} = {incoming'[j].id : j \in f + 1..f + k}
    BY <1>2, <2>6, <2>8, <2>10
  <2> QED BY <1>2, <1>10, <2>1, <2>6, <2>9, <2>11, <2>12 DEF Gapless
<1> QED BY <1>12, <1>13

(* A message comes that everybody asked for gets. *)
LEMMA RecordAll ==
  ASSUME TypeInv, NEW m \in Messages, Record(m), calls' = calls, lost' = 0
  PROVE  /\ lost = 0 /\ pending'["response"] = {}
         /\ Served(pending["response"]) = pending["response"]
         /\ Touched(pending["response"]) = pending["response"]
         /\ \A e \in pending["response"] : e.ask \in ServedBy(m)
<1>1. /\ pending' = [pending EXCEPT !["response"] = @ \ Served(pending["response"]),
                                    !["reply"] = @ \ Served(Second(m))]
      /\ lost' = IF Raises(pending["response"]) \/ Raises(Second(m)) THEN lost + 1 ELSE lost
  BY RecordFacts
<1>2. lost \in Nat /\ pending \in [Kinds -> SUBSET Entries]
  BY DEF TypeInv, TypeOK, Shape
<1>3. lost = 0 /\ ~Raises(pending["response"])
  BY <1>1, <1>2
<1>4. "response" \in Kinds
  BY DEF Kinds
<1>5. /\ Served(pending["response"]) = pending["response"]
      /\ Touched(pending["response"]) = pending["response"]
  <2> DEFINE first == pending["response"]
  <2>1. first \subseteq pending["response"]
    OBVIOUS
  <2>2. /\ Served(first) \subseteq Touched(first) /\ Touched(first) \subseteq first
        /\ ~Raises(first) => Served(first) = first
    BY <1>4, <2>1, ServedAsks
  <2> QED BY <1>3, <2>2
<1>6. pending'["response"] = {}
  BY <1>1, <1>2, <1>4, <1>5
<1>7. \A e \in pending["response"] : e.ask \in ServedBy(m)
  BY <1>5 DEF ServedBy, AsksOf
<1> QED BY <1>3, <1>5, <1>6, <1>7

LEMMA ExtendedRecord ==
  ASSUME TypeInv, NEW t \in outgoing, NEW m \in Messages, m.id = top + 1, Record(m)
  PROVE  /\ Extended(t) /\ Len(incoming') = Len(incoming) + 1 /\ Len(incoming) \in Nat
         /\ incoming'[Len(incoming) + 1] = m
<1> DEFINE n == Len(incoming) + 1
<1>1. incoming' = Append(incoming, m) /\ incoming \in Seq(Messages) /\ Len(incoming') = n
  BY RecordFacts DEF TypeInv, Shape
<1>2. /\ n \in Nat /\ incoming'[n] = m /\ Len(incoming) <= n /\ Len(incoming) \in Nat
      /\ \A j \in 1..Len(incoming) : incoming'[j] = incoming[j]
      /\ \A j \in 1..n : j > Len(incoming) => j = n
  BY <1>1
<1>3. m.id > t
  <2>1. top \in Nat /\ t \in 1..top
    BY Numbered DEF TypeInv, TypeOK
  <2> QED BY <2>1
<1> QED BY <1>1, <1>2, <1>3 DEF Extended

(* The message of a step reaches who awaits a response to t. *)
LEMMA SkipAnswered ==
  ASSUME TypeInv, TypeInv', SkipInv, NEW t \in outgoing, NEW m \in Messages, m.id = top + 1,
         Record(m), calls' = calls, Orderly(t)', NEW e \in pending["response"], e.target = t
  PROVE  Gapless(t)'
<1> DEFINE b == e.ask
           x == indices["response"][t]
<1>0. "response" \in Kinds /\ "response" \in Indices
  BY DEF Kinds, Indices
<1>1. lost' = 0 /\ lost = 0 /\ pending'["response"] = {}
      /\ Touched(pending["response"]) = pending["response"]
      /\ b \in ServedBy(m)
  BY RecordAll DEF Orderly
<1>2. asked' = asked /\ ask' = ask /\ Answers(t)' = Answers(t)
  BY DEF calls, Answers
<1>3. b \in Answers(t) /\ b \in Asks
  BY <1>0, EntryTypes DEF Answers, TypeInv, Owned, OfCalls
<1>4. fut' = Tell(ServedBy(m), "done") /\ got' = Give(ServedBy(m), m)
  BY RecordFacts
<1>5. \A a \in Answers(t) : fut'[a] = "done" /\ a \in Asks
  BY <1>1, <1>2, AnswersFinite DEF Orderly
<1>6. fut[b] = "waiting" /\ got'[b] = m
  <2>1. fut[b] = "waiting"
    BY <1>1, <1>3, <1>4, <1>5 DEF Tell, Settled
  <2> QED BY <1>1, <1>3, <1>4, <2>1 DEF Give
<1>7. ASSUME NEW a \in Answers(t), a # b
      PROVE  fut[a] = "done" /\ got'[a] = got[a]
  <2>1. a \notin ServedBy(m)
    <3> SUFFICES ASSUME NEW k \in Kinds, NEW d \in pending[k], a = d.ask PROVE FALSE
      BY RecordServes DEF Kinds
    <3>1. ask[a].kind = k /\ ask[a].target = d.target
      BY EntryTypes
    <3>2. k = "response" /\ d.target = e.target
      BY <3>1 DEF Answers
    <3>3. d = e
      BY <1>0, <3>2 DEF TypeInv, TypeOK
    <3> QED BY <1>7, <3>3
  <2> QED BY <1>4, <1>5, <2>1 DEF Tell, Give
<1>8. Orderly(t)
  <2>1. Shared => \A a \in 1..asked : ask[a].kind # "reply"
    BY <1>2 DEF Orderly
  <2>2. \E d \in pending["response"] : d.ask = b
    OBVIOUS
  <2> HIDE DEF b
  <2> QED BY <1>1, <1>6, <1>7, <2>1, <2>2 DEF Orderly
<1>9. Gapless(t)
  BY <1>8 DEF SkipInv
<1>10. Extended(t) /\ Len(incoming) \in Nat /\ incoming'[Len(incoming) + 1] = m
  BY ExtendedRecord
<1>11. Done(t)' = Done(t) \cup {b} /\ b \notin Done(t)
  <2> HIDE DEF b
  <2> QED BY <1>2, <1>3, <1>5, <1>6, <1>7 DEF Done
<1>12. x = FirstAfter(t) + Cardinality(Done(t)) /\ x = Len(incoming)
  <2>1. x = Len(incoming)
    BY <1>3, <1>6, <1>9 DEF Gapless
  <2>2. x # -1
    BY <1>10, <2>1
  <2> QED BY <1>9, <2>1, <2>2 DEF Gapless
<1>13. indices'["response"][t] = Len(incoming) + 1
  BY <1>1, TargetIds, RecordIndices
<1>14. \A a \in Done(t) : got'[a] = got[a]
  BY <1>7, <1>11 DEF Done
<1>15. \A a \in Answers(t)' : fut'[a] # "waiting"
  BY <1>2, <1>5
<1> DEFINE p == Len(incoming) + 1
<1>16. p = FirstAfter(t) + Cardinality(Done(t)) + 1 /\ got'[b].id = incoming'[p].id
       /\ indices'["response"][t] = p
  BY <1>6, <1>10, <1>12, <1>13
<1> HIDE DEF p, b
<1> QED BY <1>9, <1>10, <1>11, <1>14, <1>15, <1>16, GaplessMore

LEMMA SkipRecord ==
  ASSUME TypeInv, TypeInv', SkipInv, NEW t \in outgoing, NEW m \in Messages, m.id = top + 1,
         Record(m), calls' = calls, Orderly(t)'
  PROVE  Gapless(t)'
<1>0. "response" \in Kinds /\ "reply" \in Kinds
  BY DEF Kinds
<1>1. CASE \E e \in pending["response"] : e.target = t
  BY <1>1, SkipAnswered
<1>2. CASE \A e \in pending["response"] : e.target # t
  <2>1. lost' = 0 /\ lost = 0 /\ pending'["response"] = {}
        /\ Touched(pending["response"]) = pending["response"]
    BY RecordAll DEF Orderly
  <2>2. fut' = Tell(ServedBy(m), "done") /\ got' = Give(ServedBy(m), m)
    BY RecordFacts
  <2>3. ASSUME NEW a \in Answers(t) PROVE a \notin ServedBy(m) /\ a \in Asks
    <3>1. ask[a].kind = "response" /\ ask[a].target = t
      BY DEF Answers
    <3>2. ASSUME NEW k \in Kinds, NEW d \in pending[k], a = d.ask PROVE FALSE
      <4>1. ask[a].kind = k /\ ask[a].target = d.target
        BY <3>2, EntryTypes
      <4> QED BY <1>2, <3>1, <4>1
    <3> QED BY <1>0, <3>2, RecordServes, AnswersFinite
  <2>4. \A a \in Answers(t) : fut'[a] = fut[a] /\ got'[a] = got[a]
    BY <2>2, <2>3 DEF Tell, Give
  <2>5. Extended(t)
    BY ExtendedRecord
  <2>6. Calm(t)
    BY <2>1, <2>4, <2>5, CalmCalls
  <2>7. indices'["response"][t] = indices["response"][t]
    <3>1. t \in Ids /\ t \notin TargetsOf(Touched(pending["response"]))
      BY <1>2, <2>1, TargetIds DEF TargetsOf
    <3>2. CASE ~Shared
      BY <3>1, <3>2, RecordIndices
    <3>3. CASE Shared
      <4>1. \A a \in 1..asked : ask[a].kind # "reply"
        BY <3>3 DEF Orderly, calls
      <4>2. pending["reply"] = {}
        <5>1. \A d \in pending["reply"] : d.ask \in 1..asked /\ ask[d.ask].kind = "reply"
          BY <1>0, EntryTypes DEF TypeInv, Owned, OfCalls
        <5> QED BY <4>1, <5>1
      <4>3. Touched(Second(m)) = {}
        BY <4>2 DEF Second, Touched
      <4> QED BY <3>1, <4>3, RecordIndices DEF TargetsOf
    <3> QED BY <3>2, <3>3
  <2> QED BY <2>6, <2>7, SkipCalm
<1> QED BY <1>1, <1>2

LEMMA SkipOtherAsk ==
  ASSUME TypeInv, TypeInv', SkipInv, NEW kind \in Kinds, NEW u \in outgoing, Ask(kind, u),
         NEW t \in outgoing, kind # "response" \/ u # t, Orderly(t)'
  PROVE  Gapless(t)'
<1>1. Calm(t) /\ t \in Ids
  BY CalmAsk, TargetIds
<1>2. indices'["response"][t] = indices["response"][t]
  <2>0. "response" \in Indices
    BY DEF Indices
  <2>1. CASE kind \in Indices /\ GetMessage(kind, u)
    <3>1. \A k \in Indices : \A w \in Ids : k # Dictionary(kind) \/ w # u => indices'[k][w] = indices[k][w]
      BY <2>1, AskIndices
    <3>2. Dictionary(kind) # "response" \/ u # t
      <4> SUFFICES ASSUME u = t, Dictionary(kind) = "response" PROVE FALSE
        OBVIOUS
      <4>1. kind = "reply" /\ Shared
        BY <2>1 DEF Dictionary, Indices
      <4>2. /\ asked' = asked + 1 /\ asked \in Nat
            /\ ask'[asked + 1] = [kind |-> kind, target |-> u]
        BY AskKeeps
      <4> DEFINE n == asked + 1
      <4>3. n \in 1..asked' /\ ask'[n] = [kind |-> kind, target |-> u]
        BY <4>2
      <4> HIDE DEF n
      <4>4. ask'[n].kind = "reply"
        BY <4>1, <4>3
      <4> QED BY <4>1, <4>3, <4>4 DEF Orderly
    <3> QED BY <1>1, <2>0, <3>1, <3>2
  <2>2. CASE GetEdit(u) \/ WaitRead(u)
    BY <2>2 DEF GetEdit, WaitRead
  <2> QED BY <2>1, <2>2 DEF Ask
<1> QED BY <1>1, <1>2, SkipCalm

LEMMA UntouchedStep == TypeInv /\ Untouched /\ [Next]_vars => Untouched'
<1> SUFFICES ASSUME TypeInv, Untouched, [Next]_vars PROVE Untouched'
  OBVIOUS
<1>0. "response" \in Indices /\ "response" \in Kinds /\ "reply" \in Kinds
  BY DEF Indices, Kinds
<1>1. ASSUME NEW kind \in Kinds, NEW u \in outgoing, Ask(kind, u) PROVE Untouched'
  <2>1. outgoing' = outgoing
    BY <1>1, AskKeeps
  <2>2. \A t \in Ids \ outgoing : indices'["response"][t] = indices["response"][t]
    <3>1. CASE kind \in Indices /\ GetMessage(kind, u)
      <4>1. \A k \in Indices : \A w \in Ids : k # Dictionary(kind) \/ w # u => indices'[k][w] = indices[k][w]
        BY <3>1, AskIndices
      <4> QED BY <1>0, <4>1
    <3>2. CASE GetEdit(u) \/ WaitRead(u)
      BY <3>2 DEF GetEdit, WaitRead
    <3> QED BY <1>1, <3>1, <3>2 DEF Ask
  <2> QED BY <2>1, <2>2 DEF Untouched
<1>2. ASSUME outgoing \subseteq outgoing',
             \A t \in Ids \ outgoing : indices'["response"][t] = indices["response"][t]
      PROVE  Untouched'
  BY <1>2 DEF Untouched
<1>3. CASE Serve
  <2>1. ASSUME NEW m \in Messages, Record(m), UNCHANGED <<calls, outgoing>> PROVE Untouched'
    <3>1. ASSUME NEW t \in Ids \ outgoing
          PROVE  indices'["response"][t] = indices["response"][t]
      <4>1. /\ Touched(pending["response"]) \subseteq pending["response"]
            /\ Touched(Second(m)) \subseteq pending["reply"]
        BY <1>0, ServedAsks, RecordServes
      <4>2. /\ t \notin TargetsOf(Touched(pending["response"]))
            /\ t \notin TargetsOf(Touched(Second(m)))
        BY <1>0, <4>1, EntryTypes DEF TargetsOf
      <4> QED BY <2>1, <4>2, RecordIndices
    <3> QED BY <1>2, <2>1, <3>1
  <2>2. ASSUME NEW i, NEW d, Edit(i, d) PROVE Untouched'
    BY <1>2, <2>2 DEF Edit
  <2>3. ASSUME NEW max, Read(max) PROVE Untouched'
    BY <1>2, <2>3 DEF Read, chat
  <2> QED BY <1>3, <2>1, <2>2, <2>3 DEF Serve
<1>4. CASE CancelAll /\ UNCHANGED <<memory, pending, calls, lost, outgoing>>
  BY <1>2, <1>4 DEF memory
<1>5. CASE Overflow /\ UNCHANGED <<calls, outgoing>>
  BY <1>2, <1>5 DEF Overflow, memory
<1>6. CASE \E a \in Asks : Timeout(a)
  BY <1>2, <1>6 DEF Timeout, chat, memory
<1>7. CASE Send \/ Sent \/ UNCHANGED vars
  BY <1>2, <1>7 DEF Send, Sent, vars, chat, memory
<1>9. CASE Enter
  BY <1>9 DEF Enter, Absent, Untouched
<1>8. ASSUME Next PROVE \/ \E kind \in Kinds : \E t \in outgoing : Ask(kind, t)
                        \/ Serve
                        \/ CancelAll /\ UNCHANGED <<memory, pending, calls, lost, outgoing>>
                        \/ Overflow /\ UNCHANGED <<calls, outgoing>>
                        \/ \E a \in Asks : Timeout(a)
                        \/ Enter \/ Send \/ Sent
  <2>1. CASE Cancel \/ Exit
    BY <2>1 DEF Cancel, Exit, chat
  <2>2. CASE \E t \in outgoing : GetMessage("response", t) \/ GetMessage("reply", t) \/ GetEdit(t) \/ WaitRead(t)
    BY <2>2 DEF Ask, Indices, Kinds
  <2>3. ASSUME NEW r \in mine \cup {0}, Arrive(r)
        PROVE  Serve \/ (Overflow /\ UNCHANGED <<calls, outgoing>>)
    <3> DEFINE m == [id |-> top + 1, reply |-> r, date |-> 0, edit |-> 0]
    <3>1. m \in Messages
      BY TargetIds, Numbered DEF Messages
    <3>2. (Overflow \/ Record(m)) /\ UNCHANGED <<calls, outgoing>>
      BY <2>3 DEF Arrive
    <3> HIDE DEF m
    <3> QED BY <3>1, <3>2 DEF Serve
  <2> QED BY <1>8, <2>1, <2>2, <2>3, Zenon DEF Next, Serve
<1> QED BY <1>1, <1>3, <1>4, <1>5, <1>6, <1>7, <1>8, <1>9

LEMMA SkipStep == TypeInv /\ TypeInv' /\ SkipInv /\ [Next]_vars => SkipInv'
<1> SUFFICES ASSUME TypeInv, TypeInv', SkipInv, [Next]_vars, NEW t \in outgoing', Orderly(t)'
             PROVE  Gapless(t)'
  BY UntouchedStep DEF SkipInv
<1>0. fut \in [Asks -> Outcomes]
  BY Recomposed DEF Futures, Known
<1>1. ASSUME t \notin outgoing PROVE Gapless(t)'
  <2>1. Sent /\ t = sending /\ t \in Ids
    <3>1. outgoing' # outgoing /\ outgoing' # {}
      BY <1>1
    <3>2. Sent
      BY <3>1 DEF Next, Enter, Send, Timeout, Cancel, Exit, Arrive, Edit, Read, GetMessage,
                  GetEdit, WaitRead, Asking, vars, chat
    <3>3. t = sending
      BY <1>1, <3>2 DEF Sent
    <3>4. t \in Ids
      <4>1. outgoing' \subseteq mine' /\ mine' \subseteq 1..top' /\ top' \in 0..MaxTop /\ MaxTop \in Nat
        BY ConversationAssumption DEF ConversationAssumption, TypeInv, TypeOK
      <4> QED BY <4>1 DEF Ids
    <3> QED BY <3>2, <3>3, <3>4
  <2>2. calls' = calls /\ indices' = indices /\ fut' = fut
    BY <2>1 DEF Sent, memory
  <2>3. Answers(t)' = {} /\ Done(t)' = {}
    <3>1. \A a \in 1..asked : ask[a].target # t
      BY <2>1 DEF TypeInv, Owned, Targeted
    <3> QED BY <2>2, <3>1 DEF Answers, Done, calls
  <2>4. Cardinality(Done(t))' = 0
    BY <2>3, FS_EmptySet
  <2>5. indices'["response"][t] = -1
    BY <1>1, <2>1, <2>2 DEF SkipInv, Untouched
  <2>6. FirstAfter(t)' \in Nat
    <3>1. incoming' \in Seq(Messages) /\ t \in Nat
      BY <2>1, ConversationAssumption DEF TypeInv, Shape, Ids, ConversationAssumption
    <3>2. FirstIn(incoming', t) \in 0..Len(incoming')
      BY <3>1, FirstPositionIn
    <3>3. FirstAfter(t)' = FirstIn(incoming', t)
      BY DEF FirstAfter, FirstIn
    <3> QED BY <3>1, <3>2, <3>3
  <2> DEFINE f == FirstAfter(t)'
  <2> HIDE DEF f
  <2>7. f \in Nat
    BY <2>6 DEF f
  <2>8. f + 1..f + 0 = {}
    BY <2>7
  <2>9. {got'[a].id : a \in Done(t)'} = {incoming'[i].id : i \in f + 1..f + 0}
    BY <2>3, <2>8
  <2> QED BY <2>3, <2>4, <2>5, <2>9 DEF Gapless, f
<1>2. ASSUME t \in outgoing, NEW kind \in Kinds, NEW u \in outgoing, Ask(kind, u) PROVE Gapless(t)'
  <2>1. CASE kind # "response" \/ u # t
    BY <1>2, <2>1, SkipOtherAsk
  <2>2. CASE kind = "response" /\ u = t
    BY <1>2, <2>2, SkipAsk DEF Ask
  <2> QED BY <2>1, <2>2
<1>3. ASSUME t \in outgoing, NEW r \in mine \cup {0}, Arrive(r), ~Overflow PROVE Gapless(t)'
  <2> DEFINE m == [id |-> top + 1, reply |-> r, date |-> 0, edit |-> 0]
  <2>1. m \in Messages /\ m.id = top + 1
    BY TargetIds, Numbered DEF Messages
  <2>2. Record(m) /\ calls' = calls
    BY <1>3 DEF Arrive
  <2> HIDE DEF m
  <2> QED BY <1>3, <2>1, <2>2, SkipRecord
<1>4. ASSUME t \in outgoing, UNCHANGED <<calls, pending, incoming, got, indices>>,
             lost' \in {lost, lost + 1},
             \A a \in Asks : fut'[a] = fut[a] \/ fut'[a] \notin {"done", "waiting"}
      PROVE  Gapless(t)'
  BY <1>4, CalmEnds, SkipCalm
<1>5. ASSUME t \in outgoing, NEW o \in Theirs, NEW d \in {date, date + 1}, Edit(o, d)
      PROVE  Gapless(t)'
  <2> DEFINE es == Waiting(o)
  <2>1. /\ pending' = [pending EXCEPT !["edit"] = @ \ Served(es)]
        /\ fut' = Tell(AsksOf(Served(es)), "done")
        /\ got' = Give(AsksOf(Served(es)), Edition(o, d))
        /\ lost' \in {lost, lost + 1} /\ calls' = calls /\ indices' = indices
    BY <1>5, EditFacts
  <2>0. es \subseteq pending["edit"]
    BY DEF Waiting
  <2>2. Len(incoming') = Len(incoming) /\ Extended(t)
    <3>1. Len(incoming') = Len(incoming) /\ \A p \in 1..Len(incoming) : incoming'[p].id = incoming[p].id
      BY <1>5, ReplacedFacts
    <3> QED BY <3>1, Numbered DEF Extended
  <2>3. "edit" \in Kinds \ Indices
    BY DEF Kinds, Indices
  <2> HIDE DEF es
  <2>4. Calm(t)
    BY <1>5, <2>0, <2>1, <2>2, <2>3, CalmServed
  <2> QED BY <1>5, <2>1, <2>4, SkipCalm
<1>6. ASSUME t \in outgoing, NEW max \in mine, Read(max) PROVE Gapless(t)'
  <2> DEFINE es == {e \in pending["read"] : e.target >= max}
  <2>1. /\ pending' = [pending EXCEPT !["read"] = @ \ Served(es)]
        /\ fut' = Tell(AsksOf(Served(es)), "done")
        /\ got' = got /\ incoming' = incoming
        /\ lost' \in {lost, lost + 1} /\ calls' = calls /\ indices' = indices
        /\ es \subseteq pending["read"]
    BY <1>6 DEF Read, Dispatched
  <2>2. Len(incoming') = Len(incoming) /\ Extended(t)
    BY <2>1, ExtendedSame
  <2>3. "read" \in Kinds \ Indices
    BY DEF Kinds, Indices
  <2> HIDE DEF es
  <2>4. Calm(t)
    BY <1>6, <2>1, <2>2, <2>3, CalmServed
  <2> QED BY <1>6, <2>1, <2>4, SkipCalm
<1>7. CASE t \in outgoing /\ Overflow /\ \E r \in mine \cup {0} : Arrive(r)
  <2>1. UNCHANGED <<calls, pending, incoming, got, indices>> /\ lost' \in {lost, lost + 1}
    BY <1>7 DEF Overflow, memory, Arrive, Dispatched
  <2>2. \A a \in Asks : fut'[a] = fut[a] \/ fut'[a] \notin {"done", "waiting"}
    BY <1>7 DEF Overflow, Tell, Settled
  <2> QED BY <1>4, <1>7, <2>1, <2>2
<1>8. CASE t \in outgoing /\ (Send \/ Sent \/ UNCHANGED vars)
  BY <1>4, <1>8 DEF Send, Sent, vars, memory
<1>12. CASE Enter
  BY <1>12 DEF Enter
<1>9. CASE t \in outgoing /\ (Cancel \/ Exit)
  <2>1. UNCHANGED <<calls, pending, incoming, got, indices, lost>> /\ CancelAll
    BY <1>9 DEF Cancel, Exit, memory
  <2>2. \A a \in Asks : fut'[a] = fut[a] \/ fut'[a] \notin {"done", "waiting"}
    BY <2>1 DEF CancelAll
  <2> QED BY <1>4, <1>9, <2>1, <2>2
<1>10. CASE t \in outgoing /\ \E a \in Asks : Timeout(a)
  <2>1. UNCHANGED <<calls, pending, incoming, got, indices, lost>>
    BY <1>10 DEF Timeout, memory
  <2>2. \A a \in Asks : fut'[a] = fut[a] \/ fut'[a] \notin {"done", "waiting"}
    BY <1>0, <1>10 DEF Timeout
  <2> QED BY <1>4, <1>10, <2>1, <2>2
<1>11. (\E u \in outgoing : GetMessage("response", u) \/ GetMessage("reply", u) \/ GetEdit(u) \/ WaitRead(u))
        => \E kind \in Kinds : \E u \in outgoing : Ask(kind, u)
  BY DEF Ask, Indices, Kinds
<1> QED BY <1>1, <1>2, <1>3, <1>5, <1>6, <1>7, <1>8, <1>9, <1>10, <1>11, <1>12, Zenon DEF Next

(* Who asks for response after response, and gets them, gets the messages  *)
(* after the target without a gap: NoneSkipped. *)
THEOREM AlwaysNoneSkipped == Spec => []NoneSkipped
<1>1. Init => SkipInv
  BY DEF Init, SkipInv, Untouched, Absent
<1>2. TypeInv /\ SkipInv => NoneSkipped
  <2> SUFFICES ASSUME TypeInv, SkipInv, NEW t \in outgoing, lost = 0,
                      \A a \in Answers(t) : fut[a] = "done",
                      Shared => \A a \in 1..asked : ask[a].kind # "reply"
               PROVE  LET n == Cardinality(Answers(t)) IN
                      \E first \in 0..Len(incoming) - n :
                        /\ \A i \in 1..first : incoming[i].id <= t
                        /\ first < Len(incoming) => incoming[first + 1].id > t
                        /\ {got[a].id : a \in Answers(t)} = {incoming[i].id : i \in first + 1..first + n}
    BY DEF NoneSkipped
  <2>1. Orderly(t) /\ Done(t) = Answers(t)
    BY DEF Orderly, Done
  <2>2. Gapless(t)
    BY <2>1 DEF SkipInv
  <2> DEFINE first == FirstAfter(t)
             n == Cardinality(Answers(t))
  <2>3. first + n <= Len(incoming) /\ n \in Nat
    BY <2>1, <2>2, GaplessRange DEF Gapless
  <2>4. {got[a].id : a \in Answers(t)} = {incoming[i].id : i \in first + 1..first + n}
    BY <2>1, <2>2 DEF Gapless
  <2>5. /\ first \in 0..Len(incoming)
        /\ \A i \in 1..first : incoming[i].id <= t
        /\ first < Len(incoming) => incoming[first + 1].id > t
    <3>1. incoming \in Seq(Messages) /\ t \in Nat
      BY TargetIds, ConversationAssumption DEF TypeInv, Shape, Ids, ConversationAssumption
    <3> QED BY <3>1, FirstPosition
  <2> HIDE DEF first, n
  <2>6. first \in 0..Len(incoming) - n
    BY <2>3, <2>5
  <2> QED BY <2>4, <2>5, <2>6, Zenon DEF n
<1> QED BY <1>1, <1>2, SkipStep, AlwaysTypeInv, PTL DEF Spec

=============================================================================
