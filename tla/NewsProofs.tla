---------------------------- MODULE NewsProofs ------------------------------
(***************************************************************************)
(* What holds of the events of an order and of what the notifications      *)
(* service makes of them, for every set of users, every order and any      *)
(* number of requests.                                                     *)
(***************************************************************************)
EXTENDS News, FeedProofs, FiniteSetTheorems, SequenceTheorems

-----------------------------------------------------------------------------
(* Sequences.                                                              *)

NoRepeats(s) == \A i, j \in DOMAIN s : s[i] = s[j] => i = j

LEMMA Sized ==
  ASSUME NEW n \in Nat, NEW I \in SUBSET (1..n)
  PROVE  IsFiniteSet(I) /\ Cardinality(I) \in Nat /\ Cardinality(I) <= n
<1>1. IsFiniteSet(1..n) /\ Cardinality(1..n) = n
  BY FS_Interval
<1>2. IsFiniteSet(I) /\ Cardinality(I) <= Cardinality(1..n)
  BY <1>1, FS_Subset
<1> QED BY <1>1, <1>2, FS_CardinalityType

\* The places of I are counted through.
LEMMA NthPlace ==
  ASSUME NEW n \in Nat, NEW I \in SUBSET (1..n)
  PROVE  /\ \A k \in 1..Cardinality(I) : Nth(I, k) \in I
         /\ \A k, l \in 1..Cardinality(I) : Nth(I, k) = Nth(I, l) => k = l
         /\ \A i \in I : \E k \in 1..Cardinality(I) : Nth(I, k) = i
<1> DEFINE upTo(i) == {j \in I : j <= i}
           rank == [i \in I |-> Cardinality(upTo(i))]
           c == Cardinality(I)
<1>1. IsFiniteSet(I) /\ c \in Nat
  BY Sized
<1>2. ASSUME NEW i \in I PROVE rank[i] \in 1..c /\ IsFiniteSet(upTo(i))
  <2>1. upTo(i) \in SUBSET I /\ i \in upTo(i)
    OBVIOUS
  <2>2. IsFiniteSet(upTo(i)) /\ Cardinality(upTo(i)) <= c
    BY <1>1, <2>1, FS_Subset
  <2>3. Cardinality(upTo(i)) \in Nat /\ Cardinality(upTo(i)) # 0
    BY <2>1, <2>2, FS_CardinalityType, FS_EmptySet
  <2> HIDE DEF upTo, c
  <2> QED BY <1>1, <2>2, <2>3
<1>3. ASSUME NEW i \in I, NEW j \in I, i < j PROVE rank[i] # rank[j]
  <2>1. i \in Int /\ j \in Int /\ \A x \in I : x \in Int
    OBVIOUS
  <2>2. j \in upTo(j) /\ j \notin upTo(i)
    BY <1>3, <2>1
  <2>3. \A x \in upTo(i) : x \in upTo(j)
    <3> TAKE x \in upTo(i)
    <3>1. x \in I /\ x <= i /\ x \in Int
      BY <2>1
    <3>2. x <= j
      BY <1>3, <2>1, <3>1
    <3> QED BY <3>1, <3>2
  <2>4. Cardinality(upTo(j)) # Cardinality(upTo(i))
    <3>1. upTo(i) \in SUBSET upTo(j)
      BY <2>3
    <3> QED BY <1>2, <2>2, <3>1, FS_Subset
  <2> HIDE DEF upTo
  <2> QED BY <2>4
<1>4. \A i, j \in I : rank[i] = rank[j] => i = j
  BY <1>3
<1>5. rank \in Injection(I, 1..c)
  <2>1. rank \in [I -> 1..c]
    BY <1>2
  <2> HIDE DEF rank
  <2> QED BY <1>4, <2>1 DEF Injection, IsInjective
<1>6. rank \in Surjection(I, 1..c)
  <2>1. IsFiniteSet(1..c) /\ Cardinality(1..c) = c
    BY <1>1, FS_Interval
  <2> HIDE DEF rank
  <2> QED BY <1>5, <2>1, FS_Injection
<1>7. ASSUME NEW k \in 1..c PROVE Nth(I, k) \in I /\ rank[Nth(I, k)] = k
  <2>1. \E i \in I : rank[i] = k
    BY <1>6 DEF Surjection
  <2>2. \E i \in I : Cardinality(upTo(i)) = k
    BY <2>1
  <2>3. Nth(I, k) \in I /\ Cardinality(upTo(Nth(I, k))) = k
    BY <2>2 DEF Nth
  <2> QED BY <2>3
<1>8. \A i \in I : rank[i] \in 1..c
  BY <1>2
<1> HIDE DEF rank, c
<1>9. \A i \in I : Nth(I, rank[i]) = i
  BY <1>4, <1>7, <1>8
<1> QED BY <1>7, <1>8, <1>9 DEF c

\* What Kept keeps.
LEMMA KeptParts ==
  ASSUME NEW S, NEW s \in Seq(S), NEW I \in SUBSET (DOMAIN s)
  PROVE  /\ Kept(s, I) \in Seq({s[i] : i \in I})
         /\ Len(Kept(s, I)) = Cardinality(I) /\ Len(Kept(s, I)) <= Len(s)
         /\ I # {} => Kept(s, I) # <<>>
         /\ \A i \in I : \E k \in DOMAIN Kept(s, I) : Kept(s, I)[k] = s[i]
         /\ (\A i, j \in I : s[i] = s[j] => i = j) => NoRepeats(Kept(s, I))
<1> DEFINE c == Cardinality(I)
           t == Kept(s, I)
<1>1. DOMAIN s = 1..Len(s) /\ Len(s) \in Nat
  OBVIOUS
<1>2. IsFiniteSet(I) /\ c \in Nat /\ c <= Len(s)
  BY <1>1, Sized
<1>3. /\ \A k \in 1..c : Nth(I, k) \in I
      /\ \A k, l \in 1..c : Nth(I, k) = Nth(I, l) => k = l
      /\ \A i \in I : \E k \in 1..c : Nth(I, k) = i
  BY <1>1, NthPlace, ZenonT(60)
<1>4. t = [k \in 1..c |-> s[Nth(I, k)]]
  BY DEF Kept
<1> HIDE DEF c, t
<1>5. t \in [1..c -> {s[i] : i \in I}]
  <2>1. ASSUME NEW k \in 1..c PROVE s[Nth(I, k)] \in {s[i] : i \in I}
    <3>1. Nth(I, k) \in I
      BY <1>3
    <3> QED BY <3>1
  <2> QED BY <1>4, <2>1
<1>6. t \in Seq({s[i] : i \in I}) /\ Len(t) = c /\ DOMAIN t = 1..c
  BY <1>2, <1>5
<1>7. \A i \in I : \E k \in DOMAIN t : t[k] = s[i]
  BY <1>3, <1>4, <1>6
<1>8. I # {} => t # <<>>
  BY <1>2, <1>6, FS_EmptySet DEF c
<1>9. ASSUME \A i, j \in I : s[i] = s[j] => i = j PROVE NoRepeats(t)
  BY <1>3, <1>4, <1>6, <1>9 DEF NoRepeats
<1> QED BY <1>2, <1>6, <1>7, <1>8, <1>9 DEF c, t

\* dedupe leaves every user once, the first one among them, and nobody else.
LEMMA Deduped ==
  ASSUME NEW users \in Seq(People)
  PROVE  /\ dedupe(users) \in Seq(People) /\ NoRepeats(dedupe(users))
         /\ \A k \in DOMAIN dedupe(users) : \E i \in DOMAIN users : users[i] = dedupe(users)[k]
         /\ users # <<>> =>
              /\ dedupe(users) # <<>>
              /\ \E k \in DOMAIN dedupe(users) : dedupe(users)[k] = users[1]
<1> DEFINE I == Firsts(users)
           t == dedupe(users)
<1>1. I \in SUBSET (DOMAIN users) /\ \A i, j \in I : users[i] = users[j] => i = j
  <2>1. DOMAIN users \subseteq Int
    OBVIOUS
  <2> QED BY <2>1 DEF Firsts
<1>2. users # <<>> => 1 \in I
  BY DEF Firsts
<1>3. t = Kept(users, I)
  BY DEF dedupe
<1> HIDE DEF I, t
<1>4. /\ t \in Seq({users[i] : i \in I}) /\ NoRepeats(t)
      /\ I # {} => t # <<>>
      /\ \A i \in I : \E k \in DOMAIN t : t[k] = users[i]
  BY <1>1, <1>3, KeptParts
<1>5. \A k \in DOMAIN t : t[k] \in {users[i] : i \in I}
  BY <1>4
<1>6. {users[i] : i \in I} \subseteq People
  BY <1>1
<1>7. t \in Seq(People)
  BY <1>4, <1>6
<1>8. ASSUME NEW k \in DOMAIN t PROVE \E i \in DOMAIN users : users[i] = t[k]
  BY <1>1, <1>5
<1>9. users # <<>> => t # <<>> /\ \E k \in DOMAIN t : t[k] = users[1]
  BY <1>2, <1>4
<1> QED BY <1>4, <1>7, <1>8, <1>9 DEF t

-----------------------------------------------------------------------------
(* What the notifications service stores, and for whom.                    *)

\* The event notifies u.
For(aud, u) == aud.notify /\ Contains(NotifyRecipients(aud), u)

\* Those an event's notification is for have a row each at most, and only they
\* have one; who is still to be notified has none, but for the user whose row
\* has just been made.
StoredAt(r, rows) ==
  /\ r.pc # "none" => NoRepeats(NotifyRecipients(r.aud))
  /\ r.pc \in {"none", "sent", "state"} => r.todo = <<>> /\ \A u \in People : rows[u] = 0
  /\ r.pc = "create" => \A i \in DOMAIN r.todo : rows[r.todo[i]] = 0
  /\ r.pc \in {"push", "notice"} => \A i \in DOMAIN r.todo : i > 1 => rows[r.todo[i]] = 0
  /\ NoRepeats(r.todo)
  /\ \A i \in DOMAIN r.todo : For(r.aud, r.todo[i])
  /\ \A u \in People : rows[u] > 0 => For(r.aud, u)
  /\ \A u \in People : rows[u] <= 1

Stored == \A e \in Events : StoredAt(event[e], row[e])

\* What a step of a handler does, by where it is.
Moved(r, q) == q.aud = r.aud /\ q.pc # "none"
Waits(r, rows, q, new) ==
  /\ q.todo = r.todo /\ new = rows
  /\ \/ r.pc = "sent" /\ q.pc \in {"done", "state"}
     \/ r.pc \in {"state", "notice"} /\ q.pc = r.pc
     \/ r.pc = "push" /\ q.pc = "notice"
Starts(r, rows, q, new) ==
  /\ r.pc = "state" /\ q.pc \in {"create", "done"} /\ new = rows
  /\ \/ q.todo = <<>>
     \/ r.aud.notify /\ q.todo = NotifyRecipients(r.aud)
Stores(r, rows, q, new) ==
  /\ r.pc = "create" /\ q.pc = "push" /\ q.todo = r.todo
  /\ new = [rows EXCEPT ![Head(r.todo)] = @ + 1]
NextOne(r, rows, q, new) ==
  /\ r.pc \in {"create", "notice"} /\ q.pc \in {"create", "done"} /\ q.todo = Tail(r.todo)
  /\ \/ new = rows
     \/ r.pc = "create" /\ new = [rows EXCEPT ![Head(r.todo)] = @ + 1]

LEMMA AudOf ==
  ASSUME NEW r \in EventRec, NEW pc, NEW at, NEW users
  PROVE  /\ [r EXCEPT !.pc = pc].aud = r.aud /\ [r EXCEPT !.at = at].aud = r.aud
         /\ [r EXCEPT !.pc = pc, !.at = at].aud = r.aud
         /\ [r EXCEPT !.pc = pc, !.todo = users].aud = r.aud
BY DEF EventRec

LEMMA NotifyMoves ==
  ASSUME FeedTypeOK, NEW e \in Events, NEW users, Notify(e, users)
  PROVE  /\ Moved(event[e], event'[e]) /\ event'[e].todo = users
         /\ event'[e].pc \in {"create", "done"}
<1> DEFINE pc == IF users = <<>> THEN "done" ELSE "create"
           r == [event[e] EXCEPT !.pc = pc, !.todo = users]
<1>1. event'[e] = r
  <2>1. Becomes(e, r)
    BY DEF Notify
  <2> HIDE DEF r
  <2> QED BY <2>1, BecomesPc
<1>2. pc \in {"create", "done"}
  OBVIOUS
<1> HIDE DEF pc
<1>3. r.aud = event[e].aud /\ r.pc = pc /\ r.todo = users
  BY EventTypes, AudOf, RecFields
<1> QED BY <1>1, <1>2, <1>3 DEF Moved

LEMMA HandleMoves ==
  ASSUME FeedTypeOK, NEW e \in Events, Handle(e) \/ Lose(e)
  PROVE  /\ Moved(event[e], event'[e]) /\ event[e].pc # "none"
         /\ \A f \in Events \ {e} : event'[f] = event[f] /\ row'[f] = row[f]
         /\ \/ Waits(event[e], row[e], event'[e], row'[e])
            \/ Starts(event[e], row[e], event'[e], row'[e])
            \/ Stores(event[e], row[e], event'[e], row'[e])
            \/ NextOne(event[e], row[e], event'[e], row'[e])
<1>0. event[e] \in EventRec /\ row \in [Events -> [People -> Nat]]
  BY EventTypes DEF FeedTypeOK
<1>1. \A f \in Events \ {e} : event'[f] = event[f] /\ row'[f] = row[f]
  BY <1>0 DEF Handle, Emit, Send, PublishEnd, Create, CreateFail, Push, Lose, Notify, Becomes,
         FeedTypeOK
<1>2. CASE Lose(e)
  <2>1. event'[e] = [event[e] EXCEPT !.pc = "done"]
    BY <1>2, BecomesPc DEF Lose
  <2>2. event'[e].aud = event[e].aud /\ event'[e].pc = "done" /\ event'[e].todo = event[e].todo
    BY <1>0, <2>1, AudOf, RecFields
  <2> QED BY <1>1, <1>2, <2>2 DEF Lose, Moved, Waits
<1>3. CASE Emit(e) \/ Push(e)
  <2>1. PICK pc, at : /\ Becomes(e, [event[e] EXCEPT !.pc = pc, !.at = at])
                      /\ \/ event[e].pc = "sent" /\ pc = "state"
                         \/ event[e].pc = "push" /\ pc = "notice"
    BY <1>3 DEF Emit, Push
  <2>2. event'[e].aud = event[e].aud /\ event'[e].pc = pc /\ event'[e].todo = event[e].todo
    <3> DEFINE r == [event[e] EXCEPT !.pc = pc, !.at = at]
    <3>1. r.aud = event[e].aud /\ r.pc = pc /\ r.todo = event[e].todo
      BY <1>0, AudOf, RecFields
    <3> HIDE DEF r
    <3> QED BY <2>1, <3>1, BecomesPc DEF r
  <2> QED BY <1>1, <1>3, <2>1, <2>2 DEF Emit, Push, Moved, Waits
<1>4. CASE Send(e)
  <2>1. PICK at : event'[e] = [event[e] EXCEPT !.at = at]
    BY <1>4, BecomesPc DEF Send
  <2>2. event'[e].aud = event[e].aud /\ event'[e].pc = event[e].pc
        /\ event'[e].todo = event[e].todo
    BY <1>0, <2>1, AudOf, RecFields
  <2> QED BY <1>1, <1>4, <2>2 DEF Send, Publishing, Moved, Waits
<1>5. CASE PublishEnd(e)
  <2>1. UNCHANGED row
    BY <1>5 DEF PublishEnd
  <2>2. CASE event[e].pc = "notice" /\ Notify(e, Tail(event[e].todo))
    BY <1>1, <2>1, <2>2, NotifyMoves DEF NextOne, Moved
  <2>3. CASE event[e].pc = "state" /\ event[e].aud.notify
             /\ Notify(e, NotifyRecipients(event[e].aud))
    <3>1. /\ Moved(event[e], event'[e]) /\ event'[e].todo = NotifyRecipients(event[e].aud)
          /\ event'[e].pc \in {"create", "done"}
      BY <2>3, NotifyMoves
    <3> QED BY <1>1, <2>1, <2>3, <3>1 DEF Starts
  <2>4. CASE event[e].pc = "state" /\ Notify(e, <<>>)
    <3>1. /\ Moved(event[e], event'[e]) /\ event'[e].todo = <<>>
          /\ event'[e].pc \in {"create", "done"}
      BY <2>4, NotifyMoves
    <3> QED BY <1>1, <2>1, <2>4, <3>1 DEF Starts
  <2> QED BY <1>5, <2>2, <2>3, <2>4 DEF PublishEnd
<1>6. CASE Create(e)
  <2>1. event'[e] = [event[e] EXCEPT !.pc = "push"]
    BY <1>6, BecomesPc DEF Create
  <2>2. event'[e].aud = event[e].aud /\ event'[e].pc = "push" /\ event'[e].todo = event[e].todo
    BY <1>0, <2>1, AudOf, RecFields
  <2>3. row'[e] = [row[e] EXCEPT ![Head(event[e].todo)] = @ + 1]
    BY <1>0, <1>6 DEF Create
  <2> QED BY <1>1, <1>6, <2>2, <2>3 DEF Create, Moved, Stores
<1>7. CASE CreateFail(e)
  <2>1. row'[e] = row[e] \/ row'[e] = [row[e] EXCEPT ![Head(event[e].todo)] = @ + 1]
    BY <1>0, <1>7 DEF CreateFail
  <2>2. event[e].pc = "create" /\ Notify(e, Tail(event[e].todo))
    BY <1>7 DEF CreateFail
  <2> QED BY <1>1, <2>1, <2>2, NotifyMoves DEF Moved, NextOne
<1> QED BY <1>2, <1>3, <1>4, <1>5, <1>6, <1>7 DEF Handle

\* A function of numbers with one of them raised.
LEMMA Raised ==
  ASSUME NEW rows \in [People -> Nat], NEW v \in People
  PROVE  /\ [rows EXCEPT ![v] = @ + 1][v] = rows[v] + 1
         /\ \A u \in People \ {v} : [rows EXCEPT ![v] = @ + 1][u] = rows[u]
OBVIOUS

LEMMA TailParts ==
  ASSUME NEW S, NEW s \in Seq(S), s # <<>>
  PROVE  /\ Head(s) = s[1] /\ 1 \in DOMAIN s
         /\ \A i \in DOMAIN Tail(s) : i + 1 \in DOMAIN s /\ Tail(s)[i] = s[i + 1] /\ i + 1 > 1
         /\ NoRepeats(s) => NoRepeats(Tail(s))
<1>1. Head(s) = s[1] /\ 1 \in DOMAIN s /\ DOMAIN s = 1..Len(s) /\ Len(s) \in Nat
  OBVIOUS
<1>2. Len(Tail(s)) = Len(s) - 1 /\ DOMAIN Tail(s) = 1..(Len(s) - 1)
  OBVIOUS
<1>3. \A i \in DOMAIN Tail(s) : i + 1 \in DOMAIN s /\ Tail(s)[i] = s[i + 1] /\ i + 1 > 1
  BY <1>1, <1>2
<1>4. ASSUME NoRepeats(s) PROVE NoRepeats(Tail(s))
  <2>1. \A i, j \in DOMAIN Tail(s) : Tail(s)[i] = Tail(s)[j] => i + 1 = j + 1
    BY <1>3, <1>4 DEF NoRepeats
  <2> QED BY <1>2, <2>1 DEF NoRepeats
<1> QED BY <1>1, <1>3, <1>4

\* A handler of an event stores as StoredAt says.
LEMMA HandleStores ==
  ASSUME FeedTypeOK, HandlerInv, Stored, NEW e \in Events, Handle(e) \/ Lose(e)
  PROVE  Stored'
<1> DEFINE r == event[e]
           q == event'[e]
           rows == row[e]
           new == row'[e]
<1>1. /\ Moved(r, q) /\ r.pc # "none"
      /\ \A f \in Events \ {e} : event'[f] = event[f] /\ row'[f] = row[f]
      /\ \/ Waits(r, rows, q, new) \/ Starts(r, rows, q, new)
         \/ Stores(r, rows, q, new) \/ NextOne(r, rows, q, new)
  BY HandleMoves
<1>2. /\ r.todo \in Seq(People) /\ rows \in [People -> Nat]
      /\ NotifyRecipients(r.aud) \in Seq(People)
      /\ r.pc \in {"create", "push", "notice"} => r.todo # <<>>
  BY EventTypes DEF FeedTypeOK, HandlerInv, HandlerAt
<1>3. StoredAt(r, rows)
  BY DEF Stored
<1> SUFFICES StoredAt(q, new)
  BY <1>1 DEF Stored
<1> HIDE DEF r, q, rows, new
<1>4. CASE Waits(r, rows, q, new)
  <2>1. /\ q.todo = r.todo /\ new = rows /\ q.aud = r.aud /\ q.pc # "none"
        /\ q.pc \in {"none", "sent", "state"} => r.pc \in {"none", "sent", "state"}
        /\ q.pc # "create"
        /\ q.pc \in {"push", "notice"} => r.pc \in {"push", "notice"}
    BY <1>4, <1>1 DEF Waits, Moved
  <2>2. /\ NoRepeats(NotifyRecipients(q.aud)) /\ NoRepeats(q.todo)
        /\ q.pc \in {"none", "sent", "state"} => q.todo = <<>> /\ \A u \in People : new[u] = 0
        /\ q.pc \in {"push", "notice"} => \A i \in DOMAIN q.todo : i > 1 => new[q.todo[i]] = 0
    BY <1>1, <1>3, <2>1 DEF StoredAt
  <2>3. /\ \A i \in DOMAIN q.todo : For(q.aud, q.todo[i])
        /\ \A u \in People : new[u] > 0 => For(q.aud, u)
        /\ \A u \in People : new[u] <= 1
    BY <1>3, <2>1 DEF StoredAt
  <2> QED BY <2>1, <2>2, <2>3 DEF StoredAt
<1>5. CASE Starts(r, rows, q, new)
  <2>1. \A u \in People : rows[u] = 0
    BY <1>3, <1>5 DEF StoredAt, Starts
  <2>2. \A i \in DOMAIN q.todo :
          q.todo[i] \in People /\ For(r.aud, q.todo[i])
    <3>1. CASE q.todo = <<>>
      BY <3>1
    <3>2. CASE r.aud.notify /\ q.todo = NotifyRecipients(r.aud)
      <4> SUFFICES ASSUME NEW i \in DOMAIN q.todo
                   PROVE  q.todo[i] \in People /\ For(r.aud, q.todo[i])
        OBVIOUS
      <4>1. q.todo \in Seq(People) /\ i \in 1..Len(q.todo) /\ q.todo[i] \in People
        BY <1>2, <3>2
      <4>2. Contains(q.todo, q.todo[i])
        BY <4>1 DEF Contains
      <4> QED BY <3>2, <4>1, <4>2 DEF For
    <3> QED BY <1>5, <3>1, <3>2 DEF Starts
  <2>3. NoRepeats(q.todo)
    BY <1>1, <1>3, <1>5 DEF Starts, StoredAt, NoRepeats
  <2>4. new = rows /\ q.aud = r.aud /\ q.pc \in {"create", "done"}
    BY <1>1, <1>5 DEF Starts, Moved
  <2>5. NoRepeats(NotifyRecipients(q.aud))
    BY <1>1, <1>3, <2>4 DEF StoredAt
  <2>6. \A u \in People : new[u] <= 1 /\ ~(new[u] > 0)
    <3> TAKE u \in People
    <3>1. new[u] = 0
      BY <2>1, <2>4
    <3> QED BY <3>1
  <2> QED BY <2>1, <2>2, <2>3, <2>4, <2>5, <2>6 DEF StoredAt
<1> DEFINE h == Head(r.todo)
<1>6. ASSUME r.pc \in {"create", "notice"}
      PROVE  /\ h = r.todo[1] /\ 1 \in DOMAIN r.todo /\ h \in People
             /\ \A i \in DOMAIN r.todo : r.todo[i] \in People /\ (i > 1 => r.todo[i] # h)
             /\ \A i \in DOMAIN Tail(r.todo) :
                  i + 1 \in DOMAIN r.todo /\ Tail(r.todo)[i] = r.todo[i + 1] /\ i + 1 > 1
             /\ NoRepeats(Tail(r.todo))
  <2>1. r.todo # <<>> /\ NoRepeats(r.todo)
    BY <1>2, <1>3, <1>6 DEF StoredAt
  <2>2. /\ h = r.todo[1] /\ 1 \in DOMAIN r.todo /\ NoRepeats(Tail(r.todo))
        /\ \A i \in DOMAIN Tail(r.todo) :
             i + 1 \in DOMAIN r.todo /\ Tail(r.todo)[i] = r.todo[i + 1] /\ i + 1 > 1
    BY <1>2, <2>1, TailParts
  <2>3. \A i \in DOMAIN r.todo : r.todo[i] \in People /\ (i > 1 => r.todo[i] # h)
    BY <1>2, <2>1, <2>2 DEF NoRepeats
  <2> QED BY <2>2, <2>3
<1> HIDE DEF h
\* With the row for the next user made, or not.
<1>7. ASSUME r.pc = "create", new = [rows EXCEPT ![h] = @ + 1]
      PROVE  /\ \A i \in DOMAIN r.todo : i > 1 => new[r.todo[i]] = 0
             /\ \A u \in People : new[u] <= 1
             /\ \A u \in People : new[u] > 0 => For(r.aud, u)
  <2>1. h \in People /\ new[h] = rows[h] + 1 /\ \A u \in People \ {h} : new[u] = rows[u]
    BY <1>2, <1>6, <1>7, Raised
  <2>2. rows[h] = 0 /\ For(r.aud, h)
    BY <1>3, <1>6, <1>7 DEF StoredAt
  <2>3. \A i \in DOMAIN r.todo : rows[r.todo[i]] = 0
    BY <1>3, <1>7 DEF StoredAt
  <2>4. \A i \in DOMAIN r.todo : i > 1 => new[r.todo[i]] = 0
    BY <1>6, <1>7, <2>1, <2>3
  <2>5. \A u \in People :
          rows[u] <= 1 /\ (rows[u] > 0 => For(r.aud, u))
    BY <1>3 DEF StoredAt
  <2> QED BY <2>1, <2>2, <2>4, <2>5
<1>8. CASE Stores(r, rows, q, new)
  <2>1. /\ r.pc = "create" /\ new = [rows EXCEPT ![h] = @ + 1] /\ q.pc = "push"
        /\ q.todo = r.todo /\ q.aud = r.aud
    BY <1>1, <1>8 DEF Stores, Moved, h
  <2> QED BY <1>3, <1>7, <2>1 DEF StoredAt
<1>9. CASE NextOne(r, rows, q, new)
  <2>1. /\ r.pc \in {"create", "notice"} /\ q.pc \in {"create", "done"}
        /\ q.todo = Tail(r.todo) /\ q.aud = r.aud
        /\ new = rows \/ (r.pc = "create" /\ new = [rows EXCEPT ![h] = @ + 1])
    BY <1>1, <1>9 DEF NextOne, Moved, h
  <2>2. /\ \A i \in DOMAIN r.todo : i > 1 => new[r.todo[i]] = 0
        /\ \A u \in People : new[u] <= 1
        /\ \A u \in People : new[u] > 0 => For(r.aud, u)
    <3>1. CASE new = rows
      BY <1>3, <2>1, <3>1 DEF StoredAt
    <3> QED BY <1>7, <2>1, <3>1
  <2>3. \A i \in DOMAIN r.todo : For(r.aud, r.todo[i])
    BY <1>3 DEF StoredAt
  <2>4. /\ NoRepeats(q.todo)
        /\ \A i \in DOMAIN q.todo :
             new[q.todo[i]] = 0 /\ For(r.aud, q.todo[i])
    BY <1>6, <2>1, <2>2, <2>3
  <2>5. NoRepeats(NotifyRecipients(r.aud))
    BY <1>1, <1>3 DEF StoredAt
  <2> QED BY <2>1, <2>2, <2>4, <2>5 DEF StoredAt
<1> QED BY <1>1, <1>4, <1>5, <1>8, <1>9

LEMMA StepStores ==
  ASSUME FeedTypeOK, HandlerInv, Stored,
         FeedStep \/ \E e \in Events, u \in People : MarkRead(e, u)
  PROVE  /\ Stored'
         /\ \A e \in Events :
              event'[e].aud = event[e].aud /\ (event'[e].pc = "none" <=> event[e].pc = "none")
<1>1. CASE \E e \in Events : Lose(e) \/ Handle(e)
  <2> PICK e \in Events : Lose(e) \/ Handle(e)
    BY <1>1
  <2>1. /\ Moved(event[e], event'[e]) /\ event[e].pc # "none"
        /\ \A f \in Events \ {e} : event'[f] = event[f]
    BY HandleMoves
  <2> QED BY <2>1, HandleStores DEF Moved
<1>2. CASE Restart
  <2>1. ASSUME NEW e \in Events
        PROVE  /\ event'[e].aud = event[e].aud /\ row'[e] = row[e]
               /\ event'[e].todo = event[e].todo \/ event'[e].todo = <<>>
               /\ event'[e].pc \in {"none", "sent", "done"}
               /\ event[e].pc = "none" <=> event'[e].pc = "none"
               /\ event'[e].pc \in {"none", "sent"} => event'[e] = event[e]
    <3>1. event[e] \in EventRec
      BY EventTypes
    <3> QED BY <1>2, <3>1 DEF Restart, EventRec
  <2>2. ASSUME NEW e \in Events PROVE StoredAt(event[e], row[e])'
    <3>1. StoredAt(event[e], row[e])
      BY DEF Stored
    <3>2. CASE event'[e] = event[e]
      BY <2>1, <3>1, <3>2
    <3>3. CASE event'[e].pc = "done" /\ event[e].pc # "none"
      <4>1. \A i \in DOMAIN event'[e].todo :
              /\ event'[e].todo = event[e].todo
              /\ For(event[e].aud, event[e].todo[i])
        BY <2>1, <3>1 DEF StoredAt
      <4>2. NoRepeats(event'[e].todo)
        BY <2>1, <3>1 DEF StoredAt, NoRepeats
      <4> QED BY <2>1, <3>1, <3>3, <4>1, <4>2 DEF StoredAt
    <3> QED BY <2>1, <3>2, <3>3
  <2> QED BY <2>1, <2>2 DEF Stored
<1>3. CASE UNCHANGED <<event, row>>
  BY <1>3 DEF Stored
<1>4. ASSUME NEW c \in Conns,
             Join(c) \/ Subscribe(c) \/ Deliver(c) \/ Leave(c) \/ Closing(c)
      PROVE  UNCHANGED <<event, row>>
  BY <1>4 DEF Join, Subscribe, Deliver, Leave, Closing, AskLock, Unsubscribe
<1>5. ASSUME NEW e \in Events, NEW u \in People, MarkRead(e, u) PROVE UNCHANGED <<event, row>>
  BY <1>5 DEF MarkRead
<1> QED BY <1>1, <1>2, <1>3, <1>4, <1>5 DEF FeedStep

\* An event with a fit audience is fired.
LEMMA FireStores ==
  ASSUME FeedTypeOK, Stored, NEW e \in Events, NEW aud, Fire(e, aud), UNCHANGED row,
         NoRepeats(NotifyRecipients(aud))
  PROVE  /\ Stored' /\ event[e].pc = "none"
         /\ event'[e].aud = aud /\ event'[e].pc # "none"
         /\ \A f \in Events \ {e} : event'[f] = event[f]
<1> DEFINE r == [event[e] EXCEPT !.pc = "sent", !.aud = aud]
<1>1. r.pc = "sent" /\ r.aud = aud /\ r.todo = event[e].todo
  <2>1. event[e] \in EventRec
    BY EventTypes
  <2> QED BY <2>1 DEF EventRec
<1>2. event[e].pc = "none" /\ Becomes(e, r)
  BY DEF Fire
<1> HIDE DEF r
<1>3. event'[e] = r /\ \A f \in Events \ {e} : event'[f] = event[f]
  BY <1>2, BecomesPc
<1>4. StoredAt(event[e], row[e])
  BY DEF Stored
<1>5. \A u \in People : row[e][u] = 0 /\ row[e][u] <= 1 /\ ~(row[e][u] > 0)
  BY <1>2, <1>4 DEF StoredAt
<1>6. StoredAt(r, row[e])
  <2>1. r.todo = <<>> /\ NoRepeats(r.todo)
    BY <1>1, <1>2, <1>4 DEF StoredAt
  <2>2. DOMAIN <<>> = {}
    OBVIOUS
  <2> QED BY <1>1, <1>5, <2>1, <2>2 DEF StoredAt
<1> QED BY <1>1, <1>2, <1>3, <1>6 DEF Stored

-----------------------------------------------------------------------------
(* Audiences.                                                              *)

LEMMA ThreeLegs == Cardinality(LegNames) = 3
<1>1. IsFiniteSet({"transport"}) /\ Cardinality({"transport"}) = 1
  BY FS_Singleton
<1>2. /\ IsFiniteSet({"transport"} \cup {"equipment"})
      /\ Cardinality({"transport"} \cup {"equipment"}) = 2
  BY <1>1, FS_AddElement
<1>3. Cardinality({"transport"} \cup {"equipment"} \cup {"labor"}) = 3
  BY <1>2, FS_AddElement
<1>4. LegNames = {"transport"} \cup {"equipment"} \cup {"labor"}
  BY DEF LegNames
<1> QED BY <1>3, <1>4

\* The executors of an order are users, three at most.
LEMMA PayeesOf ==
  ASSUME NEW ls \in Orders
  PROVE  payees(ls) \in Seq(People) /\ Len(payees(ls)) <= 3
<1> DEFINE who == ExecutorsOf(ls)
           I == {i \in Firsts(who) : who[i] # Unassigned}
<1>1. who \in [1..3 -> People \cup {Unassigned}]
  <2>1. \A l \in DOMAIN ls : ls[l].executor \in People \cup {Unassigned}
    <3>1. \A l \in DOMAIN ls : ls[l] \in LegTable
      BY DEF Orders
    <3> QED BY <3>1 DEF LegTable
  <2> QED BY <2>1 DEF ExecutorsOf
<1>2. who \in Seq(People \cup {Unassigned}) /\ Len(who) = 3 /\ DOMAIN who = 1..3
  <2> HIDE DEF who
  <2>1. PICK n \in Nat : n = 3
    OBVIOUS
  <2>2. who \in [1..n -> People \cup {Unassigned}]
    BY <1>1, <2>1
  <2>3. who \in Seq(People \cup {Unassigned}) /\ Len(who) = n /\ DOMAIN who = 1..n
    BY <2>2
  <2> QED BY <2>1, <2>3
<1>3. I \in SUBSET (DOMAIN who) /\ \A i \in I : who[i] \in People
  <2> HIDE DEF who
  <2> QED BY <1>1, <1>2 DEF Firsts
<1>4. payees(ls) = Kept(who, I)
  BY DEF payees
<1> HIDE DEF who, I
<1>5. payees(ls) \in Seq({who[i] : i \in I}) /\ Len(payees(ls)) <= Len(who)
  BY <1>2, <1>3, <1>4, KeptParts
<1>6. {who[i] : i \in I} \subseteq People
  BY <1>3
<1> QED BY <1>2, <1>5, <1>6

LEMMA ParticipantsOf ==
  ASSUME NEW ls \in Orders
  PROVE  /\ participants(ls) \in Seq(People) /\ participants(ls) # <<>>
         /\ Head(participants(ls)) = Client /\ Tail(participants(ls)) = payees(ls)
<1>1. Client \in People /\ payees(ls) \in Seq(People)
  BY PayeesOf, NewsAssumption
<1>2. <<Client>> \in Seq(People) /\ Len(<<Client>>) = 1 /\ <<Client>>[1] = Client
  BY <1>1
<1> DEFINE s == participants(ls)
           t == payees(ls)
<1> HIDE DEF t
<1>3. s = <<Client>> \o t
  BY DEF participants, t
<1> HIDE DEF s
<1>4. /\ s \in Seq(People) /\ Len(s) = 1 + Len(t) /\ s[1] = Client
      /\ \A i \in 1..Len(t) : s[i + 1] = t[i]
  BY <1>1, <1>2, <1>3 DEF t
<1>5. t \in Seq(People)
  BY <1>1 DEF t
<1>6. Tail(s) = t
  <2>1. Tail(s) \in Seq(People) /\ Len(Tail(s)) = Len(t) /\ s # <<>>
    BY <1>4, <1>5
  <2>2. \A i \in 1..Len(t) : Tail(s)[i] = t[i]
    BY <1>4, <1>5, <2>1
  <2> QED BY <1>5, <2>1, <2>2, SeqEqual
<1>7. s # <<>> /\ Head(s) = Client
  BY <1>4, <1>5
<1> QED BY <1>4, <1>6, <1>7 DEF s, t

\* Whoever acts is no counterparty, and is alone if there is none.
LEMMA CounterpartiesOf ==
  ASSUME NEW known \in Seq(People), NEW actor
  PROVE  /\ counterparties(known, actor) \in Seq(People)
         /\ \A k \in DOMAIN counterparties(known, actor) : counterparties(known, actor)[k] # actor
         /\ counterparties(known, actor) = <<>> => \A i \in DOMAIN known : known[i] = actor
<1> DEFINE I == {i \in DOMAIN known : known[i] # actor}
           t == counterparties(known, actor)
<1>1. t = Kept(known, I) /\ I \in SUBSET (DOMAIN known)
  BY DEF counterparties
<1>2. {known[i] : i \in I} \subseteq People
  OBVIOUS
<1> HIDE DEF t
<1>3. t \in Seq({known[i] : i \in I}) /\ (I # {} => t # <<>>)
  <2> HIDE DEF I
  <2> QED BY <1>1, KeptParts
<1>4. \A k \in DOMAIN t : t[k] \in {known[i] : i \in I}
  BY <1>3
<1>5. t \in Seq(People)
  BY <1>2, <1>3
<1> QED BY <1>3, <1>4, <1>5 DEF t

\* What emitTo sends, and whom that notifies.
LEMMA Addressed ==
  ASSUME NEW users \in Seq(People), NEW notify \in BOOLEAN, NEW only \in Seq(People)
  PROVE  /\ To(users, notify, only) \in Audience
         /\ NoRepeats(NotifyRecipients(To(users, notify, only)))
         /\ users # <<>> => Contains(To(users, notify, only).users, Head(users))
<1> DEFINE a == dedupe(users)
           b == dedupe(only)
           aud == To(users, notify, only)
<1>1. /\ a \in Seq(People) /\ NoRepeats(a)
      /\ users # <<>> => \E k \in DOMAIN a : a[k] = users[1]
  BY Deduped
<1>2. b \in Seq(People) /\ NoRepeats(b)
  BY Deduped
<1>3. aud = [users |-> a, notify |-> notify, only |-> b]
  BY DEF To
<1> HIDE DEF a, b, aud
<1>4. aud \in Audience /\ aud.users = a /\ aud.only = b
  BY <1>1, <1>2, <1>3 DEF Audience
<1>5. NotifyRecipients(aud) = IF b # <<>> THEN b ELSE a
  BY <1>4 DEF NotifyRecipients
<1>6. users # <<>> => Contains(a, Head(users))
  BY <1>1 DEF Contains
<1> QED BY <1>1, <1>2, <1>4, <1>5, <1>6 DEF aud

LEMMA AddressedOnly ==
  ASSUME NEW users \in Seq(People), NEW only \in Seq(People), NEW u,
         For(To(users, TRUE, only), u)
  PROVE  /\ only # <<>> => \E i \in DOMAIN only : only[i] = u
         /\ only = <<>> => \E i \in DOMAIN users : users[i] = u
<1> DEFINE a == dedupe(users)
           b == dedupe(only)
<1>1. a \in Seq(People) /\ \A k \in DOMAIN a : \E i \in DOMAIN users : users[i] = a[k]
  BY Deduped
<1>2. /\ b \in Seq(People) /\ (only # <<>> => b # <<>>)
      /\ \A k \in DOMAIN b : \E i \in DOMAIN only : only[i] = b[k]
  BY Deduped
<1>3. Contains(IF b # <<>> THEN b ELSE a, u)
  BY DEF For, To, NotifyRecipients
<1> HIDE DEF a, b
<1>4. only = <<>> => b = <<>>
  <2>1. ASSUME only = <<>>, b # <<>> PROVE FALSE
    <3>1. 1 \in DOMAIN b /\ DOMAIN only = {}
      BY <1>2, <2>1
    <3> QED BY <1>2, <3>1
  <2> QED BY <2>1
<1>5. CASE only # <<>>
  <2>1. Contains(b, u)
    BY <1>2, <1>3, <1>5
  <2> QED BY <1>2, <1>5, <2>1 DEF Contains
<1>6. CASE only = <<>>
  <2>1. Contains(a, u)
    BY <1>3, <1>4, <1>6
  <2> QED BY <1>1, <1>6, <2>1 DEF Contains
<1> QED BY <1>5, <1>6

LEMMA AddressedNone ==
  ASSUME NEW users, NEW only, NEW u
  PROVE  ~For(To(users, FALSE, only), u)
BY DEF For, To

-----------------------------------------------------------------------------
(* The requests.                                                           *)

\* Whoever acted in r may be told by it: what ActorToldOnlyAlone allows.
OwnNews(r) ==
  IF r.op = "confirm" THEN Contains(Tail(r.snapshot), r.actor)
  ELSE /\ r.actor = Client
       /\ r.op = "cancel" => counterparties(r.snapshot, Client) = <<>>

\* What a request holds at each statement; owed and n leave it an event for each
\* payee still to be told and one for the order.
DeskAt(r) ==
  /\ r.pc = "idle" => r = Vacant
  /\ r.pc # "idle" => r.op # "none" /\ r.actor \in People
  /\ r.pc \in {"claim", "open", "rollback", "tellTx"} => r.op = "accept"
  /\ r.pc = "write" => r.op \in {"status", "cancel", "confirm"}
  /\ r.pc = "refund" => r.op = "cancel"
  /\ r.pc = "pay" => r.op = "confirm"
  /\ r.op \in {"cancel", "confirm"} => r.snapshot # <<>> /\ Head(r.snapshot) = Client
  /\ \A i \in DOMAIN r.owed : Contains(Tail(r.snapshot), r.owed[i])
  /\ r.pc \notin {"tellTx", "over"} => r.n + Len(r.owed) <= 3
  /\ r.op # "confirm" /\ r.pc \notin {"tellTx", "over"} => r.n = 0
  /\ r.pc = "tellTx" => r.n = 1
  /\ r.pc \in {"idle", "claim", "write"} => r.mine = 0
  /\ r.pc = "tell" => r.mine <= r.seen

\* Work on a request goes on for the same actor.
SameWork(r, q) ==
  q.op = r.op /\ q.actor = r.actor /\ q.snapshot = r.snapshot /\ q.n >= r.n

\* An edition of the request is told of later, or given up.
Excused(r, q, lost) == r.pc # "over" => r.mine = 0 \/ (q.mine = r.mine /\ q.pc # "over") \/ r.mine \in lost

\* A step of request d that fires nothing, and one that fires an event about the
\* edition ed.
Quiet(d, q) ==
  /\ UNCHANGED <<feedVars, told>> /\ desk' = [desk EXCEPT ![d] = q]
  /\ q \in DeskRec /\ DeskAt(q) /\ q.pc # "tellTx"
  /\ desk[d].op = "none" \/ SameWork(desk[d], q)
  /\ legs' \in Orders /\ unheard \subseteq unheard' /\ unheard' \subseteq Nat
  /\ edition' \in {edition, edition + 1} /\ q.mine <= edition'
  /\ edition' # edition => (q.mine = edition' /\ q.pc # "over") \/ edition' \in unheard'
  /\ Excused(desk[d], q, unheard')

Telling(d, q, aud, ed) ==
  /\ <<d, q.n>> \in Events /\ Fire(<<d, q.n>>, aud)
  /\ UNCHANGED <<subs, chan, conn, row, read, legs, edition, unheard>>
  /\ told' = [told EXCEPT ![<<d, q.n>>] = ed] /\ desk' = [desk EXCEPT ![d] = q]
  /\ q \in DeskRec /\ DeskAt(q) /\ SameWork(desk[d], q) /\ desk[d].op # "none"
  /\ aud \in Audience /\ NoRepeats(NotifyRecipients(aud))
  /\ For(aud, q.actor) => OwnNews(q)
  /\ ed \in Nat /\ (ed > 0 => Contains(aud.users, Client))
  /\ q.mine = desk[d].mine
  /\ q.pc = "over" => desk[d].pc = "tellTx" \/ ed >= q.mine
  /\ q.pc = "tellTx" => ed >= q.mine

LEMMA DeskType ==
  ASSUME NewsTypeOK, NEW d \in Desks
  PROVE  /\ desk[d] \in DeskRec /\ DOMAIN desk = Desks
         /\ \A q : [desk EXCEPT ![d] = q][d] = q
         /\ \A q, c \in Desks \ {d} : [desk EXCEPT ![d] = q][c] = desk[c]
BY DEF NewsTypeOK

LEMMA VacantType == Vacant \in DeskRec
BY DEF Vacant, DeskRec, Statuses

\* A request whose pc alone changes.
LEMMA PcOnly ==
  ASSUME NEW r \in DeskRec, NEW pc
  PROVE  /\ [r EXCEPT !.pc = pc].op = r.op /\ [r EXCEPT !.pc = pc].pc = pc
         /\ [r EXCEPT !.pc = pc].leg = r.leg /\ [r EXCEPT !.pc = pc].actor = r.actor
         /\ [r EXCEPT !.pc = pc].snapshot = r.snapshot /\ [r EXCEPT !.pc = pc].owed = r.owed
         /\ [r EXCEPT !.pc = pc].mine = r.mine /\ [r EXCEPT !.pc = pc].seen = r.seen
         /\ [r EXCEPT !.pc = pc].n = r.n
         /\ pc \in {"claim", "open", "rollback", "write", "refund", "pay", "reload", "tell",
                    "tellTx", "over"} => [r EXCEPT !.pc = pc] \in DeskRec
BY DEF DeskRec

\* What holds of the requests.
DesksOK == \A d \in Desks : DeskAt(desk[d]) /\ desk[d].mine <= edition

\* A step that only moves on.
LEMMA GoQuiet ==
  ASSUME NewsTypeOK, DesksOK, NEW d \in Desks, NEW pc, Go(d, pc),
         UNCHANGED <<feedVars, legs, edition, told>>,
         unheard \subseteq unheard', unheard' \subseteq Nat,
         desk[d].pc \notin {"idle", "over"}, desk[d].pc = "tellTx" => pc = "over",
         \/ pc = "over" /\ (desk[d].mine = 0 \/ desk[d].mine \in unheard')
         \/ pc = "rollback" /\ desk[d].op = "accept"
         \/ pc = "reload"
  PROVE  \E q : Quiet(d, q)
<1> DEFINE r == desk[d]
           q == [r EXCEPT !.pc = pc]
<1>1. r \in DeskRec /\ DeskAt(r) /\ r.mine <= edition /\ edition \in Nat /\ legs \in Orders
  BY DeskType DEF DesksOK, NewsTypeOK
<1>2. desk' = [desk EXCEPT ![d] = q]
  BY DEF Go
<1>3. /\ q.op = r.op /\ q.pc = pc /\ q.actor = r.actor /\ q.snapshot = r.snapshot
      /\ q.owed = r.owed /\ q.mine = r.mine /\ q.n = r.n /\ q \in DeskRec
  BY <1>1, PcOnly
<1> HIDE DEF r, q
<1>4. r.n \in Nat /\ r.mine \in Nat
  BY <1>1 DEF DeskRec
<1>5. DeskAt(q)
  BY <1>1, <1>3 DEF DeskAt, r
<1>6. SameWork(r, q) /\ Excused(r, q, unheard') /\ q.pc # "tellTx"
  BY <1>3, <1>4 DEF SameWork, Excused, r
<1> QED BY <1>1, <1>2, <1>3, <1>5, <1>6 DEF Quiet, r

\* A request that comes in.
LEMMA OpenQuiet ==
  ASSUME NewsTypeOK, DesksOK, NEW d \in Desks, NEW q \in DeskRec, Open(d, q),
         DeskAt(q), q.pc \in {"claim", "write"}
  PROVE  Quiet(d, q)
<1>1. desk[d] = Vacant /\ desk' = [desk EXCEPT ![d] = q] /\ q.mine = 0
      /\ UNCHANGED <<feedVars, legs, edition, told, unheard>>
  BY DEF Open, DeskAt
<1>2. desk[d].op = "none" /\ Excused(desk[d], q, unheard')
  BY <1>1 DEF Vacant, Excused
<1>3. legs \in Orders /\ edition \in Nat /\ unheard \subseteq Nat
  BY DEF NewsTypeOK
<1> QED BY <1>1, <1>2, <1>3 DEF Quiet

LEMMA LoadsQuiet ==
  ASSUME NewsTypeOK, DesksOK, NEW d \in Desks,
         \/ \E l \in LegNames, u \in Executors : AcceptLoad(d, l, u)
         \/ \E l \in LegNames, u \in People, to \in Moves : StatusLoad(d, l, u, to)
         \/ \E u \in People : CancelLoad(d, u) \/ ConfirmLoad(d, u)
  PROVE  \E q : Quiet(d, q)
<1>1. /\ legs \in Orders /\ Executors \subseteq People /\ Moves \subseteq Statuses
      /\ \A i \in DOMAIN <<>> : FALSE
  BY NewsAssumption DEF NewsTypeOK
<1>2. /\ participants(legs) \in Seq(People) /\ participants(legs) # <<>>
      /\ Head(participants(legs)) = Client /\ Tail(participants(legs)) = payees(legs)
      /\ payees(legs) \in Seq(People) /\ Len(payees(legs)) <= 3
  BY <1>1, ParticipantsOf, PayeesOf
<1>3. ASSUME NEW l \in LegNames, NEW u \in Executors, AcceptLoad(d, l, u)
      PROVE  \E q : Quiet(d, q)
  <2> DEFINE q == [Vacant EXCEPT !.op = "accept", !.pc = "claim", !.leg = l, !.actor = u]
  <2>1. Open(d, q)
    BY <1>3 DEF AcceptLoad
  <2>2. /\ q.op = "accept" /\ q.pc = "claim" /\ q.actor = u /\ q.owed = <<>> /\ q.mine = 0
        /\ q.n = 0 /\ q \in DeskRec
    BY <1>1, VacantType DEF Vacant, DeskRec
  <2> HIDE DEF q
  <2>3. DeskAt(q)
    BY <1>1, <2>2 DEF DeskAt
  <2> QED BY <2>1, <2>2, <2>3, OpenQuiet
<1>4. ASSUME NEW l \in LegNames, NEW u \in People, NEW to \in Moves, StatusLoad(d, l, u, to)
      PROVE  \E q : Quiet(d, q)
  <2> DEFINE q == [Vacant EXCEPT !.op = "status", !.pc = "write", !.leg = l, !.actor = u, !.to = to]
  <2>1. Open(d, q)
    BY <1>4 DEF StatusLoad
  <2>2. /\ q.op = "status" /\ q.pc = "write" /\ q.actor = u /\ q.owed = <<>> /\ q.mine = 0
        /\ q.n = 0 /\ q \in DeskRec
    BY <1>1, VacantType DEF Vacant, DeskRec
  <2> HIDE DEF q
  <2>3. DeskAt(q)
    BY <1>1, <2>2 DEF DeskAt
  <2> QED BY <2>1, <2>2, <2>3, OpenQuiet
<1>5. ASSUME NEW u \in People, CancelLoad(d, u) PROVE \E q : Quiet(d, q)
  <2> DEFINE s == participants(legs)
             q == [Vacant EXCEPT !.op = "cancel", !.pc = "write", !.actor = u, !.to = "cancelled",
                                 !.snapshot = s]
  <2>1. Open(d, q)
    BY <1>5 DEF CancelLoad
  <2> HIDE DEF s
  <2>2. /\ q.op = "cancel" /\ q.pc = "write" /\ q.actor = u /\ q.owed = <<>> /\ q.mine = 0
        /\ q.n = 0 /\ q.snapshot = s /\ q \in DeskRec
    BY <1>2, VacantType DEF Vacant, DeskRec, Statuses, s
  <2> HIDE DEF q
  <2>3. DeskAt(q)
    BY <1>1, <1>2, <2>2 DEF DeskAt, s
  <2> QED BY <2>1, <2>2, <2>3, OpenQuiet
<1>6. ASSUME NEW u \in People, ConfirmLoad(d, u) PROVE \E q : Quiet(d, q)
  <2> DEFINE s == participants(legs)
             t == payees(legs)
             q == [Vacant EXCEPT !.op = "confirm", !.pc = "write", !.actor = u, !.to = "completed",
                                 !.snapshot = s, !.owed = t]
  <2>1. Open(d, q)
    BY <1>6 DEF ConfirmLoad
  <2> HIDE DEF s, t
  <2>2. /\ q.op = "confirm" /\ q.pc = "write" /\ q.actor = u /\ q.owed = t /\ q.mine = 0
        /\ q.n = 0 /\ q.snapshot = s /\ q \in DeskRec
    BY <1>2, VacantType DEF Vacant, DeskRec, Statuses, s, t
  <2> HIDE DEF q
  <2>3. \A i \in DOMAIN t : Contains(Tail(s), t[i])
    BY <1>2 DEF Contains, s, t
  <2>4. DeskAt(q)
    BY <1>2, <2>2, <2>3 DEF DeskAt, s, t
  <2> QED BY <2>1, <2>2, <2>4, OpenQuiet
<1> QED BY <1>3, <1>4, <1>5, <1>6

\* A step that writes the order.
LEMMA WriteQuiet ==
  ASSUME NewsTypeOK, DesksOK, NEW d \in Desks, NEW ls \in Orders, NEW pc, Write(d, ls, pc),
         unheard \subseteq unheard', unheard' \subseteq Nat,
         \/ desk[d].pc = "claim" /\ pc = "open"
         \/ desk[d].pc = "write" /\ desk[d].op = "status" /\ pc = "reload"
         \/ desk[d].pc = "write" /\ desk[d].op = "cancel" /\ pc = "refund"
         \/ desk[d].pc = "write" /\ desk[d].op = "confirm" /\ pc = "pay"
         \/ desk[d].pc = "rollback" /\ pc = "over" /\ {desk[d].mine, edition + 1} \subseteq unheard'
  PROVE  \E q : Quiet(d, q)
<1> DEFINE r == desk[d]
<1>1. r \in DeskRec /\ DeskAt(r) /\ r.mine <= edition /\ edition \in Nat
  BY DeskType DEF DesksOK, NewsTypeOK
<1>2. PICK q \in DeskRec :
        /\ q = [r EXCEPT !.pc = pc, !.mine = edition + 1]
        /\ q.op = r.op /\ q.pc = pc /\ q.actor = r.actor /\ q.snapshot = r.snapshot
        /\ q.owed = r.owed /\ q.mine = edition + 1 /\ q.n = r.n
  <2> DEFINE m == edition + 1
             q == [r EXCEPT !.pc = pc, !.mine = m]
  <2>1. pc \in {"open", "reload", "refund", "pay", "over"} /\ m \in Nat
    BY <1>1
  <2> HIDE DEF r, m
  <2>2. q.op = r.op /\ q.pc = pc /\ q.actor = r.actor /\ q.snapshot = r.snapshot
        /\ q.owed = r.owed /\ q.mine = m /\ q.n = r.n
    BY <1>1 DEF DeskRec
  <2>3. q \in DeskRec
    BY <1>1, <2>1 DEF DeskRec
  <2> HIDE DEF q
  <2>4. q = [r EXCEPT !.pc = pc, !.mine = m]
    BY DEF q
  <2> QED BY <2>2, <2>3, <2>4 DEF m
<1>3. desk' = [desk EXCEPT ![d] = q] /\ legs' = ls /\ edition' = edition + 1
      /\ UNCHANGED <<feedVars, told>>
  BY <1>2 DEF Write
<1> HIDE DEF r
<1>4. r.n \in Nat /\ r.mine \in Nat
  BY <1>1 DEF DeskRec
<1>5. DeskAt(q)
  BY <1>1, <1>2 DEF DeskAt, r
<1>6. SameWork(r, q) /\ q.pc # "tellTx"
  BY <1>2, <1>4 DEF SameWork, r
<1>7. Excused(r, q, unheard')
  BY <1>1 DEF Excused, DeskAt, r
<1>8. (q.mine = edition' /\ q.pc # "over") \/ edition' \in unheard'
  BY <1>2, <1>3
<1>9. edition' \in {edition, edition + 1} /\ q.mine <= edition' /\ legs' \in Orders
  BY <1>1, <1>2, <1>3
<1>10. Quiet(d, q)
  BY <1>2, <1>3, <1>5, <1>6, <1>7, <1>8, <1>9 DEF Quiet, r
<1> QED BY <1>10

LEMMA LegWritten ==
  ASSUME NEW ls \in Orders, NEW l, NEW x \in LegTable
  PROVE  [ls EXCEPT ![l] = x] \in Orders
<1>1. PICK D \in (SUBSET LegNames) \ {{}} : ls \in [D -> LegTable]
  BY DEF Orders
<1>2. [ls EXCEPT ![l] = x] \in [D -> LegTable]
  BY <1>1
<1> QED BY <1>1, <1>2 DEF Orders

LEMMA WritesQuiet ==
  ASSUME NewsTypeOK, DesksOK, NEW d \in Desks,
         ClaimLeg(d) \/ ReleaseLegClaim(d) \/ WriteStatus(d)
  PROVE  \E q : Quiet(d, q)
<1> DEFINE r == desk[d]
<1>1. r \in DeskRec /\ DeskAt(r) /\ legs \in Orders /\ edition \in Nat /\ unheard \subseteq Nat
      /\ r.mine \in Nat
  BY DeskType DEF DesksOK, NewsTypeOK, DeskRec
<1>2. CASE ClaimLeg(d)
  <2>1. CASE Go(d, "over") /\ UNCHANGED <<feedVars, legs, edition, told, unheard>>
    BY <1>1, <1>2, <2>1, GoQuiet DEF ClaimLeg, Is, DeskAt
  <2> DEFINE x == [status |-> "accepted", executor |-> r.actor]
  <2>2. x \in LegTable
    BY <1>1, <1>2 DEF ClaimLeg, Is, DeskAt, LegTable, Statuses
  <2>3. [legs EXCEPT ![r.leg] = x] \in Orders
    BY <1>1, <2>2, LegWritten
  <2>4. CASE Write(d, [legs EXCEPT ![r.leg] = x], "open") /\ UNCHANGED unheard
    BY <1>1, <1>2, <2>3, <2>4, WriteQuiet DEF ClaimLeg, Is
  <2> QED BY <1>2, <2>1, <2>4 DEF ClaimLeg
<1>3. CASE ReleaseLegClaim(d)
  <2> DEFINE x == [status |-> "published", executor |-> Unassigned]
  <2>1. x \in LegTable
    BY DEF LegTable, Statuses
  <2>2. [legs EXCEPT ![r.leg] = x] \in Orders
    BY <1>1, <2>1, LegWritten
  <2>3. Write(d, [legs EXCEPT ![r.leg] = x], "over")
        /\ unheard' = unheard \cup {r.mine, edition + 1} /\ r.pc = "rollback"
    BY <1>3 DEF ReleaseLegClaim, Is
  <2>4. unheard \subseteq unheard' /\ unheard' \subseteq Nat
        /\ {r.mine, edition + 1} \subseteq unheard'
    BY <1>1, <2>3
  <2> QED BY <2>2, <2>3, <2>4, WriteQuiet
<1>4. CASE WriteStatus(d)
  <2> DEFINE which == IF r.op = "status" THEN {r.leg} ELSE DOMAIN legs
             ls == [l \in DOMAIN legs |-> IF l \in which THEN [legs[l] EXCEPT !.status = r.to]
                                          ELSE legs[l]]
             pc == CASE r.op = "status" -> "reload" [] r.op = "cancel" -> "refund" [] OTHER -> "pay"
  <2>1. PICK D \in (SUBSET LegNames) \ {{}} : legs \in [D -> LegTable]
    BY <1>1 DEF Orders
  <2>2. \A l \in D : legs[l] \in LegTable /\ [legs[l] EXCEPT !.status = r.to] \in LegTable
    BY <1>1, <2>1, ZenonT(60) DEF LegTable, DeskRec
  <2>3. ls \in [D -> LegTable]
    <3> HIDE DEF which
    <3> QED BY <2>1, <2>2
  <2>4. ls \in Orders
    BY <2>1, <2>3 DEF Orders
  <2>5. Write(d, ls, pc) /\ UNCHANGED unheard /\ r.pc = "write"
    BY <1>4 DEF WriteStatus, Is
  <2> HIDE DEF ls
  <2>6. r.op \in {"status", "cancel", "confirm"}
    BY <1>1, <2>5 DEF DeskAt
  <2>7. CASE r.op = "status"
    BY <1>1, <2>4, <2>5, <2>7, WriteQuiet
  <2>8. CASE r.op = "cancel"
    BY <1>1, <2>4, <2>5, <2>8, WriteQuiet
  <2>9. CASE r.op = "confirm"
    BY <1>1, <2>4, <2>5, <2>9, WriteQuiet
  <2> QED BY <2>6, <2>7, <2>8, <2>9
<1> QED BY <1>2, <1>3, <1>4

\* The steps that neither read nor write the order.
LEMMA GoesQuiet ==
  ASSUME NewsTypeOK, DesksOK, NEW d \in Desks,
         EscrowAnswer(d) \/ Refunded(d) \/ PayEnd(d) \/ DeskFail(d)
  PROVE  \E q : Quiet(d, q)
<1>1. unheard \subseteq Nat /\ desk[d] \in DeskRec /\ DeskAt(desk[d]) /\ desk[d].mine \in Nat
  BY DeskType DEF NewsTypeOK, DesksOK, DeskRec
<1>2. CASE EscrowAnswer(d)
  BY <1>1, <1>2, GoQuiet DEF EscrowAnswer, Is, DeskAt
<1>3. CASE Refunded(d)
  BY <1>1, <1>3, GoQuiet DEF Refunded, Is
<1>4. CASE PayEnd(d)
  BY <1>1, <1>4, GoQuiet DEF PayEnd, Is
<1>5. CASE DeskFail(d)
  <2>1. /\ Go(d, "over") /\ UNCHANGED <<feedVars, legs, edition, told>>
        /\ unheard' = unheard \cup ({desk[d].mine} \ {0}) /\ desk[d].pc \notin {"idle", "over"}
    BY <1>5 DEF DeskFail
  <2>2. /\ unheard \subseteq unheard' /\ unheard' \subseteq Nat
        /\ desk[d].mine = 0 \/ desk[d].mine \in unheard'
    BY <1>1, <2>1
  <2> QED BY <1>5, <2>1, <2>2, GoQuiet
<1> QED BY <1>2, <1>3, <1>4, <1>5

\* The order is read back.
LEMMA ReloadQuiet ==
  ASSUME NewsTypeOK, DesksOK, NEW d \in Desks, Reload(d)
  PROVE  \E q : Quiet(d, q)
<1> DEFINE r == desk[d]
           q == [r EXCEPT !.pc = "tell", !.seen = edition]
<1>1. r \in DeskRec /\ DeskAt(r) /\ r.mine <= edition /\ edition \in Nat /\ legs \in Orders
      /\ unheard \subseteq Nat
  BY DeskType DEF DesksOK, NewsTypeOK
<1>2. r.pc = "reload" /\ desk' = [desk EXCEPT ![d] = q]
      /\ UNCHANGED <<feedVars, legs, edition, told, unheard>>
  BY DEF Reload, Is
<1>3. /\ q.op = r.op /\ q.pc = "tell" /\ q.actor = r.actor /\ q.snapshot = r.snapshot
      /\ q.owed = r.owed /\ q.mine = r.mine /\ q.seen = edition /\ q.n = r.n
  BY <1>1 DEF DeskRec
<1>4. q \in DeskRec
  BY <1>1 DEF DeskRec
<1> HIDE DEF r, q
<1>5. r.n \in Nat /\ r.mine \in Nat
  BY <1>1 DEF DeskRec
<1>6. DeskAt(q)
  BY <1>1, <1>2, <1>3 DEF DeskAt
<1>7. SameWork(r, q) /\ Excused(r, q, unheard')
  BY <1>3, <1>5 DEF SameWork, Excused
<1>8. Quiet(d, q)
  BY <1>1, <1>2, <1>3, <1>4, <1>5, <1>6, <1>7 DEF Quiet, r
<1> QED BY <1>8

\* The news of an order reaches the client, and whoever acted only as far as
\* OwnNews says.
LEMMA NewsReach ==
  ASSUME NEW r \in DeskRec, DeskAt(r), r.pc = "tell"
  PROVE  /\ NewsFor(r) \in Audience /\ NoRepeats(NotifyRecipients(NewsFor(r)))
         /\ Contains(NewsFor(r).users, Client)
         /\ For(NewsFor(r), r.actor) => OwnNews(r)
<1>1. /\ r.actor \in People /\ Client \in People /\ r.op # "none" /\ r.snapshot \in Seq(People)
      /\ r.op \in {"accept", "status", "cancel", "confirm"} /\ <<>> \in Seq(People)
  BY NewsAssumption DEF DeskAt, DeskRec
<1>2. CASE r.op \in {"accept", "status"}
  <2> DEFINE s == <<Client, r.actor>>
             t == <<Client>>
  <2>1. s \in Seq(People) /\ s # <<>> /\ Head(s) = Client
    BY <1>1
  <2>2. t \in Seq(People) /\ t # <<>> /\ \A i \in DOMAIN t : t[i] = Client
    BY <1>1
  <2>3. NewsFor(r) = To(s, TRUE, t)
    BY <1>2 DEF NewsFor
  <2> HIDE DEF s, t
  <2>4. /\ NewsFor(r) \in Audience /\ NoRepeats(NotifyRecipients(NewsFor(r)))
        /\ Contains(NewsFor(r).users, Client)
    BY <2>1, <2>2, <2>3, Addressed
  <2>5. ASSUME For(NewsFor(r), r.actor) PROVE \E i \in DOMAIN t : t[i] = r.actor
    <3>1. For(To(s, TRUE, t), r.actor)
      BY <2>3, <2>5
    <3> QED BY <2>1, <2>2, <3>1, AddressedOnly
  <2> QED BY <1>2, <2>2, <2>4, <2>5 DEF OwnNews
<1>3. CASE r.op = "cancel"
  <2> DEFINE s == r.snapshot
             t == counterparties(s, r.actor)
  <2>1. s \in Seq(People) /\ s # <<>> /\ Head(s) = Client
    BY <1>1, <1>3 DEF DeskAt
  <2>2. 1 \in DOMAIN s /\ s[1] = Client
    BY <2>1
  <2>3. NewsFor(r) = To(s, TRUE, t)
    BY <1>3 DEF NewsFor
  <2> HIDE DEF s
  <2>4. /\ t \in Seq(People) /\ \A i \in DOMAIN t : t[i] # r.actor
        /\ t = <<>> => \A i \in DOMAIN s : s[i] = r.actor
    BY <2>1, CounterpartiesOf
  <2>5. t = <<>> => r.actor = Client /\ counterparties(s, Client) = <<>>
    BY <2>2, <2>4
  <2> HIDE DEF t
  <2>6. /\ NewsFor(r) \in Audience /\ NoRepeats(NotifyRecipients(NewsFor(r)))
        /\ Contains(NewsFor(r).users, Client)
    BY <2>1, <2>3, <2>4, Addressed
  <2>7. ASSUME For(NewsFor(r), r.actor), t # <<>> PROVE FALSE
    <3>1. For(To(s, TRUE, t), r.actor)
      BY <2>3, <2>7
    <3>2. s \in Seq(People) /\ t \in Seq(People) /\ t # <<>>
      BY <2>1, <2>4, <2>7
    <3>3. \E i \in DOMAIN t : t[i] = r.actor
      BY <3>1, <3>2, AddressedOnly, ZenonT(60)
    <3> QED BY <2>4, <3>3
  <2> QED BY <1>3, <2>5, <2>6, <2>7 DEF OwnNews, s
<1>4. CASE r.op = "confirm"
  <2> DEFINE s == r.snapshot
             t == <<>>
  <2>1. s \in Seq(People) /\ s # <<>> /\ Head(s) = Client /\ t \in Seq(People)
    BY <1>1, <1>4 DEF DeskAt
  <2>2. NewsFor(r) = To(s, FALSE, t)
    BY <1>4 DEF NewsFor
  <2> HIDE DEF s, t
  <2>3. /\ NewsFor(r) \in Audience /\ NoRepeats(NotifyRecipients(NewsFor(r)))
        /\ Contains(NewsFor(r).users, Client)
    BY <2>1, <2>2, Addressed
  <2> QED BY <2>2, <2>3, AddressedNone
<1> QED BY <1>1, <1>2, <1>3, <1>4

\* An event fired.
LEMMA TellTells ==
  ASSUME NewsTypeOK, DesksOK, NEW d \in Desks, NEW aud \in Audience, NEW ed \in Nat, NEW q,
         LET r == desk[d] IN
           /\ Tell(d, aud, ed, q) /\ q \in DeskRec /\ q.n = r.n /\ r.n <= 3
           /\ q.op = r.op /\ q.actor = r.actor /\ q.snapshot = r.snapshot /\ q.mine = r.mine
           /\ q.pc = "over" => r.pc = "tellTx" \/ ed >= r.mine
           /\ q.pc = "tellTx" => ed >= r.mine
           /\ DeskAt([q EXCEPT !.n = r.n + 1]) /\ r.op # "none",
         NoRepeats(NotifyRecipients(aud)), ed > 0 => Contains(aud.users, Client),
         For(aud, desk[d].actor) => OwnNews(desk[d])
  PROVE  \E p : Telling(d, p, aud, ed)
<1> DEFINE r == desk[d]
           p == [q EXCEPT !.n = r.n + 1]
<1>1. r \in DeskRec /\ q \in DeskRec /\ r.n \in Nat
  BY DeskType DEF DeskRec
<1>2. p \in DeskRec /\ p.op = r.op /\ p.actor = r.actor /\ p.snapshot = r.snapshot
      /\ p.pc = q.pc /\ p.mine = r.mine /\ p.n = r.n + 1
  <2> DEFINE m == r.n + 1
             x == [q EXCEPT !.n = m]
  <2>1. m \in Nat
    BY <1>1
  <2> HIDE DEF m
  <2>2. x \in DeskRec /\ x.op = q.op /\ x.actor = q.actor /\ x.snapshot = q.snapshot
        /\ x.pc = q.pc /\ x.mine = q.mine /\ x.n = m
    BY <1>1, <2>1 DEF DeskRec
  <2> QED BY <2>2 DEF m
<1>3. /\ Fire(<<d, p.n>>, aud) /\ told' = [told EXCEPT ![<<d, p.n>>] = ed]
      /\ desk' = [desk EXCEPT ![d] = p]
      /\ UNCHANGED <<subs, chan, conn, row, read, legs, edition, unheard>>
  BY <1>1, <1>2 DEF Tell
<1>4. <<d, p.n>> \in Events
  BY <1>1, <1>2, ThreeLegs, NewsAssumption
<1>5. SameWork(r, p) /\ DeskAt(p) /\ (OwnNews(r) => OwnNews(p))
  BY <1>1, <1>2 DEF SameWork, OwnNews
<1> HIDE DEF p
<1>6. Telling(d, p, aud, ed)
  BY <1>2, <1>3, <1>4, <1>5 DEF Telling
<1> QED BY <1>6

\* The steps that fire.
LEMMA TellsTell ==
  ASSUME NewsTypeOK, DesksOK, NEW d \in Desks, TellOrder(d) \/ TellTransaction(d) \/ PayNext(d)
  PROVE  \/ \E q, aud, ed : Telling(d, q, aud, ed)
         \/ \E q : Quiet(d, q)
<1> DEFINE r == desk[d]
<1>1. /\ r \in DeskRec /\ DeskAt(r) /\ r.mine <= edition /\ edition \in Nat /\ legs \in Orders
      /\ unheard \subseteq Nat /\ r.n \in Nat /\ r.mine \in Nat /\ r.seen \in Nat
      /\ r.owed \in Seq(People) /\ Len(r.owed) \in Nat /\ Client \in People
  <2>1. r \in DeskRec
    BY DeskType
  <2>2. DeskAt(r) /\ r.mine <= edition
    BY DEF DesksOK
  <2>3. edition \in Nat /\ legs \in Orders /\ unheard \subseteq Nat /\ Client \in People
    BY NewsAssumption DEF NewsTypeOK
  <2>4. r.n \in Nat /\ r.mine \in Nat /\ r.seen \in Nat /\ r.owed \in Seq(People)
    BY <2>1 DEF DeskRec
  <2> HIDE DEF r
  <2>5. Len(r.owed) \in Nat
    BY <2>4
  <2> QED BY <2>1, <2>2, <2>3, <2>4, <2>5
<1>2. CASE TellOrder(d)
  <2> DEFINE pc == IF r.op = "accept" THEN "tellTx" ELSE "over"
             q == [r EXCEPT !.pc = pc]
             p == [q EXCEPT !.n = r.n + 1]
  <2>1. r.pc = "tell" /\ Tell(d, NewsFor(r), r.seen, q)
    BY <1>2 DEF TellOrder, Is
  <2>2. pc \in {"tellTx", "over"} /\ (pc = "tellTx" => r.op = "accept")
    OBVIOUS
  <2> HIDE DEF r, pc
  <2>3. /\ q.op = r.op /\ q.pc = pc /\ q.actor = r.actor /\ q.snapshot = r.snapshot
        /\ q.mine = r.mine /\ q.n = r.n /\ q.owed = r.owed /\ q \in DeskRec
    BY <1>1, <2>2, PcOnly
  <2> HIDE DEF q
  <2>4. /\ p.op = q.op /\ p.pc = q.pc /\ p.actor = q.actor /\ p.snapshot = q.snapshot
        /\ p.mine = q.mine /\ p.n = r.n + 1 /\ p.owed = q.owed
    BY <2>3 DEF DeskRec
  <2> HIDE DEF p
  <2>5. r.n <= 3 /\ r.op # "none" /\ r.mine <= r.seen
    BY <1>1, <2>1 DEF DeskAt
  <2>6. DeskAt(p)
    BY <1>1, <2>1, <2>2, <2>3, <2>4 DEF DeskAt
  <2>7. /\ NewsFor(r) \in Audience /\ NoRepeats(NotifyRecipients(NewsFor(r)))
        /\ Contains(NewsFor(r).users, Client)
        /\ For(NewsFor(r), r.actor) => OwnNews(r)
    BY <1>1, <2>1, NewsReach
  <2>8. \E x : Telling(d, x, NewsFor(r), r.seen)
    BY <1>1, <2>1, <2>3, <2>5, <2>6, <2>7, TellTells DEF r, p
  <2> QED BY <2>8
<1>3. CASE TellTransaction(d)
  <2> DEFINE q == [r EXCEPT !.pc = "over"]
             p == [q EXCEPT !.n = r.n + 1]
             aud == To(<<Client, r.actor>>, FALSE, <<>>)
  <2>1. r.pc = "tellTx" /\ Tell(d, aud, 0, q)
    BY <1>3 DEF TellTransaction, Is
  <2> HIDE DEF r
  <2>2. /\ q.op = r.op /\ q.pc = "over" /\ q.actor = r.actor /\ q.snapshot = r.snapshot
        /\ q.mine = r.mine /\ q.n = r.n /\ q.owed = r.owed /\ q \in DeskRec
    BY <1>1, PcOnly
  <2> HIDE DEF q
  <2>3. /\ p.op = q.op /\ p.pc = q.pc /\ p.actor = q.actor /\ p.snapshot = q.snapshot
        /\ p.mine = q.mine /\ p.n = r.n + 1 /\ p.owed = q.owed
    BY <2>2 DEF DeskRec
  <2> HIDE DEF p
  <2>4. r.n <= 3 /\ r.op # "none" /\ r.actor \in People
    BY <1>1, <2>1 DEF DeskAt
  <2>5. DeskAt(p)
    BY <1>1, <2>1, <2>2, <2>3 DEF DeskAt
  <2>6. aud \in Audience /\ NoRepeats(NotifyRecipients(aud))
    <3>1. <<Client, r.actor>> \in Seq(People) /\ <<>> \in Seq(People)
      BY <1>1, <2>4
    <3> QED BY <3>1, Addressed
  <2>7. ~For(aud, r.actor)
    BY AddressedNone
  <2> HIDE DEF aud
  <2> DEFINE none == 0
  <2>8. none \in Nat /\ (none > 0 => Contains(aud.users, Client)) /\ Tell(d, aud, none, q)
    BY <2>1
  <2> HIDE DEF none
  <2>9. \E x : Telling(d, x, aud, none)
    BY <1>1, <2>1, <2>2, <2>4, <2>5, <2>6, <2>7, <2>8, TellTells DEF r, p
  <2> QED BY <2>9
<1>4. CASE PayNext(d)
  <2> DEFINE s == Tail(r.owed)
             q == [r EXCEPT !.owed = s]
             p == [q EXCEPT !.n = r.n + 1]
             h == Head(r.owed)
             aud == To(<<h>>, TRUE, <<>>)
  <2>1. /\ r.pc = "pay" /\ r.owed # <<>>
        /\ \/ Tell(d, aud, 0, q)
           \/ desk' = [desk EXCEPT ![d] = q] /\ UNCHANGED <<feedVars, legs, edition, told, unheard>>
    BY <1>4 DEF PayNext, Is
  <2> HIDE DEF r
  <2>2. /\ s \in Seq(People) /\ Len(s) = Len(r.owed) - 1 /\ h \in People
        /\ h = r.owed[1] /\ 1 \in DOMAIN r.owed
        /\ \A i \in DOMAIN s : i + 1 \in DOMAIN r.owed /\ s[i] = r.owed[i + 1]
    BY <1>1, <2>1, TailParts
  <2> HIDE DEF s, h
  <2>3. /\ q.op = r.op /\ q.pc = r.pc /\ q.actor = r.actor /\ q.snapshot = r.snapshot
        /\ q.mine = r.mine /\ q.n = r.n /\ q.owed = s /\ q \in DeskRec
    BY <1>1, <2>2 DEF DeskRec
  <2> HIDE DEF q
  <2>4. /\ p.op = q.op /\ p.pc = q.pc /\ p.actor = q.actor /\ p.snapshot = q.snapshot
        /\ p.mine = q.mine /\ p.n = r.n + 1 /\ p.owed = q.owed
    BY <2>3 DEF DeskRec
  <2> HIDE DEF p
  <2>5. r.n <= 3 /\ r.op = "confirm" /\ \A i \in DOMAIN r.owed : Contains(Tail(r.snapshot), r.owed[i])
    BY <1>1, <2>1, <2>2 DEF DeskAt
  <2>6. \A i \in DOMAIN s : Contains(Tail(r.snapshot), s[i])
    BY <2>2, <2>5
  <2>7. r.n + Len(r.owed) <= 3
    BY <1>1, <2>1 DEF DeskAt
  <2>8. p.n + Len(p.owed) <= 3 /\ q.n + Len(q.owed) <= 3
    BY <1>1, <2>2, <2>3, <2>4, <2>7
  <2>9. DeskAt(p) /\ DeskAt(q)
    BY <1>1, <2>1, <2>3, <2>4, <2>5, <2>6, <2>8 DEF DeskAt
  <2>10. CASE Tell(d, aud, 0, q)
    <3>1. <<h>> \in Seq(People) /\ <<>> \in Seq(People) /\ \A i \in DOMAIN <<h>> : <<h>>[i] = h
      BY <2>2
    <3>2. aud \in Audience /\ NoRepeats(NotifyRecipients(aud))
      BY <3>1, Addressed
    <3>3. ASSUME For(aud, r.actor) PROVE OwnNews(r)
      <4> DEFINE users == <<h>>
                 only == <<>>
      <4>1. /\ users \in Seq(People) /\ only \in Seq(People) /\ only = <<>>
            /\ \A i \in DOMAIN users : users[i] = h
            /\ For(To(users, TRUE, only), r.actor)
        BY <3>1, <3>3
      <4> HIDE DEF users, only
      <4>2. \E i \in DOMAIN users : users[i] = r.actor
        BY <4>1, AddressedOnly, ZenonT(60)
      <4> QED BY <2>2, <2>5, <4>1, <4>2 DEF OwnNews
    <3> HIDE DEF aud
    <3> DEFINE none == 0
    <3>4. none \in Nat /\ (none > 0 => Contains(aud.users, Client)) /\ Tell(d, aud, none, q)
      BY <2>10
    <3> HIDE DEF none
    <3>5. \E x : Telling(d, x, aud, none)
      BY <1>1, <2>1, <2>3, <2>5, <2>9, <3>2, <3>3, <3>4, TellTells DEF r, p
    <3> QED BY <3>5
  <2>11. CASE desk' = [desk EXCEPT ![d] = q] /\ UNCHANGED <<feedVars, legs, edition, told, unheard>>
    <3>1. SameWork(r, q) /\ Excused(r, q, unheard') /\ q.pc # "tellTx"
      BY <1>1, <2>1, <2>3 DEF SameWork, Excused
    <3>2. Quiet(d, q)
      BY <1>1, <2>3, <2>9, <2>11, <3>1 DEF Quiet, r
    <3> QED BY <3>2
  <2> QED BY <2>1, <2>10, <2>11
<1> QED BY <1>2, <1>3, <1>4

\* A step of a request is quiet, or it fires one event.
LEMMA ServeKinds ==
  ASSUME NewsTypeOK, DesksOK, NEW d \in Desks, Serve(d)
  PROVE  \/ \E q : Quiet(d, q)
         \/ \E q, aud, ed : Telling(d, q, aud, ed)
BY LoadsQuiet, WritesQuiet, GoesQuiet, ReloadQuiet, TellsTell DEF Serve

-----------------------------------------------------------------------------
(* The inductive invariant.                                                *)

\* The events of a request are those it has counted, and whom they notify it
\* may have notified.
EventsOK ==
  \A d \in Desks, n \in 1..4 : event[<<d, n>>].pc # "none" =>
    /\ n <= desk[d].n /\ desk[d].op # "none"
    /\ For(event[<<d, n>>].aud, desk[d].actor) => OwnNews(desk[d])

\* What is told is told to the client.
ToldInv ==
  \A e \in Events : told[e] > 0 =>
    event[e].pc # "none" /\ Contains(event[e].aud.users, Client)

\* Before an accept tells of its transaction it has told of the order.
TxInv ==
  \A d \in Desks : desk[d].pc = "tellTx" => \E e \in Events : told[e] >= desk[d].mine

NewsInv ==
  /\ NewsTypeOK /\ FeedOK /\ Stored
  /\ DesksOK /\ EventsOK /\ ToldInv /\ TxInv /\ ChangesAreTold

LEMMA InitNews == (\E ls \in Orders : NewsInit(ls)) => NewsInv
<1> SUFFICES ASSUME NEW ls \in Orders, NewsInit(ls) PROVE NewsInv
  OBVIOUS
<1>1. FeedInit /\ legs = ls /\ edition = 0 /\ desk = [d \in Desks |-> Vacant]
      /\ told = [e \in Events |-> 0] /\ unheard = {}
  BY DEF NewsInit
<1>2. NewsTypeOK
  BY <1>1, VacantType DEF NewsTypeOK
<1>3. FeedOK
  BY <1>1, InitType, InitHub, InitHandler, InitNotices DEF FeedOK
<1>4. \A e \in Events : /\ event[e].pc = "none" /\ event[e].todo = <<>>
                        /\ \A u \in People : row[e][u] = 0
  BY <1>1 DEF FeedInit, NoEvent
<1>5. Stored
  <2>1. DOMAIN <<>> = {}
    OBVIOUS
  <2> QED BY <1>4, <2>1 DEF Stored, StoredAt, NoRepeats
<1>6. DesksOK
  <2>1. DOMAIN <<>> = {}
    OBVIOUS
  <2>2. DeskAt(Vacant)
    BY <2>1 DEF DeskAt, Vacant
  <2>3. Vacant.mine = 0
    BY DEF Vacant
  <2> QED BY <1>1, <2>2, <2>3 DEF DesksOK
<1>7. EventsOK
  <2>1. \A d \in Desks, n \in 1..4 : <<d, n>> \in Events
    BY ThreeLegs, NewsAssumption
  <2> QED BY <1>4, <2>1 DEF EventsOK
<1>8. ToldInv /\ TxInv /\ ChangesAreTold
  BY <1>1 DEF ToldInv, TxInv, ChangesAreTold, Vacant
<1> QED BY <1>2, <1>3, <1>5, <1>6, <1>7, <1>8 DEF NewsInv

LEMMA QuietKeeps ==
  ASSUME NewsInv, NEW d \in Desks, NEW q, Quiet(d, q)
  PROVE  NewsInv'
<1>1. /\ UNCHANGED <<event, row, told>> /\ UNCHANGED feedVars
      /\ desk' = [desk EXCEPT ![d] = q] /\ q \in DeskRec /\ DeskAt(q) /\ q.pc # "tellTx"
  BY DEF Quiet, feedVars
<1>2. /\ legs' \in Orders /\ unheard \subseteq unheard' /\ unheard' \subseteq Nat
      /\ edition' \in {edition, edition + 1} /\ q.mine <= edition'
      /\ edition' # edition => (q.mine = edition' /\ q.pc # "over") \/ edition' \in unheard'
      /\ Excused(desk[d], q, unheard') /\ (desk[d].op = "none" \/ SameWork(desk[d], q))
  BY DEF Quiet
<1>3. /\ NewsTypeOK /\ edition \in Nat /\ desk \in [Desks -> DeskRec]
      /\ desk'[d] = q /\ \A c \in Desks \ {d} : desk'[c] = desk[c]
  BY <1>1, DeskType DEF NewsInv, NewsTypeOK
<1>4. NewsTypeOK'
  BY <1>1, <1>2, <1>3 DEF NewsTypeOK
<1>5. FeedOK' /\ Stored'
  BY <1>1 DEF NewsInv, FeedOK, FeedTypeOK, HubInv, HandlerInv, HandlerAt, NoticeIsStored,
              Publishing, feedVars, Stored
<1>6. DesksOK'
  <2>1. \A c \in Desks : DeskAt(desk[c]) /\ desk[c].mine <= edition /\ desk[c].mine \in Nat
    BY <1>3 DEF NewsInv, DesksOK, DeskRec
  <2> QED BY <1>1, <1>2, <1>3, <2>1 DEF DesksOK
<1>7. EventsOK'
  <2> SUFFICES ASSUME NEW c \in Desks, NEW n \in 1..4, event[<<c, n>>].pc # "none"
               PROVE  /\ n <= desk'[c].n /\ desk'[c].op # "none"
                      /\ For(event[<<c, n>>].aud, desk'[c].actor) => OwnNews(desk'[c])
    BY <1>1 DEF EventsOK
  <2>1. /\ n <= desk[c].n /\ desk[c].op # "none"
        /\ For(event[<<c, n>>].aud, desk[c].actor) => OwnNews(desk[c])
    BY DEF NewsInv, EventsOK
  <2>2. CASE c = d
    <3>1. SameWork(desk[d], q) /\ desk[d].n \in Nat /\ q.n \in Nat
      BY <1>1, <1>2, <1>3, <2>1, <2>2 DEF DeskRec
    <3> QED BY <1>3, <2>1, <2>2, <3>1 DEF SameWork, OwnNews
  <2> QED BY <1>3, <2>1, <2>2
<1>8. ToldInv'
  BY <1>1 DEF NewsInv, ToldInv
<1>9. TxInv'
  BY <1>1, <1>3 DEF NewsInv, TxInv
<1>10. ChangesAreTold'
  <2> SUFFICES ASSUME NEW w \in 1..edition', w \notin unheard'
               PROVE  \/ \E c \in Desks : desk'[c].mine = w /\ desk'[c].pc # "over"
                      \/ \E e \in Events : told[e] >= w /\ Contains(event[e].aud.users, Client)
    BY <1>1 DEF ChangesAreTold
  <2>1. CASE w > edition
    <3>1. w = edition' /\ edition' # edition
      BY <1>2, <1>3, <2>1
    <3> QED BY <1>2, <1>3, <3>1
  <2>2. CASE w <= edition
    <3>1. w \in 1..edition /\ w \notin unheard
      BY <1>2, <1>3, <2>2
    <3>2. CASE \E e \in Events : told[e] >= w /\ Contains(event[e].aud.users, Client)
      BY <3>2
    <3>3. CASE \E c \in Desks : desk[c].mine = w /\ desk[c].pc # "over"
      <4> PICK c \in Desks : desk[c].mine = w /\ desk[c].pc # "over"
        BY <3>3
      <4>1. CASE c = d
        BY <1>2, <1>3, <4>1 DEF Excused
      <4> QED BY <1>3, <4>1
    <3> QED BY <3>1, <3>2, <3>3 DEF NewsInv, ChangesAreTold
  <2> QED BY <1>2, <1>3, <2>1, <2>2
<1> QED BY <1>4, <1>5, <1>6, <1>7, <1>8, <1>9, <1>10 DEF NewsInv

LEMMA TellingKeeps ==
  ASSUME NewsInv, NEW d \in Desks, NEW q, NEW aud, NEW ed, Telling(d, q, aud, ed)
  PROVE  NewsInv'
<1> DEFINE f == <<d, q.n>>
<1>1. /\ f \in Events /\ Fire(f, aud)
      /\ UNCHANGED <<subs, chan, conn, row, read, legs, edition, unheard>>
      /\ told' = [told EXCEPT ![f] = ed] /\ desk' = [desk EXCEPT ![d] = q]
      /\ q \in DeskRec /\ DeskAt(q) /\ SameWork(desk[d], q) /\ desk[d].op # "none"
  BY DEF Telling
<1>2. /\ aud \in Audience /\ NoRepeats(NotifyRecipients(aud))
      /\ For(aud, q.actor) => OwnNews(q)
      /\ ed \in Nat /\ (ed > 0 => Contains(aud.users, Client))
      /\ q.mine = desk[d].mine
      /\ q.pc = "over" => desk[d].pc = "tellTx" \/ ed >= q.mine
      /\ q.pc = "tellTx" => ed >= q.mine
  BY DEF Telling
<1>3. /\ NewsTypeOK /\ edition \in Nat /\ desk \in [Desks -> DeskRec]
      /\ desk'[d] = q /\ (\A c \in Desks \ {d} : desk'[c] = desk[c])
  BY <1>1, DeskType DEF NewsInv, NewsTypeOK
<1>4. told \in [Events -> Nat] /\ told'[f] = ed /\ \A e \in Events \ {f} : told'[e] = told[e]
  BY <1>1 DEF NewsInv, NewsTypeOK
<1>5. /\ Stored' /\ event[f].pc = "none" /\ event'[f].aud = aud /\ event'[f].pc # "none"
      /\ \A e \in Events \ {f} : event'[e] = event[e]
  BY <1>1, <1>2, FireStores DEF NewsInv, FeedOK
<1>6. FeedOK'
  BY <1>1, <1>2, StepOK DEF NewsInv, FeedNext
<1>7. NewsTypeOK'
  BY <1>1, <1>2, <1>3 DEF NewsTypeOK
<1> HIDE DEF f
<1>8. DesksOK'
  BY <1>1, <1>2, <1>3 DEF NewsInv, DesksOK
<1>9. \A e \in Events : told[e] > 0 =>
        /\ e # f /\ told'[e] = told[e] /\ event'[e] = event[e]
        /\ event[e].pc # "none" /\ Contains(event[e].aud.users, Client)
  BY <1>4, <1>5 DEF NewsInv, ToldInv
<1>10. ToldInv'
  <2> SUFFICES ASSUME NEW e \in Events, told'[e] > 0
               PROVE  event'[e].pc # "none" /\ Contains(event'[e].aud.users, Client)
    BY DEF ToldInv
  <2>1. CASE e = f
    BY <1>2, <1>4, <1>5, <2>1
  <2> QED BY <1>4, <1>9, <2>1
<1>11. EventsOK'
  <2> SUFFICES ASSUME NEW c \in Desks, NEW n \in 1..4, event'[<<c, n>>].pc # "none"
               PROVE  /\ n <= desk'[c].n /\ desk'[c].op # "none"
                      /\ For(event'[<<c, n>>].aud, desk'[c].actor) => OwnNews(desk'[c])
    BY DEF EventsOK
  <2>1. q.op # "none" /\ q.n \in Nat /\ desk[d].n \in Nat
    BY <1>1, <1>3 DEF SameWork, DeskRec
  <2>2. CASE <<c, n>> = f
    <3>1. c = d /\ n = q.n
      BY <2>2 DEF f
    <3> QED BY <1>2, <1>3, <1>5, <2>1, <2>2, <3>1
  <2>3. CASE <<c, n>> # f
    <3>1. <<c, n>> \in Events
      BY ThreeLegs, NewsAssumption
    <3>2. event'[<<c, n>>] = event[<<c, n>>]
      BY <1>5, <2>3, <3>1
    <3>3. /\ n <= desk[c].n /\ desk[c].op # "none"
          /\ For(event[<<c, n>>].aud, desk[c].actor) => OwnNews(desk[c])
      BY <3>2 DEF NewsInv, EventsOK
    <3>4. CASE c = d
      BY <1>1, <1>3, <2>1, <3>2, <3>3, <3>4 DEF SameWork, OwnNews
    <3> QED BY <1>3, <3>2, <3>3, <3>4
  <2> QED BY <2>2, <2>3
<1>12. \A c \in Desks : desk[c].mine \in Nat
  BY <1>3 DEF DeskRec
<1>13. \A e \in Events, w \in Nat : told[e] >= w => told'[e] >= w
  <2> SUFFICES ASSUME NEW e \in Events, NEW w \in Nat, told[e] >= w PROVE told'[e] >= w
    OBVIOUS
  <2>1. CASE told[e] > 0
    BY <1>9, <2>1
  <2>2. CASE told[e] = 0
    <3>1. w = 0 /\ told'[e] \in Nat
      BY <1>2, <1>4, <2>2
    <3> QED BY <3>1
  <2>3. told[e] \in Nat
    BY <1>4
  <2> QED BY <2>1, <2>2, <2>3
<1>14. TxInv'
  <2> SUFFICES ASSUME NEW c \in Desks, desk'[c].pc = "tellTx"
               PROVE  \E e \in Events : told'[e] >= desk'[c].mine
    BY DEF TxInv
  <2>1. CASE c = d
    BY <1>1, <1>2, <1>3, <1>4, <2>1
  <2>2. CASE c # d
    <3>1. PICK e \in Events : told[e] >= desk[c].mine
      BY <1>3, <2>2 DEF NewsInv, TxInv
    <3> QED BY <1>3, <1>12, <1>13, <2>2, <3>1
  <2> QED BY <2>1, <2>2
<1>15. ChangesAreTold'
  <2> SUFFICES ASSUME NEW w \in 1..edition, w \notin unheard
               PROVE  \/ \E c \in Desks : desk'[c].mine = w /\ desk'[c].pc # "over"
                      \/ \E e \in Events : told'[e] >= w /\ Contains(event'[e].aud.users, Client)
    BY <1>1 DEF ChangesAreTold
  <2>1. w \in Nat /\ w > 0
    BY <1>3
  <2>2. ASSUME NEW e \in Events, told[e] >= w
        PROVE  told'[e] >= w /\ Contains(event'[e].aud.users, Client)
    <3>1. told[e] > 0
      BY <1>4, <2>1, <2>2
    <3> QED BY <1>9, <2>2, <3>1
  <2>3. CASE \E e \in Events : told[e] >= w /\ Contains(event[e].aud.users, Client)
    BY <2>2, <2>3
  <2>4. CASE \E c \in Desks : desk[c].mine = w /\ desk[c].pc # "over"
    <3> PICK c \in Desks : desk[c].mine = w /\ desk[c].pc # "over"
      BY <2>4
    <3>1. CASE c # d
      BY <1>3, <3>1
    <3>2. CASE c = d /\ q.pc # "over"
      BY <1>2, <1>3, <3>2
    <3>3. CASE c = d /\ ed >= w
      <4>1. ed > 0
        BY <1>2, <2>1, <3>3
      <4> QED BY <1>1, <1>2, <1>4, <1>5, <3>3, <4>1
    <3>4. CASE c = d /\ desk[d].pc = "tellTx"
      <4>1. PICK e \in Events : told[e] >= w
        BY <3>4 DEF NewsInv, TxInv
      <4> QED BY <2>2, <4>1
    <3> QED BY <1>2, <3>1, <3>2, <3>3, <3>4
  <2> QED BY <2>3, <2>4 DEF NewsInv, ChangesAreTold
<1> QED BY <1>5, <1>6, <1>7, <1>8, <1>10, <1>11, <1>14, <1>15 DEF NewsInv

\* What the notifications service does by itself.
LEMMA FeedKeeps ==
  ASSUME NewsInv, UNCHANGED newsVars,
         FeedStep \/ \E e \in Events, u \in People : MarkRead(e, u)
  PROVE  NewsInv'
<1>1. UNCHANGED <<legs, edition, desk, told, unheard>>
  BY DEF newsVars
<1>2. /\ Stored'
      /\ \A e \in Events :
           event'[e].aud = event[e].aud /\ (event'[e].pc = "none" <=> event[e].pc = "none")
  BY StepStores DEF NewsInv, FeedOK
<1>3. FeedOK'
  BY StepOK DEF NewsInv, FeedNext
<1>4. NewsTypeOK' /\ DesksOK' /\ TxInv'
  BY <1>1 DEF NewsInv, NewsTypeOK, DesksOK, TxInv
<1>5. EventsOK'
  <2>1. \A d \in Desks, n \in 1..4 : <<d, n>> \in Events
    BY ThreeLegs, NewsAssumption
  <2> QED BY <1>1, <1>2, <2>1 DEF NewsInv, EventsOK
<1>6. ToldInv' /\ ChangesAreTold'
  BY <1>1, <1>2 DEF NewsInv, ToldInv, ChangesAreTold
<1> QED BY <1>2, <1>3, <1>4, <1>5, <1>6 DEF NewsInv

LEMMA NewsStays ==
  ASSUME NewsInv, UNCHANGED newsAndFeedVars
  PROVE  NewsInv'
BY DEF newsAndFeedVars, newsVars, feedVars, NewsInv, NewsTypeOK, FeedOK, FeedTypeOK, HubInv,
       HandlerInv, HandlerAt, NoticeIsStored, Publishing, Stored, DesksOK, EventsOK, ToldInv,
       TxInv, ChangesAreTold

LEMMA NewsCorrect == NewsSpec => []NewsInv
<1>1. NewsInv /\ [NewsNext]_newsAndFeedVars => NewsInv'
  <2> SUFFICES ASSUME NewsInv, [NewsNext]_newsAndFeedVars PROVE NewsInv'
    OBVIOUS
  <2>1. ASSUME NEW d \in Desks, Serve(d) PROVE NewsInv'
    BY <2>1, ServeKinds, QuietKeeps, TellingKeeps DEF NewsInv
  <2>2. CASE FeedStep /\ UNCHANGED newsVars
    BY <2>2, FeedKeeps
  <2>3. CASE \E e \in Events, u \in People : MarkRead(e, u) /\ UNCHANGED newsVars
    BY <2>3, FeedKeeps
  <2> QED BY <2>1, <2>2, <2>3, NewsStays DEF NewsNext
<1> QED BY <1>1, InitNews, PTL DEF NewsSpec

-----------------------------------------------------------------------------
(* The theorems.                                                           *)

\* The orders service, as it is modelled, uses the notifications service as that
\* allows (svc.Client.Fire, once per event, with ids of users): so all that is
\* proved of the service by itself holds of the two together.
THEOREM NewsUsesFeed == NewsSpec => FeedSpec
<1>1. ASSUME NewsInv, [NewsNext]_newsAndFeedVars PROVE [FeedNext]_feedVars
  <2>1. ASSUME NEW d \in Desks, Serve(d) PROVE [FeedNext]_feedVars
    <3>1. CASE \E q : Quiet(d, q)
      BY <3>1 DEF Quiet
    <3>2. CASE \E q, aud, ed : Telling(d, q, aud, ed)
      BY <3>2 DEF Telling, FeedNext
    <3> QED BY <1>1, <2>1, <3>1, <3>2, ServeKinds DEF NewsInv
  <2>2. CASE FeedStep
    BY <2>2 DEF FeedNext
  <2>3. CASE \E e \in Events, u \in People : MarkRead(e, u)
    BY <2>3 DEF FeedNext
  <2>4. CASE UNCHANGED newsAndFeedVars
    BY <2>4 DEF newsAndFeedVars
  <2> QED BY <1>1, <2>1, <2>2, <2>3, <2>4 DEF NewsNext
<1>2. (\E ls \in Orders : NewsInit(ls)) => FeedInit
  BY DEF NewsInit
<1> QED BY <1>1, <1>2, NewsCorrect, PTL DEF NewsSpec, FeedSpec

\* The variables keep their types: legs stay legs, requests their fields, and
\* audiences name users only.
THEOREM NewsTypeCorrect == NewsSpec => []NewsTypeOK
<1>1. NewsInv => NewsTypeOK
  BY DEF NewsInv
<1> QED BY <1>1, NewsCorrect, PTL

\* Whatever requests overlap on an order, each change of it comes to the client
\* with an event that shows the order at least as new, unless its request failed
\* or took it back (handler.go reloads after the write, then emits).
THEOREM ChangesAlwaysTold == NewsSpec => []ChangesAreTold
<1>1. NewsInv => ChangesAreTold
  BY DEF NewsInv
<1> QED BY <1>1, NewsCorrect, PTL

\* Nobody finds an event twice in the feed (dedupe in emitTo, and one insert for
\* each recipient, which is not repeated).
THEOREM AlwaysToldOnce == NewsSpec => []ToldOnce
<1>1. NewsInv => ToldOnce
  BY DEF NewsInv, Stored, StoredAt, ToldOnce
<1> QED BY <1>1, NewsCorrect, PTL

\* Nobody is notified of what he did himself but in the cases that the property
\* names (emitTo: "The actor should not be told about their own action").
THEOREM ActorsToldAlone == NewsSpec => []ActorToldOnlyAlone
<1>1. ASSUME NewsInv PROVE ActorToldOnlyAlone
  <2> SUFFICES ASSUME NEW d \in Desks, NEW n \in 1..(Cardinality(LegNames) + 1),
                      desk[d].actor \in People, row[<<d, n>>][desk[d].actor] > 0
               PROVE  OwnNews(desk[d])
    BY DEF ActorToldOnlyAlone, OwnNews
  <2>1. n \in 1..4 /\ <<d, n>> \in Events
    BY ThreeLegs, NewsAssumption
  <2>2. StoredAt(event[<<d, n>>], row[<<d, n>>])
    BY <1>1, <2>1 DEF NewsInv, Stored
  <2>3. row[<<d, n>>][desk[d].actor] # 0
    OBVIOUS
  <2>4. event[<<d, n>>].pc # "none" /\ For(event[<<d, n>>].aud, desk[d].actor)
    BY <2>2, <2>3 DEF StoredAt
  <2> QED BY <1>1, <2>1, <2>4 DEF NewsInv, EventsOK
<1> QED BY <1>1, NewsCorrect, PTL
=============================================================================
