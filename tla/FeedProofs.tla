----------------------------- MODULE FeedProofs -----------------------------
(***************************************************************************)
(* What holds of the notifications service for every set of users, events  *)
(* and connections, and every capacity of the channels.                    *)
(***************************************************************************)
EXTENDS Feed, TLAPS

Live == {"open", "leaving", "locking"}

\* The hub lists the connections that are not over, each under its user, and
\* whoever publishes holds channels of the list.
HubInv ==
  /\ \A c \in Conns : c \in subs[Owner[c]] <=> conn[c] \in Live
  /\ \A u \in People : \A c \in subs[u] : Owner[c] = u
  /\ \A e \in Events : Publishing(e) => \A c \in event[e].at : conn[c] \in Live

\* A handler at work on notifications has a next user; from the insert on that
\* user has a row, and what it publishes goes to that user's connections.
HandlerAt(e) ==
  /\ event[e].pc \in {"create", "push", "notice"} => event[e].todo # <<>>
  /\ event[e].pc \in {"push", "notice"} => row[e][Head(event[e].todo)] > 0
  /\ event[e].pc = "notice" => \A c \in event[e].at : Owner[c] = Head(event[e].todo)

HandlerInv == \A e \in Events : HandlerAt(e)

FeedOK == FeedTypeOK /\ HubInv /\ HandlerInv /\ NoticeIsStored

-----------------------------------------------------------------------------
(* Types.                                                                  *)

LEMMA InitType == FeedInit => FeedTypeOK
BY FeedAssumption
   DEF FeedInit, FeedTypeOK, NoEvent, EventRec, NoAudience, Audience, WSEvent

\* What becomes of an event or its handler.
LEMMA RecTypes ==
  ASSUME NEW r \in EventRec
  PROVE  /\ \A at \in SUBSET Conns : [r EXCEPT !.at = at] \in EventRec
         /\ \A pc \in {"sent", "push", "done"} : [r EXCEPT !.pc = pc] \in EventRec
         /\ \A aud \in Audience : [r EXCEPT !.pc = "sent", !.aud = aud] \in EventRec
         /\ \A pc \in {"state", "notice"}, at \in SUBSET Conns :
              [r EXCEPT !.pc = pc, !.at = at] \in EventRec
         /\ \A pc \in {"create", "done"}, todo \in Seq(People) :
              [r EXCEPT !.pc = pc, !.todo = todo] \in EventRec
         /\ [r EXCEPT !.pc = "done", !.at = {}, !.todo = <<>>] \in EventRec
<1>1. \A at \in SUBSET Conns : [r EXCEPT !.at = at] \in EventRec
  BY DEF EventRec
<1>2. \A pc \in {"sent", "push", "done"} : [r EXCEPT !.pc = pc] \in EventRec
  BY DEF EventRec
<1>3. \A aud \in Audience : [r EXCEPT !.pc = "sent", !.aud = aud] \in EventRec
  BY DEF EventRec
<1>4. \A pc \in {"state", "notice"}, at \in SUBSET Conns :
        [r EXCEPT !.pc = pc, !.at = at] \in EventRec
  BY DEF EventRec
<1>5. \A pc \in {"create", "done"}, todo \in Seq(People) :
        [r EXCEPT !.pc = pc, !.todo = todo] \in EventRec
  BY DEF EventRec
<1>6. [r EXCEPT !.pc = "done", !.at = {}, !.todo = <<>>] \in EventRec
  <2>1. {} \in SUBSET Conns /\ <<>> \in Seq(People)
    OBVIOUS
  <2> DEFINE q == [r EXCEPT !.pc = "done", !.todo = <<>>]
  <2>2. q \in EventRec
    BY <1>5, <2>1
  <2>3. [q EXCEPT !.at = {}] \in EventRec
    BY <2>1, <2>2 DEF EventRec
  <2>4. [r EXCEPT !.pc = "done", !.at = {}, !.todo = <<>>] = [q EXCEPT !.at = {}]
    BY DEF EventRec
  <2> QED BY <2>3, <2>4
<1> QED BY <1>1, <1>2, <1>3, <1>4, <1>5, <1>6

\* What the fields of the new record are.
LEMMA RecFields ==
  ASSUME NEW r \in EventRec, NEW pc, NEW at, NEW users
  PROVE  /\ [r EXCEPT !.pc = pc].pc = pc /\ [r EXCEPT !.pc = pc].todo = r.todo
         /\ [r EXCEPT !.at = at].pc = r.pc /\ [r EXCEPT !.at = at].at = at
         /\ [r EXCEPT !.at = at].todo = r.todo
         /\ [r EXCEPT !.pc = pc, !.at = at].pc = pc /\ [r EXCEPT !.pc = pc, !.at = at].at = at
         /\ [r EXCEPT !.pc = pc, !.at = at].todo = r.todo
         /\ [r EXCEPT !.pc = pc, !.todo = users].pc = pc
         /\ [r EXCEPT !.pc = pc, !.todo = users].todo = users
BY DEF EventRec

\* A row more for one user.
LEMMA RowGrows ==
  ASSUME NEW t \in [Events -> [People -> Nat]], NEW e \in Events, NEW u \in People,
         NEW n \in Nat
  PROVE  [t EXCEPT ![e][u] = n] \in [Events -> [People -> Nat]]
<1>1. [t[e] EXCEPT ![u] = n] \in [People -> Nat]
  OBVIOUS
<1>2. [t EXCEPT ![e] = [t[e] EXCEPT ![u] = n]] \in [Events -> [People -> Nat]]
  BY <1>1
<1> QED BY <1>2

LEMMA BecomesType ==
  ASSUME FeedTypeOK, NEW e \in Events, NEW r \in EventRec, Becomes(e, r)
  PROVE  event' \in [Events -> EventRec]
BY DEF FeedTypeOK, Becomes

LEMMA NotifyType ==
  ASSUME FeedTypeOK, NEW e \in Events, NEW users \in Seq(People), Notify(e, users)
  PROVE  event' \in [Events -> EventRec]
<1>1. event[e] \in EventRec
  BY DEF FeedTypeOK
<1>2. CASE users = <<>>
  BY <1>1, <1>2, RecTypes, BecomesType DEF Notify
<1>3. CASE users # <<>>
  BY <1>1, <1>3, RecTypes, BecomesType DEF Notify
<1> QED BY <1>2, <1>3

LEMMA EventTypes ==
  ASSUME FeedTypeOK, NEW e \in Events
  PROVE  /\ event[e] \in EventRec /\ event[e].aud \in Audience
         /\ event[e].aud.users \in Seq(People) /\ NotifyRecipients(event[e].aud) \in Seq(People)
         /\ event[e].todo \in Seq(People) /\ event[e].at \in SUBSET Conns
<1>1. event[e] \in EventRec
  BY DEF FeedTypeOK
<1>2. event[e].aud \in Audience /\ event[e].todo \in Seq(People) /\ event[e].at \in SUBSET Conns
  BY <1>1 DEF EventRec
<1>3. event[e].aud.users \in Seq(People) /\ event[e].aud.only \in Seq(People)
  BY <1>2 DEF Audience
<1> QED BY <1>1, <1>2, <1>3 DEF NotifyRecipients

LEMMA ChannelsType ==
  ASSUME FeedTypeOK, NEW users \in Seq(People)
  PROVE  Channels(users) \in SUBSET Conns
<1>1. \A i \in DOMAIN users : users[i] \in People
  OBVIOUS
<1> QED BY <1>1 DEF FeedTypeOK, Channels

\* A handler at work on notifications has a next user.
LEMMA NextUser ==
  ASSUME FeedTypeOK, HandlerInv, NEW e \in Events, event[e].pc \in {"create", "push", "notice"}
  PROVE  Head(event[e].todo) \in People /\ Tail(event[e].todo) \in Seq(People)
<1>1. event[e].todo \in Seq(People) /\ event[e].todo # <<>>
  BY EventTypes DEF HandlerInv, HandlerAt
<1> QED BY <1>1

LEMMA FireType ==
  ASSUME FeedTypeOK, NEW e \in Events, NEW aud \in Audience, Fire(e, aud),
         UNCHANGED <<subs, chan, conn, row, read>>
  PROVE  FeedTypeOK'
<1>1. event' \in [Events -> EventRec]
  BY EventTypes, RecTypes, BecomesType DEF Fire
<1> QED BY <1>1 DEF FeedTypeOK

LEMMA HandleType ==
  ASSUME FeedTypeOK, HandlerInv, NEW e \in Events, Handle(e) \/ Lose(e)
  PROVE  FeedTypeOK'
<1>1. CASE Lose(e)
  <2>1. event' \in [Events -> EventRec]
    BY <1>1, EventTypes, RecTypes, BecomesType DEF Lose
  <2> QED BY <1>1, <2>1 DEF Lose, FeedTypeOK
<1>2. CASE Emit(e)
  <2>1. Channels(event[e].aud.users) \in SUBSET Conns
    BY EventTypes, ChannelsType
  <2>2. event' \in [Events -> EventRec]
    BY <1>2, <2>1, EventTypes, RecTypes, BecomesType DEF Emit
  <2> QED BY <1>2, <2>2 DEF Emit, FeedTypeOK
<1>3. CASE Send(e)
  <2>1. PICK c \in event[e].at :
          /\ chan' = [chan EXCEPT ![c] = IF Len(@) < ChanCap
                                         THEN Append(@, [kind |-> event[e].pc, of |-> e]) ELSE @]
          /\ Becomes(e, [event[e] EXCEPT !.at = @ \ {c}])
    BY <1>3 DEF Send
  <2>2. c \in Conns /\ [kind |-> event[e].pc, of |-> e] \in WSEvent
    BY <1>3, EventTypes DEF Send, Publishing, WSEvent
  <2>3. chan' \in [Conns -> Seq(WSEvent)]
    BY <2>1, <2>2 DEF FeedTypeOK
  <2>4. event[e].at \ {c} \in SUBSET Conns
    BY EventTypes
  <2>5. event' \in [Events -> EventRec]
    BY <2>1, <2>4, EventTypes, RecTypes, BecomesType
  <2> QED BY <1>3, <2>3, <2>5 DEF Send, FeedTypeOK
<1>4. CASE PublishEnd(e)
  <2>1. PICK users \in Seq(People) : Notify(e, users)
    <3>1. CASE event[e].pc = "notice" /\ Notify(e, Tail(event[e].todo))
      BY <3>1, NextUser
    <3>2. CASE Notify(e, NotifyRecipients(event[e].aud))
      <4>1. NotifyRecipients(event[e].aud) \in Seq(People)
        BY EventTypes
      <4> QED BY <3>2, <4>1
    <3>3. CASE Notify(e, <<>>)
      <4> WITNESS <<>> \in Seq(People)
      <4> QED BY <3>3
    <3> QED BY <1>4, <3>1, <3>2, <3>3 DEF PublishEnd
  <2>2. event' \in [Events -> EventRec]
    BY <2>1, NotifyType
  <2> QED BY <1>4, <2>2 DEF PublishEnd, FeedTypeOK
<1>5. CASE Create(e) \/ CreateFail(e)
  <2>1. Tail(event[e].todo) \in Seq(People) /\ Head(event[e].todo) \in People
    BY <1>5, NextUser DEF Create, CreateFail
  <2>2. event' \in [Events -> EventRec]
    <3>1. CASE Create(e)
      BY <3>1, EventTypes, RecTypes, BecomesType DEF Create
    <3>2. CASE CreateFail(e)
      BY <2>1, <3>2, NotifyType DEF CreateFail
    <3> QED BY <1>5, <3>1, <3>2
  <2>3. row' \in [Events -> [People -> Nat]]
    <3>1. row' = row \/ row' = [row EXCEPT ![e][Head(event[e].todo)] = @ + 1]
      BY <1>5 DEF Create, CreateFail
    <3>2. row \in [Events -> [People -> Nat]]
      BY DEF FeedTypeOK
    <3>3. row[e][Head(event[e].todo)] + 1 \in Nat
      BY <2>1, <3>2
    <3> DEFINE h == Head(event[e].todo)
               n == row[e][h] + 1
    <3>4. [row EXCEPT ![e][h] = n] \in [Events -> [People -> Nat]]
      <4> HIDE DEF n
      <4> QED BY <2>1, <3>2, <3>3, RowGrows DEF n
    <3> QED BY <3>1, <3>2, <3>4
  <2> QED BY <1>5, <2>2, <2>3 DEF Create, CreateFail, FeedTypeOK
<1>6. CASE Push(e)
  <2>1. Head(event[e].todo) \in People
    BY <1>6, NextUser DEF Push
  <2>2. <<Head(event[e].todo)>> \in Seq(People)
    BY <2>1
  <2>3. Channels(<<Head(event[e].todo)>>) \in SUBSET Conns
    BY <2>2, ChannelsType
  <2>4. event' \in [Events -> EventRec]
    BY <1>6, <2>3, EventTypes, RecTypes, BecomesType DEF Push
  <2> QED BY <1>6, <2>4 DEF Push, FeedTypeOK
<1> QED BY <1>1, <1>2, <1>3, <1>4, <1>5, <1>6 DEF Handle

LEMMA ConnType ==
  ASSUME FeedTypeOK, NEW c \in Conns,
         Join(c) \/ Subscribe(c) \/ Deliver(c) \/ Leave(c) \/ Closing(c)
  PROVE  FeedTypeOK'
<1>1. conn' \in [Conns -> {"none", "joining", "open", "leaving", "locking", "gone"}]
  BY DEF Join, Subscribe, Deliver, Leave, Closing, AskLock, Unsubscribe, FeedTypeOK
<1>2. subs' \in [People -> SUBSET Conns]
  <2>1. \/ subs' = subs \/ subs' = [subs EXCEPT ![Owner[c]] = @ \cup {c}]
        \/ subs' = [subs EXCEPT ![Owner[c]] = @ \ {c}]
    BY DEF Join, Subscribe, Deliver, Leave, Closing, AskLock, Unsubscribe
  <2>2. subs \in [People -> SUBSET Conns]
    BY DEF FeedTypeOK
  <2> QED BY <2>1, <2>2
<1>3. chan' \in [Conns -> Seq(WSEvent)]
  <2>1. chan' = chan \/ (chan[c] # <<>> /\ chan' = [chan EXCEPT ![c] = Tail(@)])
    BY DEF Join, Subscribe, Deliver, Leave, Closing, AskLock, Unsubscribe
  <2>2. chan \in [Conns -> Seq(WSEvent)]
    BY DEF FeedTypeOK
  <2>3. chan[c] # <<>> => Tail(chan[c]) \in Seq(WSEvent)
    BY <2>2
  <2> QED BY <2>1, <2>2, <2>3
<1> QED BY <1>1, <1>2, <1>3
        DEF Join, Subscribe, Deliver, Leave, Closing, AskLock, Unsubscribe, FeedTypeOK

LEMMA RestartType == FeedTypeOK /\ Restart => FeedTypeOK'
<1> SUFFICES ASSUME FeedTypeOK, Restart PROVE FeedTypeOK'
  OBVIOUS
<1>1. event' \in [Events -> EventRec]
  BY EventTypes, RecTypes DEF Restart
<1>2. chan' \in [Conns -> Seq(WSEvent)]
  <2>1. <<>> \in Seq(WSEvent)
    OBVIOUS
  <2> QED BY <2>1 DEF Restart
<1> QED BY <1>1, <1>2 DEF FeedTypeOK, Restart

-----------------------------------------------------------------------------
(* The lock and the list of connections.                                   *)

LEMMA InitHub == FeedInit => HubInv
BY FeedAssumption DEF FeedInit, HubInv, Live, NoEvent, Publishing

LEMMA ChannelsLive ==
  ASSUME FeedTypeOK, HubInv, NEW users \in Seq(People), NEW c \in Channels(users)
  PROVE  conn[c] \in Live /\ \E i \in DOMAIN users : users[i] = Owner[c]
<1>1. PICK i \in DOMAIN users : c \in subs[users[i]]
  BY DEF Channels
<1>2. users[i] \in People /\ c \in Conns
  BY <1>1 DEF FeedTypeOK
<1> QED BY <1>1, <1>2 DEF HubInv

\* What a handler does leaves the list and the connections alone, and it takes
\* up no channel that is not in the list.
LEMMA EventHub ==
  ASSUME FeedTypeOK, HubInv, NEW e \in Events, UNCHANGED <<subs, conn>>,
         \A f \in Events \ {e} : event'[f] = event[f],
         event'[e].pc \in {"state", "notice"} => \A c \in event'[e].at : conn[c] \in Live
  PROVE  HubInv'
BY DEF HubInv, Publishing

LEMMA NotifyPc ==
  ASSUME FeedTypeOK, NEW e \in Events, NEW users, Notify(e, users)
  PROVE  /\ \A f \in Events \ {e} : event'[f] = event[f]
         /\ event'[e].pc = IF users = <<>> THEN "done" ELSE "create"
         /\ event'[e].todo = users
<1>1. event[e] \in EventRec
  BY EventTypes
<1> QED BY <1>1 DEF Notify, Becomes, FeedTypeOK, EventRec

LEMMA BecomesPc ==
  ASSUME FeedTypeOK, NEW e \in Events, NEW r, Becomes(e, r)
  PROVE  event'[e] = r /\ \A f \in Events \ {e} : event'[f] = event[f]
BY DEF FeedTypeOK, Becomes

LEMMA HandleHub ==
  ASSUME FeedTypeOK, HubInv, HandlerInv, NEW e \in Events, Handle(e) \/ Lose(e)
  PROVE  HubInv'
<1>0. event[e] \in EventRec
  BY EventTypes
<1>1. CASE Lose(e)
  <2>1. event'[e].pc = "done" /\ \A f \in Events \ {e} : event'[f] = event[f]
    BY <1>0, <1>1, BecomesPc DEF Lose, EventRec
  <2> QED BY <1>1, <2>1, EventHub DEF Lose
<1>2. CASE Emit(e)
  <2> DEFINE a == Channels(event[e].aud.users)
             r == [event[e] EXCEPT !.pc = "state", !.at = a]
  <2>0. Becomes(e, r) /\ r.at = a
    <3>1. Becomes(e, r)
      BY <1>2 DEF Emit
    <3>2. r.at = a
      <4> HIDE DEF a
      <4> QED BY <1>0, RecFields
    <3> QED BY <3>1, <3>2
  <2>1. event'[e].at = a /\ \A f \in Events \ {e} : event'[f] = event[f]
    <3> HIDE DEF r, a
    <3> QED BY <2>0, BecomesPc
  <2>2. event[e].aud.users \in Seq(People)
    BY EventTypes
  <2>3. \A c \in Channels(event[e].aud.users) : conn[c] \in Live
    BY <2>2, ChannelsLive
  <2> QED BY <1>2, <2>1, <2>3, EventHub DEF Emit
<1>3. CASE Send(e)
  <2>1. PICK c \in event[e].at : Becomes(e, [event[e] EXCEPT !.at = @ \ {c}])
    BY <1>3 DEF Send
  <2>2. event'[e].at = event[e].at \ {c} /\ \A f \in Events \ {e} : event'[f] = event[f]
    BY <1>0, <2>1, BecomesPc DEF EventRec
  <2>3. \A d \in event'[e].at : conn[d] \in Live
    BY <1>3, <2>2 DEF Send, HubInv
  <2> QED BY <1>3, <2>2, <2>3, EventHub DEF Send
<1>4. CASE PublishEnd(e) \/ CreateFail(e)
  <2>1. PICK users : Notify(e, users)
    BY <1>4 DEF PublishEnd, CreateFail
  <2>2. event'[e].pc \in {"done", "create"} /\ \A f \in Events \ {e} : event'[f] = event[f]
    BY <2>1, NotifyPc
  <2> QED BY <1>4, <2>2, EventHub DEF PublishEnd, CreateFail
<1>5. CASE Create(e)
  <2>1. event'[e].pc = "push" /\ \A f \in Events \ {e} : event'[f] = event[f]
    BY <1>0, <1>5, BecomesPc DEF Create, EventRec
  <2> QED BY <1>5, <2>1, EventHub DEF Create
<1>6. CASE Push(e)
  <2> DEFINE a == Channels(<<Head(event[e].todo)>>)
             r == [event[e] EXCEPT !.pc = "notice", !.at = a]
  <2>0. Becomes(e, r) /\ r.at = a
    <3>1. Becomes(e, r)
      BY <1>6 DEF Push
    <3>2. r.at = a
      <4> HIDE DEF a
      <4> QED BY <1>0, RecFields
    <3> QED BY <3>1, <3>2
  <2>1. event'[e].at = a /\ \A f \in Events \ {e} : event'[f] = event[f]
    <3> HIDE DEF r, a
    <3> QED BY <2>0, BecomesPc
  <2>2. <<Head(event[e].todo)>> \in Seq(People)
    BY <1>6, NextUser DEF Push
  <2>3. \A c \in Channels(<<Head(event[e].todo)>>) : conn[c] \in Live
    BY <2>2, ChannelsLive
  <2> QED BY <1>6, <2>1, <2>3, EventHub DEF Push
<1> QED BY <1>1, <1>2, <1>3, <1>4, <1>5, <1>6 DEF Handle

LEMMA FireHub ==
  ASSUME FeedTypeOK, HubInv, NEW e \in Events, NEW aud, Fire(e, aud), UNCHANGED <<subs, conn>>
  PROVE  HubInv'
<1> DEFINE r == [event[e] EXCEPT !.pc = "sent", !.aud = aud]
<1>1. Becomes(e, r) /\ r.pc = "sent"
  <2>1. event[e] \in EventRec
    BY EventTypes
  <2> QED BY <2>1 DEF Fire, EventRec
<1>2. event'[e].pc = "sent" /\ \A f \in Events \ {e} : event'[f] = event[f]
  <2> HIDE DEF r
  <2> QED BY <1>1, BecomesPc
<1> QED BY <1>2, EventHub

\* Whoever comes or goes has the lock for writing: nobody publishes then.
LEMMA ConnHub ==
  ASSUME FeedTypeOK, HubInv, NEW c \in Conns,
         Join(c) \/ Subscribe(c) \/ Deliver(c) \/ Leave(c) \/ Closing(c)
  PROVE  HubInv'
<1>0. Owner[c] \in People
  BY FeedAssumption
<1>1. CASE Subscribe(c)
  <2>1. \A d \in Conns : d \in subs'[Owner[d]] <=> conn'[d] \in Live
    BY <1>0, <1>1, FeedAssumption DEF Subscribe, HubInv, FeedTypeOK, Live
  <2>2. \A u \in People : \A d \in subs'[u] : Owner[d] = u
    BY <1>0, <1>1 DEF Subscribe, HubInv, FeedTypeOK
  <2>3. \A e \in Events : ~Publishing(e)'
    BY <1>1 DEF Subscribe, Readers, Publishing
  <2> QED BY <2>1, <2>2, <2>3 DEF HubInv
<1>2. CASE Deliver(c)
  BY <1>2 DEF Deliver, HubInv, Publishing
<1>3. CASE Join(c) \/ Leave(c) \/ AskLock(c)
  <2>1. /\ \A d \in Conns : conn'[d] \in Live <=> conn[d] \in Live
        /\ UNCHANGED <<subs, event>>
    BY <1>3 DEF Join, Leave, AskLock, FeedTypeOK, Live
  <2>2. \A e \in Events : \A d \in event[e].at : d \in Conns
    BY EventTypes
  <2> QED BY <2>1, <2>2 DEF HubInv, Publishing
<1>4. CASE Unsubscribe(c)
  <2>1. \A d \in Conns : d \in subs'[Owner[d]] <=> conn'[d] \in Live
    BY <1>0, <1>4, FeedAssumption DEF Unsubscribe, HubInv, FeedTypeOK, Live
  <2>2. \A u \in People : \A d \in subs'[u] : Owner[d] = u
    BY <1>0, <1>4 DEF Unsubscribe, HubInv, FeedTypeOK
  <2>3. \A e \in Events : ~Publishing(e)'
    BY <1>4 DEF Unsubscribe, Readers, Publishing
  <2> QED BY <2>1, <2>2, <2>3 DEF HubInv
<1> QED BY <1>1, <1>2, <1>3, <1>4 DEF Closing

LEMMA RestartPc ==
  ASSUME FeedTypeOK, Restart, NEW e \in Events
  PROVE  event'[e].pc \in {"none", "sent", "done"}
<1>1. event[e] \in EventRec
  BY EventTypes
<1> QED BY <1>1 DEF Restart, EventRec

LEMMA RestartHub ==
  ASSUME FeedTypeOK, HubInv, Restart
  PROVE  HubInv'
<1>1. \A e \in Events : ~Publishing(e)'
  BY RestartPc DEF Publishing
<1>2. \A c \in Conns : c \notin subs'[Owner[c]] /\ conn'[c] \notin Live
  BY FeedAssumption DEF Restart, Live
<1>3. \A u \in People : subs'[u] = {}
  BY DEF Restart
<1> QED BY <1>1, <1>2, <1>3 DEF HubInv

-----------------------------------------------------------------------------
(* The handlers.                                                           *)

LEMMA InitHandler == FeedInit => HandlerInv
BY DEF FeedInit, HandlerInv, HandlerAt, NoEvent

\* Rows are never taken back, so a step of one handler leaves the others as
\* they are.
LEMMA OtherHandlers ==
  ASSUME FeedTypeOK, HandlerInv, NEW e \in Events,
         \A f \in Events \ {e} : event'[f] = event[f],
         \A f \in Events, u \in People : row[f][u] > 0 => row'[f][u] > 0,
         HandlerAt(e)'
  PROVE  HandlerInv'
<1>1. ASSUME NEW f \in Events \ {e} PROVE HandlerAt(f)'
  <2>1. HandlerAt(f) /\ event'[f] = event[f]
    BY DEF HandlerInv
  <2>2. event[f].pc \in {"push", "notice"} => Head(event[f].todo) \in People
    BY NextUser
  <2> QED BY <2>1, <2>2 DEF HandlerAt
<1> QED BY <1>1 DEF HandlerInv

LEMMA HandleRows ==
  ASSUME FeedTypeOK, NEW e \in Events, Handle(e) \/ Lose(e)
  PROVE  \A f \in Events, u \in People : row[f][u] > 0 => row'[f][u] > 0
<1>1. row' = row \/ row' = [row EXCEPT ![e][Head(event[e].todo)] = @ + 1]
  BY DEF Handle, Emit, Send, PublishEnd, Create, CreateFail, Push, Lose
<1>2. row \in [Events -> [People -> Nat]]
  BY DEF FeedTypeOK
<1> QED BY <1>1, <1>2

\* A handler that goes on to the next users, or is over.
LEMMA NotifyHandler ==
  ASSUME FeedTypeOK, NEW e \in Events, NEW users, Notify(e, users)
  PROVE  HandlerAt(e)'
<1>1. CASE users = <<>>
  BY <1>1, NotifyPc DEF HandlerAt
<1>2. CASE users # <<>>
  BY <1>2, NotifyPc DEF HandlerAt
<1> QED BY <1>1, <1>2

\* A handler that is at pc now, with the channels at still to send to.
LEMMA Goes ==
  ASSUME FeedTypeOK, NEW e \in Events, NEW pc, NEW at,
         Becomes(e, [event[e] EXCEPT !.pc = pc, !.at = at])
  PROVE  event'[e].pc = pc /\ event'[e].at = at /\ event'[e].todo = event[e].todo
<1> DEFINE r == [event[e] EXCEPT !.pc = pc, !.at = at]
<1>1. r.pc = pc /\ r.at = at /\ r.todo = event[e].todo
  BY EventTypes, RecFields
<1> HIDE DEF r
<1> QED BY <1>1, BecomesPc DEF r

LEMMA HandleHandler ==
  ASSUME FeedTypeOK, HubInv, HandlerInv, NEW e \in Events, Handle(e) \/ Lose(e)
  PROVE  HandlerInv'
<1>0. event[e] \in EventRec /\ HandlerAt(e)
  BY EventTypes DEF HandlerInv
<1>1. \A f \in Events \ {e} : event'[f] = event[f]
  BY DEF Handle, Emit, Send, PublishEnd, Create, CreateFail, Push, Lose, Notify, Becomes,
         FeedTypeOK
<1>2. CASE Lose(e)
  <2>1. event'[e].pc = "done"
    BY <1>0, <1>2, BecomesPc DEF Lose, EventRec
  <2> QED BY <1>1, <1>2, <2>1, HandleRows, OtherHandlers DEF HandlerAt
<1>3. CASE Emit(e)
  <2>1. event'[e].pc = "state"
    BY <1>3, Goes DEF Emit
  <2> QED BY <1>1, <1>3, <2>1, HandleRows, OtherHandlers DEF HandlerAt
<1>4. CASE Send(e)
  <2>1. PICK c \in event[e].at : Becomes(e, [event[e] EXCEPT !.at = @ \ {c}])
    BY <1>4 DEF Send
  <2>2. /\ event'[e].pc = event[e].pc /\ event'[e].at = event[e].at \ {c}
        /\ event'[e].todo = event[e].todo
    BY <1>0, <2>1, BecomesPc DEF EventRec
  <2>3. HandlerAt(e)'
    BY <1>0, <1>4, <2>2 DEF HandlerAt, Send
  <2> QED BY <1>1, <1>4, <2>3, HandleRows, OtherHandlers
<1>5. CASE PublishEnd(e) \/ CreateFail(e)
  <2>1. PICK users : Notify(e, users)
    BY <1>5 DEF PublishEnd, CreateFail
  <2>2. HandlerAt(e)'
    BY <2>1, NotifyHandler
  <2> QED BY <1>1, <1>5, <2>2, HandleRows, OtherHandlers DEF Handle
<1>6. CASE Create(e)
  <2>1. event'[e].pc = "push" /\ event'[e].todo = event[e].todo
    BY <1>0, <1>6, BecomesPc DEF Create, EventRec
  <2>2. Head(event[e].todo) \in People
    BY <1>6, NextUser DEF Create
  <2>3. row'[e][Head(event[e].todo)] > 0
    <3>1. row \in [Events -> [People -> Nat]]
      BY DEF FeedTypeOK
    <3> QED BY <1>6, <2>2, <3>1 DEF Create
  <2>4. HandlerAt(e)'
    BY <1>0, <1>6, <2>1, <2>3 DEF HandlerAt, Create
  <2> QED BY <1>1, <1>6, <2>4, HandleRows, OtherHandlers DEF Handle
<1>7. CASE Push(e)
  <2>1. event'[e].pc = "notice" /\ event'[e].todo = event[e].todo
        /\ event'[e].at = Channels(<<Head(event[e].todo)>>)
    BY <1>7, Goes DEF Push
  <2>2. <<Head(event[e].todo)>> \in Seq(People)
    BY <1>7, NextUser DEF Push
  <2>3. \A c \in Channels(<<Head(event[e].todo)>>) : Owner[c] = Head(event[e].todo)
    <3>1. \A i \in DOMAIN <<Head(event[e].todo)>> :
            <<Head(event[e].todo)>>[i] = Head(event[e].todo)
      OBVIOUS
    <3> QED BY <2>2, <3>1, ChannelsLive
  <2>4. HandlerAt(e)'
    BY <1>0, <1>7, <2>1, <2>3 DEF HandlerAt, Push
  <2> QED BY <1>1, <1>7, <2>4, HandleRows, OtherHandlers DEF Handle
<1> QED BY <1>2, <1>3, <1>4, <1>5, <1>6, <1>7 DEF Handle

LEMMA FireHandler ==
  ASSUME FeedTypeOK, HandlerInv, NEW e \in Events, NEW aud, Fire(e, aud), UNCHANGED row
  PROVE  HandlerInv'
<1> DEFINE r == [event[e] EXCEPT !.pc = "sent", !.aud = aud]
<1>1. Becomes(e, r) /\ r.pc = "sent"
  <2>1. event[e] \in EventRec
    BY EventTypes
  <2> QED BY <2>1 DEF Fire, EventRec
<1>2. event'[e].pc = "sent" /\ \A f \in Events \ {e} : event'[f] = event[f]
  <2> HIDE DEF r
  <2> QED BY <1>1, BecomesPc
<1>3. HandlerAt(e)'
  BY <1>2 DEF HandlerAt
<1> QED BY <1>2, <1>3, OtherHandlers

LEMMA RestartHandler ==
  ASSUME FeedTypeOK, Restart
  PROVE  HandlerInv'
BY RestartPc DEF HandlerInv, HandlerAt

-----------------------------------------------------------------------------
(* What waits in the channels.                                             *)

LEMMA InitNotices == FeedInit => NoticeIsStored
BY DEF FeedInit, NoticeIsStored

LEMMA RowsKeep ==
  ASSUME FeedTypeOK, NoticeIsStored, UNCHANGED chan,
         \A f \in Events, u \in People : row[f][u] > 0 => row'[f][u] > 0
  PROVE  NoticeIsStored'
<1> SUFFICES ASSUME NEW c \in Conns, NEW i \in DOMAIN chan[c], chan[c][i].kind = "notice"
             PROVE  row'[chan[c][i].of][Owner[c]] > 0
  BY DEF NoticeIsStored
<1>1. chan[c][i] \in WSEvent
  BY DEF FeedTypeOK
<1>2. chan[c][i].of \in Events /\ Owner[c] \in People
  BY <1>1, FeedAssumption DEF WSEvent
<1> QED BY <1>2 DEF NoticeIsStored

LEMMA SendNotices ==
  ASSUME FeedTypeOK, HandlerInv, NoticeIsStored, NEW e \in Events, Send(e)
  PROVE  NoticeIsStored'
<1> DEFINE m == [kind |-> event[e].pc, of |-> e]
<1>1. PICK c \in event[e].at :
        chan' = [chan EXCEPT ![c] = IF Len(@) < ChanCap THEN Append(@, m) ELSE @]
  BY DEF Send
<1>2. c \in Conns /\ UNCHANGED row
  BY EventTypes DEF Send
<1>3. m.kind = event[e].pc /\ m.of = e
  OBVIOUS
<1>4. m.kind = "notice" => row[m.of][Owner[c]] > 0
  BY <1>3 DEF HandlerInv, HandlerAt
<1> HIDE DEF m
<1> SUFFICES ASSUME NEW d \in Conns, NEW i \in DOMAIN chan'[d], chan'[d][i].kind = "notice"
             PROVE  row[chan'[d][i].of][Owner[d]] > 0
  BY <1>2 DEF NoticeIsStored
<1>5. CASE chan'[d] = chan[d]
  BY <1>5 DEF NoticeIsStored
<1>6. CASE d = c /\ chan'[c] = Append(chan[c], m)
  <2>1. chan[c] \in Seq(WSEvent)
    BY <1>2 DEF FeedTypeOK
  <2>2. CASE i \in DOMAIN chan[c]
    <3>1. chan'[c][i] = chan[c][i]
      BY <1>6, <2>1, <2>2
    <3> QED BY <1>6, <2>2, <3>1 DEF NoticeIsStored
  <2>3. CASE i \notin DOMAIN chan[c]
    <3>1. chan'[c][i] = m
      BY <1>6, <2>1, <2>3
    <3> QED BY <1>4, <1>6, <3>1
  <2> QED BY <2>2, <2>3
<1>7. d # c => chan'[d] = chan[d]
  BY <1>1, <1>2 DEF FeedTypeOK
<1>8. chan'[c] = chan[c] \/ chan'[c] = Append(chan[c], m)
  BY <1>1, <1>2 DEF FeedTypeOK
<1> QED BY <1>5, <1>6, <1>7, <1>8

LEMMA HandleNotices ==
  ASSUME FeedTypeOK, HandlerInv, NoticeIsStored, NEW e \in Events, Handle(e) \/ Lose(e)
  PROVE  NoticeIsStored'
<1>1. CASE Send(e)
  BY <1>1, SendNotices
<1>2. CASE UNCHANGED chan
  BY <1>2, HandleRows, RowsKeep
<1>3. Send(e) \/ UNCHANGED chan
  BY DEF Handle, Emit, PublishEnd, Create, CreateFail, Push, Lose
<1> QED BY <1>1, <1>2, <1>3

LEMMA ConnNotices ==
  ASSUME FeedTypeOK, NoticeIsStored, NEW c \in Conns,
         Join(c) \/ Subscribe(c) \/ Deliver(c) \/ Leave(c) \/ Closing(c)
  PROVE  NoticeIsStored'
<1>1. CASE Deliver(c)
  <2> SUFFICES ASSUME NEW d \in Conns, NEW i \in DOMAIN chan'[d], chan'[d][i].kind = "notice"
               PROVE  row[chan'[d][i].of][Owner[d]] > 0
    BY <1>1 DEF NoticeIsStored, Deliver
  <2>1. d # c => chan'[d] = chan[d]
    BY <1>1 DEF Deliver, FeedTypeOK
  <2>2. CASE d = c
    <3>1. chan[c] \in Seq(WSEvent) /\ chan[c] # <<>> /\ chan'[c] = Tail(chan[c])
      BY <1>1 DEF Deliver, FeedTypeOK
    <3>2. i + 1 \in DOMAIN chan[c] /\ chan'[c][i] = chan[c][i + 1]
      BY <2>2, <3>1
    <3> QED BY <2>2, <3>2 DEF NoticeIsStored
  <2> QED BY <2>1, <2>2 DEF NoticeIsStored
<1>2. CASE UNCHANGED <<chan, row>>
  BY <1>2 DEF NoticeIsStored
<1>3. Deliver(c) \/ UNCHANGED <<chan, row>>
  BY DEF Join, Subscribe, Leave, Closing, AskLock, Unsubscribe
<1> QED BY <1>1, <1>2, <1>3

LEMMA RestartNotices == Restart => NoticeIsStored'
<1> SUFFICES ASSUME Restart PROVE NoticeIsStored'
  OBVIOUS
<1>1. \A c \in Conns : chan'[c] = <<>>
  BY DEF Restart
<1>2. DOMAIN <<>> = {}
  OBVIOUS
<1> QED BY <1>1, <1>2 DEF NoticeIsStored

-----------------------------------------------------------------------------
(* The theorems.                                                           *)

LEMMA StepOK ==
  ASSUME FeedOK, FeedNext
  PROVE  FeedOK'
<1> USE DEF FeedOK
<1>1. CASE \E e \in Events : Lose(e) \/ Handle(e)
  BY <1>1, HandleType, HandleHub, HandleHandler, HandleNotices
<1>2. CASE \E c \in Conns : Join(c) \/ Subscribe(c) \/ Deliver(c) \/ Leave(c) \/ Closing(c)
  <2> PICK c \in Conns : Join(c) \/ Subscribe(c) \/ Deliver(c) \/ Leave(c) \/ Closing(c)
    BY <1>2
  <2>1. UNCHANGED <<event, row>>
    BY DEF Join, Subscribe, Deliver, Leave, Closing, AskLock, Unsubscribe
  <2>2. HandlerInv'
    BY <2>1 DEF HandlerInv, HandlerAt
  <2> QED BY <2>2, ConnType, ConnHub, ConnNotices
<1>3. CASE Restart
  BY <1>3, RestartType, RestartHub, RestartHandler, RestartNotices
<1>4. CASE \E e \in Events, u \in People : MarkRead(e, u)
  <2> PICK e \in Events, u \in People : MarkRead(e, u)
    BY <1>4
  <2>1. UNCHANGED <<event, subs, chan, conn, row>> /\ read' = read \cup {<<e, u>>}
    BY DEF MarkRead
  <2>2. FeedTypeOK'
    BY <2>1 DEF FeedTypeOK
  <2>3. HubInv' /\ HandlerInv' /\ NoticeIsStored'
    BY <2>1 DEF HubInv, HandlerInv, HandlerAt, NoticeIsStored, Publishing
  <2> QED BY <2>2, <2>3
<1>5. CASE \E e \in Events, aud \in Audience :
             Fire(e, aud) /\ UNCHANGED <<subs, chan, conn, row, read>>
  <2> PICK e \in Events, aud \in Audience :
        Fire(e, aud) /\ UNCHANGED <<subs, chan, conn, row, read>>
    BY <1>5
  <2>1. NoticeIsStored'
    BY DEF NoticeIsStored
  <2> QED BY <2>1, FireType, FireHub, FireHandler
<1> QED BY <1>1, <1>2, <1>3, <1>4, <1>5 DEF FeedNext, FeedStep

\* The inductive invariant.
LEMMA FeedCorrect == FeedSpec => []FeedOK
<1>1. FeedInit => FeedOK
  BY InitType, InitHub, InitHandler, InitNotices DEF FeedOK
<1>2. FeedOK /\ [FeedNext]_feedVars => FeedOK'
  <2> SUFFICES ASSUME FeedOK, [FeedNext]_feedVars PROVE FeedOK'
    OBVIOUS
  <2>1. CASE FeedNext
    BY <2>1, StepOK
  <2>2. CASE UNCHANGED feedVars
    BY <2>2 DEF feedVars, FeedOK, FeedTypeOK, HubInv, HandlerInv, HandlerAt, NoticeIsStored,
                Publishing
  <2> QED BY <2>1, <2>2
<1> QED BY <1>1, <1>2, PTL DEF FeedSpec

\* The variables of the notifications service keep their types.
THEOREM FeedTypeCorrect == FeedSpec => []FeedTypeOK
<1>1. FeedOK => FeedTypeOK
  BY DEF FeedOK
<1> QED BY <1>1, FeedCorrect, PTL

\* Whatever connects, leaves or restarts while events are published, no channel
\* is closed that a send is still to go to (Hub.Publish and Hub.Subscribe).
THEOREM SendsAreSafe == FeedSpec => []NeverSendOnClosed
<1>1. FeedOK => NeverSendOnClosed
  BY EventTypes DEF FeedOK, HubInv, NeverSendOnClosed, Live
<1> QED BY <1>1, FeedCorrect, PTL

\* A notification on its way to a client is in the client's feed (emit stores
\* before it publishes, and nothing deletes a notification).
THEOREM NoticesAreStored == FeedSpec => []NoticeIsStored
<1>1. FeedOK => NoticeIsStored
  BY DEF FeedOK
<1> QED BY <1>1, FeedCorrect, PTL
=============================================================================
