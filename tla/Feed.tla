-------------------------------- MODULE Feed --------------------------------
(***************************************************************************)
(* The notifications service.  Other services fire events at it, on        *)
(* goroutines of their own; it publishes each to the WebSocket connections *)
(* of the users named and, if asked to, stores a row for each user to be   *)
(* notified and publishes that.  The hub is a map from users to channels   *)
(* of bounded capacity under a read-write lock: publishing holds it for    *)
(* reading, a connection that comes or goes takes it for writing.          *)
(***************************************************************************)
EXTENDS Integers, Sequences

CONSTANTS
  People,    \* users
  Events,    \* events fired, each once
  Conns,     \* WebSocket connections, each opened once
  Owner,     \* the user of each connection
  ChanCap    \* capacity of a channel

ASSUME FeedAssumption ==
  /\ Owner \in [Conns -> People]
  /\ ChanCap \in Nat \ {0}

VARIABLES
  event,   \* each event: its request, and its handler's progress
  subs,    \* Hub.subs
  chan,    \* what a connection's channel holds
  conn,    \* the life of each connection
  row,     \* notifications.notifications: rows per event and user
  read     \* which of them are marked read

feedVars == <<event, subs, chan, conn, row, read>>

\* models.EmitEventRequest: who gets the event, is there a notification, and
\* who alone gets that.
Audience == [users : Seq(People), notify : BOOLEAN, only : Seq(People)]
NoAudience == [users |-> <<>>, notify |-> FALSE, only |-> <<>>]

\* at: the channels Publish has still to send to; todo: users to notify.
EventRec == [pc : {"none", "sent", "state", "create", "push", "notice", "done"},
             aud : Audience, at : SUBSET Conns, todo : Seq(People)]
NoEvent == [pc |-> "none", aud |-> NoAudience, at |-> {}, todo |-> <<>>]

WSEvent == [kind : {"state", "notice"}, of : Events]

FeedInit ==
  /\ event = [e \in Events |-> NoEvent]
  /\ subs = [u \in People |-> {}]
  /\ chan = [c \in Conns |-> <<>>]
  /\ conn = [c \in Conns |-> "none"]
  /\ row = [e \in Events |-> [u \in People |-> 0]]
  /\ read = {}

-----------------------------------------------------------------------------
(* The lock of the hub.                                                    *)

Publishing(e) == event[e].pc \in {"state", "notice"}
Readers == {e \in Events : Publishing(e)}

\* One writer at a time waits for the readers to finish, and keeps new ones out.
NoWriter == \A c \in Conns : conn[c] \notin {"joining", "locking"}

-----------------------------------------------------------------------------
(* Events: svc.Client.Fire and POST /internal/events.                      *)

\* An event, or its handler, goes on as r.
Becomes(e, r) == event' = [event EXCEPT ![e] = r]

Fire(e, aud) ==
  /\ event[e].pc = "none"
  /\ Becomes(e, [event[e] EXCEPT !.pc = "sent", !.aud = aud])

\* The request never arrives, or its 3 s are over before it is handled.
Lose(e) ==
  /\ event[e].pc = "sent"
  /\ Becomes(e, [event[e] EXCEPT !.pc = "done"])
  /\ UNCHANGED <<subs, chan, conn, row, read>>

\* Nobody is named twice, and the order of the sends is left open.
Channels(users) == UNION {subs[users[i]] : i \in DOMAIN users}

\* Publish of the event itself begins.
Emit(e) ==
  /\ event[e].pc = "sent" /\ NoWriter
  /\ Becomes(e, [event[e] EXCEPT !.pc = "state", !.at = Channels(event[e].aud.users)])
  /\ UNCHANGED <<subs, chan, conn, row, read>>

\* Mutant: the send waits for room.
SendWaiting(e) ==
  /\ Publishing(e)
  /\ \E c \in event[e].at :
       /\ Len(chan[c]) < ChanCap
       /\ chan' = [chan EXCEPT ![c] = Append(@, [kind |-> event[e].pc, of |-> e])]
       /\ Becomes(e, [event[e] EXCEPT !.at = @ \ {c}])
  /\ UNCHANGED <<subs, conn, row, read>>

\* One send of Publish: it never waits, a full channel misses the event.
Send(e) ==
  /\ Publishing(e)
  /\ \E c \in event[e].at :
       /\ chan' = [chan EXCEPT ![c] = IF Len(@) < ChanCap
                                      THEN Append(@, [kind |-> event[e].pc, of |-> e]) ELSE @]
       /\ Becomes(e, [event[e] EXCEPT !.at = @ \ {c}])
  /\ UNCHANGED <<subs, conn, row, read>>

\* Mutant: whoever gets the event gets the notification.
NotifyAll(aud) == aud.users
NotifyRecipients(aud) == IF aud.only # <<>> THEN aud.only ELSE aud.users

\* The handler goes on with these users, or is over.
Notify(e, users) ==
  Becomes(e, [event[e] EXCEPT !.pc = IF users = <<>> THEN "done" ELSE "create", !.todo = users])

PublishEnd(e) ==
  /\ Publishing(e) /\ event[e].at = {}
  /\ \/ event[e].pc = "notice" /\ Notify(e, Tail(event[e].todo))
     \/ /\ event[e].pc = "state" /\ event[e].aud.notify
        /\ Notify(e, NotifyRecipients(event[e].aud))
     \/ event[e].pc = "state" /\ ~event[e].aud.notify /\ Notify(e, <<>>)
  /\ UNCHANGED <<subs, chan, conn, row, read>>

\* Mutant: an error is logged and the notification pushed all the same.
CreatePushing(e) ==
  /\ event[e].pc = "create"
  /\ \/ row' = [row EXCEPT ![e][Head(event[e].todo)] = @ + 1]
     \/ UNCHANGED row
  /\ Becomes(e, [event[e] EXCEPT !.pc = "push"])
  /\ UNCHANGED <<subs, chan, conn, read>>

\* Store.Create for the next user to notify.
Create(e) ==
  /\ event[e].pc = "create"
  /\ row' = [row EXCEPT ![e][Head(event[e].todo)] = @ + 1]
  /\ Becomes(e, [event[e] EXCEPT !.pc = "push"])
  /\ UNCHANGED <<subs, chan, conn, read>>

\* It fails, executed or not, by itself or because the caller's 3 s are over:
\* on with the next user.
CreateFail(e) ==
  /\ event[e].pc = "create"
  /\ \/ row' = [row EXCEPT ![e][Head(event[e].todo)] = @ + 1]
     \/ UNCHANGED row
  /\ Notify(e, Tail(event[e].todo))
  /\ UNCHANGED <<subs, chan, conn, read>>

\* Publish of the stored notification begins.
Push(e) ==
  /\ event[e].pc = "push" /\ NoWriter
  /\ Becomes(e, [event[e] EXCEPT !.pc = "notice", !.at = Channels(<<Head(event[e].todo)>>)])
  /\ UNCHANGED <<subs, chan, conn, row, read>>

\* PATCH /notifications/{id}/read, by the owner.
MarkRead(e, u) ==
  /\ row[e][u] > 0
  /\ read' = read \cup {<<e, u>>}
  /\ UNCHANGED <<event, subs, chan, conn, row>>

-----------------------------------------------------------------------------
(* Connections: GET /ws.                                                   *)

\* A new connection asks for the lock.
Join(c) ==
  /\ conn[c] = "none" /\ NoWriter
  /\ conn' = [conn EXCEPT ![c] = "joining"]
  /\ UNCHANGED <<event, subs, chan, row, read>>

\* It gets it, and its channel is listed.
Subscribe(c) ==
  /\ conn[c] = "joining" /\ Readers = {}
  /\ conn' = [conn EXCEPT ![c] = "open"]
  /\ subs' = [subs EXCEPT ![Owner[c]] = @ \cup {c}]
  /\ UNCHANGED <<event, chan, row, read>>

\* The loop takes an event and writes it to the socket.
Deliver(c) ==
  /\ conn[c] = "open" /\ chan[c] # <<>>
  /\ chan' = [chan EXCEPT ![c] = Tail(@)]
  /\ UNCHANGED <<event, subs, conn, row, read>>

\* The client is gone, or a ping or a write fails: the loop ends, its channel
\* is not read any more, and the deferred unsubscribe will ask for the lock.
Leave(c) ==
  /\ conn[c] = "open"
  /\ conn' = [conn EXCEPT ![c] = "leaving"]
  /\ UNCHANGED <<event, subs, chan, row, read>>

AskLock(c) ==
  /\ conn[c] = "leaving" /\ NoWriter
  /\ conn' = [conn EXCEPT ![c] = "locking"]
  /\ UNCHANGED <<event, subs, chan, row, read>>

\* Mutant: the channel is closed without the lock.
UnsubscribeUnlocked(c) ==
  /\ conn[c] = "locking"
  /\ conn' = [conn EXCEPT ![c] = "gone"]
  /\ subs' = [subs EXCEPT ![Owner[c]] = @ \ {c}]
  /\ UNCHANGED <<event, chan, row, read>>

\* The channel leaves the list and is closed.
Unsubscribe(c) ==
  /\ conn[c] = "locking" /\ Readers = {}
  /\ conn' = [conn EXCEPT ![c] = "gone"]
  /\ subs' = [subs EXCEPT ![Owner[c]] = @ \ {c}]
  /\ UNCHANGED <<event, chan, row, read>>

\* The process restarts: the hub and the events in hand are lost, rows stay.
Restart ==
  /\ event' = [e \in Events |->
                 IF event[e].pc \in {"none", "sent"} THEN event[e]
                 ELSE [event[e] EXCEPT !.pc = "done", !.at = {}, !.todo = <<>>]]
  /\ subs' = [u \in People |-> {}]
  /\ chan' = [c \in Conns |-> <<>>]
  /\ conn' = [c \in Conns |-> IF conn[c] = "none" THEN "none" ELSE "gone"]
  /\ UNCHANGED <<row, read>>

Handle(e) == Emit(e) \/ Send(e) \/ PublishEnd(e) \/ Create(e) \/ CreateFail(e) \/ Push(e)
Closing(c) == AskLock(c) \/ Unsubscribe(c)

\* What the service does by itself.
FeedStep ==
  \/ \E e \in Events : Lose(e) \/ Handle(e)
  \/ \E c \in Conns : Join(c) \/ Subscribe(c) \/ Deliver(c) \/ Leave(c) \/ Closing(c)
  \/ Restart

FeedNext ==
  \/ FeedStep
  \/ \E e \in Events, u \in People : MarkRead(e, u)
  \/ \E e \in Events, aud \in Audience : Fire(e, aud) /\ UNCHANGED <<subs, chan, conn, row, read>>

FeedSpec == FeedInit /\ [][FeedNext]_feedVars

\* A handler and a connection that comes or closes go on: nothing in them waits
\* for a client, and the lock goes to whoever waits.
FeedFairness ==
  /\ \A e \in Events : WF_feedVars(Handle(e) /\ event[e].pc # "sent")
  /\ \A c \in Conns : WF_feedVars(Subscribe(c) \/ Closing(c))

-----------------------------------------------------------------------------
(* Correctness.                                                            *)

FeedTypeOK ==
  /\ event \in [Events -> EventRec]
  /\ subs \in [People -> SUBSET Conns] /\ chan \in [Conns -> Seq(WSEvent)]
  /\ conn \in [Conns -> {"none", "joining", "open", "leaving", "locking", "gone"}]
  /\ row \in [Events -> [People -> Nat]] /\ read \subseteq Events \X People

\* A channel that Publish has still to send to has not been closed: sending on
\* it would panic and end the process.
NeverSendOnClosed ==
  \A e \in Events : Publishing(e) =>
    \A c \in event[e].at : conn[c] # "gone"

\* "REST polling catches up" (Hub.Publish): a notification waiting in a channel
\* is in the table, for the very user of the connection, so a client that
\* fetches the feed on its arrival finds it, and one that misses it as well.
NoticeIsStored ==
  \A c \in Conns : \A i \in DOMAIN chan[c] :
    chan[c][i].kind = "notice" => row[chan[c][i].of][Owner[c]] > 0

\* "Dropping beats blocking the emitting service" (Hub.Publish): an event in
\* hand is dealt with and a connection that ends is removed, whatever clients
\* do.  A send that waited for room would wait under the lock for a connection
\* that waits for the lock.
HubSettles ==
  /\ \A e \in Events : event[e].pc \notin {"none", "sent"} ~> event[e].pc = "done"
  /\ \A c \in Conns : conn[c] = "leaving" ~> conn[c] = "gone"
=============================================================================
