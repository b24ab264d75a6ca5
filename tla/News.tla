-------------------------------- MODULE News --------------------------------
(***************************************************************************)
(* What the orders service tells whom.  The requests on one order, told    *)
(* here by what they write and report: a handler loads the order, writes,  *)
(* reads the order back and fires an event with what it read.  Events go   *)
(* to the notifications service, module Feed, which stores and publishes   *)
(* them; the n-th event of the request at desk d is <<d, n>>.              *)
(***************************************************************************)
EXTENDS Feed, LegStatus, FiniteSets, SequencesExt

CONSTANTS
  Client, Admin,  \* the client of the order, and the back office
  Executors,      \* users who accept legs
  Moves,          \* statuses an executor may ask for
  Desks,          \* requests, each served once
  Unassigned      \* the executor of a leg nobody has

ASSUME NewsAssumption ==
  /\ {Client, Admin} \cup Executors \subseteq People
  /\ Unassigned \notin People /\ Moves \subseteq Statuses
  /\ Events = Desks \X (1..(Cardinality(LegNames) + 1))

VARIABLES
  legs,      \* status and executor of each leg of the order
  edition,   \* how often the order has been written
  desk,      \* the requests
  told,      \* history: the edition of the order each event carries, or 0
  unheard    \* history: editions whose request ended without telling

newsVars == <<legs, edition, desk, told, unheard>>
newsAndFeedVars == <<feedVars, newsVars>>

\* snapshot: the participants as loaded; owed: payees confirm has yet to pay;
\* mine: the edition it wrote; seen: the one it read back; n: events fired.
DeskRec == [op : {"none", "accept", "status", "cancel", "confirm"},
            pc : {"idle", "claim", "open", "rollback", "write", "refund", "pay", "reload",
                  "tell", "tellTx", "over"},
            leg : LegNames \cup {Unassigned}, actor : People \cup {Unassigned},
            to : Statuses, snapshot : Seq(People), owed : Seq(People),
            mine : Nat, seen : Nat, n : Nat]
Vacant == [op |-> "none", pc |-> "idle", leg |-> Unassigned, actor |-> Unassigned,
           to |-> "draft", snapshot |-> <<>>, owed |-> <<>>, mine |-> 0, seen |-> 0, n |-> 0]

-----------------------------------------------------------------------------
(* Audiences.                                                              *)

\* What stands at the places I of a sequence, in its order.
Nth(I, k) == CHOOSE i \in I : Cardinality({j \in I : j <= i}) = k
Kept(s, I) == [k \in 1..Cardinality(I) |-> s[Nth(I, k)]]

\* Where a user is named for the first time.
Firsts(users) == {i \in DOMAIN users : \A j \in DOMAIN users : j < i => users[j] # users[i]}

\* Mutant: ids are taken as they come.
dedupeNot(users) == users
\* Each user once, at the first place.
dedupe(users) == Kept(users, Firsts(users))

\* The distinct executors, in the order of the legs, and with the client before
\* them.
LegOrder == <<"transport", "equipment", "labor">>
ExecutorsOf(ls) ==
  [i \in 1..3 |-> IF LegOrder[i] \in DOMAIN ls THEN ls[LegOrder[i]].executor ELSE Unassigned]
payees(ls) ==
  LET who == ExecutorsOf(ls) IN Kept(who, {i \in Firsts(who) : who[i] # Unassigned})
participants(ls) == <<Client>> \o payees(ls)
counterparties(known, actor) == Kept(known, {i \in DOMAIN known : known[i] # actor})

\* emitTo.
To(users, notify, only) == [users |-> dedupe(users), notify |-> notify, only |-> dedupe(only)]

-----------------------------------------------------------------------------
(* Plumbing.                                                               *)

Is(d, pc) == desk[d].pc = pc
Go(d, pc) == desk' = [desk EXCEPT ![d].pc = pc]
Open(d, r) == /\ desk[d] = Vacant
              /\ desk' = [desk EXCEPT ![d] = r]
              /\ UNCHANGED <<feedVars, legs, edition, told, unheard>>

\* A write of request d, after which it goes on at pc.
Write(d, ls, pc) ==
  /\ legs' = ls /\ edition' = edition + 1
  /\ desk' = [desk EXCEPT ![d].pc = pc, ![d].mine = edition + 1]
  /\ UNCHANGED <<feedVars, told>>

\* The next event of d, about the given edition, after which it goes on at r.
Tell(d, aud, ed, r) ==
  LET e == <<d, desk[d].n + 1>> IN
  /\ Fire(e, aud)
  /\ told' = [told EXCEPT ![e] = ed]
  /\ desk' = [desk EXCEPT ![d] = [r EXCEPT !.n = @ + 1]]
  /\ UNCHANGED <<subs, chan, conn, row, read, legs, edition, unheard>>

-----------------------------------------------------------------------------
(* accept.                                                                 *)

AcceptLoad(d, l, u) ==
  /\ l \in DOMAIN legs
  /\ Open(d, [Vacant EXCEPT !.op = "accept", !.pc = "claim", !.leg = l, !.actor = u])

ClaimLeg(d) ==
  /\ Is(d, "claim")
  /\ LET l == desk[d].leg IN
       IF legs[l].executor = Unassigned /\ legs[l].status = "published"
       THEN Write(d, [legs EXCEPT ![l] = [status |-> "accepted", executor |-> desk[d].actor]],
                  "open") /\ UNCHANGED unheard
       ELSE Go(d, "over") /\ UNCHANGED <<feedVars, legs, edition, told, unheard>>

\* The wallet holds the money, or the claim is rolled back and nobody is told.
EscrowAnswer(d) ==
  /\ Is(d, "open")
  /\ Go(d, "reload") \/ Go(d, "rollback")
  /\ UNCHANGED <<feedVars, legs, edition, told, unheard>>

ReleaseLegClaim(d) ==
  /\ Is(d, "rollback")
  /\ Write(d, [legs EXCEPT ![desk[d].leg] = [status |-> "published", executor |-> Unassigned]],
           "over")
  /\ unheard' = unheard \cup {desk[d].mine, edition + 1}

-----------------------------------------------------------------------------
(* status, cancel and confirm.                                             *)

StatusLoad(d, l, u, to) ==
  /\ l \in DOMAIN legs
  /\ u \in {legs[l].executor, Admin} /\ legs[l].executor # Unassigned
  /\ CanTransition(legs[l].status, to)
  /\ Open(d, [Vacant EXCEPT !.op = "status", !.pc = "write", !.leg = l, !.actor = u, !.to = to])

CancelLoad(d, u) ==
  /\ u \in {Client, Admin}
  /\ \A l \in DOMAIN legs : cancellable(legs[l].status)
  /\ Open(d, [Vacant EXCEPT !.op = "cancel", !.pc = "write", !.actor = u,
                !.to = "cancelled", !.snapshot = participants(legs)])

ConfirmLoad(d, u) ==
  /\ u \in {Client, Admin}
  /\ IsReadyForClientConfirmation({legs[l].status : l \in DOMAIN legs})
  /\ Open(d, [Vacant EXCEPT !.op = "confirm", !.pc = "write", !.actor = u,
                !.to = "completed", !.snapshot = participants(legs), !.owed = payees(legs)])

\* UpdateLegStatus, Cancel, CompleteAllLegs.
WriteStatus(d) ==
  /\ Is(d, "write")
  /\ LET r == desk[d]
         which == IF r.op = "status" THEN {r.leg} ELSE DOMAIN legs
     IN  Write(d, [l \in DOMAIN legs |-> IF l \in which THEN [legs[l] EXCEPT !.status = r.to]
                                         ELSE legs[l]],
               CASE r.op = "status" -> "reload" [] r.op = "cancel" -> "refund" [] OTHER -> "pay")
  /\ UNCHANGED unheard

\* The refund's outcome is only worded into the notification.
Refunded(d) ==
  /\ Is(d, "refund") /\ Go(d, "reload")
  /\ UNCHANGED <<feedVars, legs, edition, told, unheard>>

\* One release: its payee is told, or it failed and is skipped.
PayNext(d) ==
  LET r == desk[d]
      next == [r EXCEPT !.owed = Tail(@)]
  IN
  /\ Is(d, "pay") /\ r.owed # <<>>
  /\ \/ Tell(d, To(<<Head(r.owed)>>, TRUE, <<>>), 0, next)
     \/ desk' = [desk EXCEPT ![d] = next] /\ UNCHANGED <<feedVars, legs, edition, told, unheard>>

PayEnd(d) ==
  /\ Is(d, "pay") /\ desk[d].owed = <<>> /\ Go(d, "reload")
  /\ UNCHANGED <<feedVars, legs, edition, told, unheard>>

-----------------------------------------------------------------------------
(* Telling.                                                                *)

\* Mutant: the order is reported as the request left it, not as it is.
ReloadLoaded(d) ==
  /\ Is(d, "reload")
  /\ desk' = [desk EXCEPT ![d].pc = "tell", ![d].seen = desk[d].mine - 1]
  /\ UNCHANGED <<feedVars, legs, edition, told, unheard>>

\* Store.ByID after the write.
Reload(d) ==
  /\ Is(d, "reload")
  /\ desk' = [desk EXCEPT ![d].pc = "tell", ![d].seen = edition]
  /\ UNCHANGED <<feedVars, legs, edition, told, unheard>>

\* Who gets order.updated, and who of them the notification.
NewsFor(r) ==
  CASE r.op = "accept"  -> To(<<Client, r.actor>>, TRUE, <<Client>>)
    [] r.op = "status"  -> To(<<Client, r.actor>>, TRUE, <<Client>>)
    [] r.op = "cancel"  -> To(r.snapshot, TRUE, counterparties(r.snapshot, r.actor))
    [] r.op = "confirm" -> To(r.snapshot, FALSE, <<>>)

TellOrder(d) ==
  /\ Is(d, "tell")
  /\ Tell(d, NewsFor(desk[d]), desk[d].seen,
          [desk[d] EXCEPT !.pc = IF desk[d].op = "accept" THEN "tellTx" ELSE "over"])

\* transaction.updated after an accept.
TellTransaction(d) ==
  /\ Is(d, "tellTx")
  /\ Tell(d, To(<<Client, desk[d].actor>>, FALSE, <<>>), 0, [desk[d] EXCEPT !.pc = "over"])

\* A statement fails or the process stops: what has been written stays untold.
DeskFail(d) ==
  /\ desk[d].pc \notin {"idle", "over"}
  /\ Go(d, "over")
  /\ unheard' = unheard \cup ({desk[d].mine} \ {0})
  /\ UNCHANGED <<feedVars, legs, edition, told>>

Serve(d) ==
  \/ \E l \in LegNames, u \in Executors : AcceptLoad(d, l, u)
  \/ \E l \in LegNames, u \in People, to \in Moves : StatusLoad(d, l, u, to)
  \/ \E u \in People : CancelLoad(d, u) \/ ConfirmLoad(d, u)
  \/ ClaimLeg(d) \/ EscrowAnswer(d) \/ ReleaseLegClaim(d)
  \/ WriteStatus(d) \/ Refunded(d) \/ PayNext(d) \/ PayEnd(d)
  \/ Reload(d) \/ TellOrder(d) \/ TellTransaction(d) \/ DeskFail(d)

\* Legs and who has them.
LegTable == [status : Statuses, executor : People \cup {Unassigned}]
Orders == UNION {[ls -> LegTable] : ls \in (SUBSET LegNames) \ {{}}}

\* The order starts with the legs given.
NewsInit(ls) ==
  /\ FeedInit
  /\ legs = ls /\ edition = 0
  /\ desk = [d \in Desks |-> Vacant]
  /\ told = [e \in Events |-> 0] /\ unheard = {}

NewsNext ==
  \/ \E d \in Desks : Serve(d)
  \/ FeedStep /\ UNCHANGED newsVars
  \/ \E e \in Events, u \in People : MarkRead(e, u) /\ UNCHANGED newsVars

\* Any order may be there to start with.
NewsSpec == (\E ls \in Orders : NewsInit(ls)) /\ [][NewsNext]_newsAndFeedVars

-----------------------------------------------------------------------------
(* Correctness.                                                            *)

NewsTypeOK ==
  /\ legs \in Orders /\ edition \in Nat
  /\ desk \in [Desks -> DeskRec]
  /\ told \in [Events -> Nat] /\ unheard \subseteq Nat

\* "every participant needs the updated object so their screen is correct"
\* (models.EmitEventRequest): of every change of the order the client is told
\* by an event that shows the order no older than the change, unless the
\* request failed or rolled it back.  Requests overlap, and each tells what it
\* reads back.
ChangesAreTold ==
  \A w \in 1..edition :
    \/ w \in unheard
    \/ \E d \in Desks : desk[d].mine = w /\ desk[d].pc # "over"
    \/ \E e \in Events : told[e] >= w /\ Contains(event[e].aud.users, Client)

\* Nobody finds one event twice in the feed, though one user may be client and
\* executor, or executor of several legs, and a failing insert may have been
\* executed.
ToldOnce == \A e \in Events, u \in People : row[e][u] <= 1

\* "The actor should not be told about their own action" (emitTo).  The code
\* keeps this but for a client that is also an executor, for one that cancels an
\* order nobody else has a leg of (then there is no counterparty, and
\* NotifyRecipients falls back on everybody), and for whoever confirms an order
\* and is paid by that.
ActorToldOnlyAlone ==
  \A d \in Desks, n \in 1..(Cardinality(LegNames) + 1) :
    LET r == desk[d] IN
    r.actor \in People /\ row[<<d, n>>][r.actor] > 0 =>
      IF r.op = "confirm" THEN Contains(Tail(r.snapshot), r.actor)
      ELSE /\ r.actor = Client
           /\ r.op = "cancel" => counterparties(r.snapshot, Client) = <<>>
=============================================================================
