------------------------------ MODULE MCPeople ------------------------------
(***************************************************************************)
(* Carriers, Ratings and News on small tables, each behaviour playing one  *)
(* scene.  The components share no variable.  The whole Spec of Accounts   *)
(* is too wide to enumerate, so it has three scenes: confirming phones,    *)
(* registering on phones that are confirmed, or signing in as a user who   *)
(* is registered.  A scene starts in a state of its component and takes    *)
(* its steps; the other components stay as they start.                     *)
(***************************************************************************)
EXTENDS Carriers, Ratings, News, TLC

CONSTANTS p1, p2, v1, v2, k1, k2, l1, l2, m1, m2, m3, cl, e1

VARIABLE scene

-----------------------------------------------------------------------------
(* Accounts.                                                               *)

\* A confirmed code.
Confirmed(p) == [NoCode EXCEPT !.phone = p, !.verified = TRUE]

MCCodes == scene = "codes" /\ Init

MCRegistration ==
  /\ scene = "registration"
  /\ \E p \in Phones :
       otp = [v \in Verifs |-> Confirmed(IF v = v1 THEN p1 ELSE p)]
  /\ pass = [k \in Passes |-> NoPass] /\ made = [k \in Passes |-> 0]
  /\ users = [p \in Phones |-> NoUser]
  /\ tokens = [t \in Tokens |-> "absent"] /\ spent = [t \in Tokens |-> 0]
  /\ job = [s \in Slots |-> Idle] /\ second = 0

\* One user, registered with k1 on the confirmation v1.
MCSessions ==
  /\ scene = "sessions"
  /\ otp = [v \in Verifs |-> IF v = v1 THEN Confirmed(p1) ELSE NoCode]
  /\ pass = [k \in Passes |->
               IF k = k1 THEN [status |-> "consumed", verif |-> v1, fit |-> TRUE]
               ELSE NoPass]
  /\ made = [k \in Passes |-> IF k = k1 THEN 1 ELSE 0]
  /\ users = [p \in Phones |->
                IF p = p1 THEN [status |-> "approved", role |-> "client", pass |-> k1]
                ELSE NoUser]
  /\ tokens = [t \in Tokens |-> "absent"] /\ spent = [t \in Tokens |-> 0]
  /\ job = [s \in Slots |-> Idle] /\ second = 0

MCAccountsScenes == MCCodes \/ MCRegistration \/ MCSessions

MCAccountsNext ==
  \/ scene = "codes" /\ \E s \in Slots : Codes(s) \/ Fail(s)
  \/ scene = "codes" /\ \E v \in Verifs : AgeCode(v)
  \/ scene = "registration"
       /\ \E s \in Slots : Registration(s) \/ SaveRefreshToken(s) \/ Fail(s)
  \/ scene = "registration" /\ \E k \in Passes : ExpirePass(k)
  \/ scene = "registration"
       /\ \E p \in Phones, status \in Verdicts \cup {"pending"} : SetVerification(p, status)
  \/ scene = "sessions" /\ \E s \in Slots : Sessions(s) \/ Fail(s)
  \/ scene = "sessions" /\ (Tick \/ \E t \in Tokens : RevokeRefreshToken(t))

-----------------------------------------------------------------------------
(* Carriers: one load is accepted while one phone registers, with one pass *)
(* or the other, or both after each other, and the back office looks on.   *)
(* The person of k1 holds CE, that of k2 C or neither.  Loads share        *)
(* nothing, so each has a scene.                                           *)

MCVehicle == l1 :> "tractorTrailer" @@ l2 :> "truck"

MCCarriers ==
  /\ scene \in Loads
  /\ otp = [v \in Verifs |-> Confirmed(p1)]
  /\ \E fit \in BOOLEAN :
       pass = [k \in Passes |-> [status |-> "live", verif |-> v1, fit |-> k = k1 \/ fit]]
  /\ made = [k \in Passes |-> 0] /\ users = [p \in Phones |-> NoUser]
  /\ tokens = [t \in Tokens |-> "absent"] /\ spent = [t \in Tokens |-> 0]
  /\ job = [s \in Slots |-> Idle] /\ second = 0

\* One request to auth at a time.
MCUntouched ==
  /\ \E s \in Slots :
       /\ \A t \in Slots \ {s} : At(t, "idle")
       /\ \/ \E k \in Passes, role \in Roles : ConsumeMyIDToken(s, k, p1, role)
          \/ CheckApplicant(s) \/ LookupApplicant(s) \/ SaveRefreshToken(s)
          \/ AdminLogin(s) \/ InsertAdmin(s)
  /\ Untouched

MCCarriersNext ==
  \/ \E s \in Slots : Register(s)
  \/ \E status \in Verdicts : Overrule(p1, status)
  \/ MCUntouched
  \/ \E b \in Bids, p \in Phones : Bid(b, scene, p)
  \/ \E b \in Bids : Claim(b) \/ BidFail(b)
  \/ ReleaseClaim(scene)

-----------------------------------------------------------------------------
(* Ratings: a combined order, and one user whom two others review.         *)

MCParts == [o \in Works |-> {"transport", "labor"}]

MCRatingsNext ==
  \/ \E o \in Works : \/ \E ls \in SUBSET Parts[o] : CompleteParts(o, ls)
                      \/ \E l \in Parts[o] : UndoPart(o, l)
  \/ \E k \in Clerks :
       \/ \E o \in Works, by \in Members, stars \in Stars : ReviewLoad(k, o, by, m1, stars)
       \/ Review(k)

-----------------------------------------------------------------------------
(* News.                                                                   *)

\* Nobody is connected.
MCOwner == <<>>

MCEvents == Desks \X (1..4)

MCLeg(status, u) == [status |-> status, executor |-> u]
MCPair(t, l) == "transport" :> t @@ "labor" :> l

\* Orders as Escrow makes them: new, partly or wholly accepted, by one or two
\* executors or by the client, and delivered.
MCNew == MCPair(MCLeg("published", Unassigned), MCLeg("published", Unassigned))
MCOrders ==
  {MCNew,
   MCPair(MCLeg("accepted", e1), MCLeg("published", Unassigned)),
   MCPair(MCLeg("accepted", e1), MCLeg("accepted", e1)),
   "transport" :> MCLeg("inTransit", cl),
   MCPair(MCLeg("delivered", e1), MCLeg("delivered", cl))}

\* Moves of a leg that differ in what they allow afterwards.
MCMoves == {"delivered", "completed"}

\* With nobody connected handlers share nothing, and what they do depends on
\* the event alone: the requests end, then one event is handled.
MCAlone(e) ==
  /\ \A d \in Desks : desk[d].pc \in {"idle", "over"}
  /\ \A f \in Events \ {e} : event[f].pc \in {"none", "sent"}

MCNewsNext ==
  \/ \E d \in Desks : Serve(d)
  \/ /\ \E e \in Events : \/ MCAlone(e) /\ Handle(e)
                          \/ \E u \in People : MarkRead(e, u)
     /\ UNCHANGED newsVars

-----------------------------------------------------------------------------
MCInit ==
  /\ CarriersInit /\ RatingsInit
  /\ \/ (MCAccountsScenes \/ MCCarriers) /\ NewsInit(MCNew)
     \/ scene = "ratings" /\ Init /\ NewsInit(MCNew)
     \/ scene = "news" /\ Init /\ \E ls \in MCOrders : NewsInit(ls)

MCNext ==
  /\ UNCHANGED scene
  /\ \/ MCAccountsNext /\ UNCHANGED <<carriersVars, ratingsVars, newsAndFeedVars>>
     \/ scene \in Loads /\ MCCarriersNext /\ UNCHANGED <<ratingsVars, newsAndFeedVars>>
     \/ scene = "ratings" /\ MCRatingsNext /\ UNCHANGED <<vars, carriersVars, newsAndFeedVars>>
     \/ scene = "news" /\ MCNewsNext /\ UNCHANGED <<vars, carriersVars, ratingsVars>>

MCSpec == MCInit /\ [][MCNext]_<<vars, carriersVars, ratingsVars, newsAndFeedVars, scene>>

\* What is in the tables, the requests and the events has the shape that columns
\* and steps allow, whatever the scene.
PeopleTypeOK == TypeOK /\ CarriersTypeOK /\ RatingsTypeOK /\ FeedTypeOK /\ NewsTypeOK

\* The requests to auth are interchangeable.
SlotSymmetry == Permutations(Slots)
=============================================================================
