------------------------------ MODULE Ratings -------------------------------
(***************************************************************************)
(* Reviews and the rating auth keeps of a user.  A review request reads    *)
(* the order from the orders service, inserts its row, reads the           *)
(* reviewee's aggregate and posts it to auth, which stores whatever        *)
(* arrives.  Requests overlap, a post outlives the caller that gave up on  *)
(* it, or is lost.                                                         *)
(***************************************************************************)
EXTENDS Integers, FiniteSets, FiniteSetsExt, LegStatus

CONSTANTS
  Members,     \* users who review each other
  Stars,       \* the ratings they submit
  Works,       \* orders
  Parts,       \* the legs of each order
  Clerks,      \* review requests served at a time
  Nobody       \* the absent user or order

ASSUME RatingsAssumption ==
  /\ Stars \subseteq Int
  /\ Parts \in [Works -> (SUBSET LegNames) \ {{}}]
  /\ Nobody \notin Members /\ Nobody \notin Works

VARIABLES
  done,      \* the legs of each order that are completed
  stored,    \* reviews.reviews
  rated,     \* rating and ratings_count of auth.users
  clerk,     \* the review requests
  post,      \* what each of them has in flight to auth
  finished,  \* history: orders all legs of which were completed at one time
  was,       \* history: the aggregates a user's reviews have had
  troubled   \* history: users whose rating need not be that of their reviews

ratingsHistory == <<finished, was, troubled>>
ratingsVars == <<done, stored, rated, clerk, post, ratingsHistory>>

Reviews == [order : Works, by : Members, of : Members, stars : Stars \cap (1..5)]

\* ROUND(AVG(rating), 2) in hundredths, and the count.
Aggregate(rows) ==
  LET n == Cardinality(rows)
      sum == MapThenSumSet(LAMBDA r : r.stars, rows)
  IN  [rating |-> IF n = 0 THEN 0 ELSE (200 * sum + n) \div (2 * n), count |-> n]
Aggregates == {Aggregate(rows) : rows \in SUBSET Reviews}

ReviewsOf(u) == {r \in stored : r.of = u}

Draft == [pc : {"idle", "insert", "aggregate", "waiting"},
          order : Works \cup {Nobody}, by : Members \cup {Nobody},
          of : Members \cup {Nobody}, stars : 1..5]
NoDraft == [pc |-> "idle", order |-> Nobody, by |-> Nobody, of |-> Nobody, stars |-> 1]

Post == [to : Members \cup {Nobody}, agg : Aggregates]
NoPost == [to |-> Nobody, agg |-> Aggregate({})]

RatingsInit ==
  /\ done = [o \in Works |-> {}]
  /\ stored = {}
  /\ rated = [u \in Members |-> Aggregate({})]
  /\ clerk = [k \in Clerks |-> NoDraft]
  /\ post = [k \in Clerks |-> NoPost]
  /\ finished = {}
  /\ was = [u \in Members |-> {Aggregate({})}]
  /\ troubled = {}

-----------------------------------------------------------------------------
(* The orders service.                                                     *)

\* A leg is completed, by its executor or with the others by the client.
CompleteParts(o, legs) ==
  /\ done' = [done EXCEPT ![o] = @ \cup legs]
  /\ finished' = IF done'[o] = Parts[o] THEN finished \cup {o} ELSE finished
  /\ UNCHANGED <<stored, rated, clerk, post, was, troubled>>

\* A late write of a request that was allowed on an older snapshot.
UndoPart(o, l) ==
  /\ l \in done[o]
  /\ done' = [done EXCEPT ![o] = @ \ {l}]
  /\ UNCHANGED <<stored, rated, clerk, post, ratingsHistory>>

\* OrderRecord.primaryLeg: transport when there is one, otherwise the only leg.
Primary(o) == IF "transport" \in Parts[o] THEN {"transport"} ELSE Parts[o]

\* Mutant: the top-level status is believed.
completedOnTop(o) == Primary(o) \subseteq done[o]
\* completed, on the flattened order: its status and those of the optional legs.
completed(o) ==
  /\ Primary(o) \subseteq done[o]
  /\ Parts[o] \cap {"equipment", "labor"} \subseteq done[o]

-----------------------------------------------------------------------------
(* POST /reviews.                                                          *)

\* Reviews of u whose aggregate is on its way, in the request or in its post.
InFlight(u) ==
  {k \in Clerks :
     post[k].to = u \/ (clerk[k].of = u /\ clerk[k].pc \in {"aggregate", "waiting"})}

\* The order is read and found completed.  Whether the two took part in it is
\* not asked.  A clerk whose last post is still under way takes no new request.
ReviewLoad(k, o, by, of, stars) ==
  /\ clerk[k] = NoDraft /\ post[k] = NoPost
  /\ stars \in 1..5 /\ by # of
  /\ completed(o)
  /\ clerk' = [clerk EXCEPT ![k] = [pc |-> "insert", order |-> o, by |-> by,
                                    of |-> of, stars |-> stars]]
  /\ UNCHANGED <<done, stored, rated, post, ratingsHistory>>

Duplicate(d) == \E r \in stored : r.order = d.order /\ r.by = d.by /\ r.of = d.of

\* Store.Create: UNIQUE (order, reviewer, reviewee) turns a second review down.
ReviewInsert(k) ==
  LET d == clerk[k] IN
  /\ d.pc = "insert"
  /\ IF Duplicate(d)
     THEN clerk' = [clerk EXCEPT ![k] = NoDraft] /\ UNCHANGED <<stored, was, troubled>>
     ELSE /\ stored' = stored \cup {[order |-> d.order, by |-> d.by, of |-> d.of,
                                     stars |-> d.stars]}
          /\ clerk' = [clerk EXCEPT ![k].pc = "aggregate"]
          /\ was' = [was EXCEPT ![d.of] = @ \cup {Aggregate({r \in stored' : r.of = d.of})}]
          /\ troubled' = IF InFlight(d.of) = {} THEN troubled \ {d.of}
                         ELSE troubled \cup {d.of}
  /\ UNCHANGED <<done, rated, post, finished>>

\* Mutant: the aggregate is read before the row is inserted.
PropagateEarly(k) ==
  /\ clerk[k].pc = "aggregate"
  /\ post' = [post EXCEPT ![k] =
                [to |-> clerk[k].of,
                 agg |-> Aggregate({r \in ReviewsOf(clerk[k].of) : r.by # clerk[k].by})]]
  /\ clerk' = [clerk EXCEPT ![k].pc = "waiting"]
  /\ UNCHANGED <<done, stored, rated, ratingsHistory>>

\* propagate reads the aggregate and posts it to auth.
Propagate(k) ==
  /\ clerk[k].pc = "aggregate"
  /\ post' = [post EXCEPT ![k] = [to |-> clerk[k].of, agg |-> Aggregate(ReviewsOf(clerk[k].of))]]
  /\ clerk' = [clerk EXCEPT ![k].pc = "waiting"]
  /\ UNCHANGED <<done, stored, rated, ratingsHistory>>

\* Mutant: the count is not written.
SetRatingOnly(k) ==
  /\ post[k] # NoPost
  /\ rated' = [rated EXCEPT ![post[k].to].rating = post[k].agg.rating]
  /\ post' = [post EXCEPT ![k] = NoPost]
  /\ UNCHANGED <<done, stored, clerk, ratingsHistory>>

\* Auth stores what arrives, when it arrives.
SetRating(k) ==
  /\ post[k] # NoPost
  /\ rated' = [rated EXCEPT ![post[k].to] = post[k].agg]
  /\ post' = [post EXCEPT ![k] = NoPost]
  /\ UNCHANGED <<done, stored, clerk, ratingsHistory>>

\* The post does not reach auth, or auth's statement fails.
PostLost(k) ==
  /\ post[k] # NoPost
  /\ post' = [post EXCEPT ![k] = NoPost]
  /\ troubled' = troubled \cup {post[k].to}
  /\ UNCHANGED <<done, stored, rated, clerk, finished, was>>

\* The post is answered, or its 5 s are over or the request's context is
\* cancelled.  A push that failed is logged; the event is fired either way
\* and the request is over.
ReviewEnd(k) ==
  /\ clerk[k].pc = "waiting"
  /\ clerk' = [clerk EXCEPT ![k] = NoDraft]
  /\ UNCHANGED <<done, stored, rated, post, ratingsHistory>>

\* A statement of this service fails or the process stops.  Without an
\* aggregate nothing is posted, and no event is fired.
ReviewFail(k) ==
  /\ clerk[k].pc # "idle"
  /\ clerk' = [clerk EXCEPT ![k] = NoDraft]
  /\ troubled' = IF clerk[k].pc = "aggregate" THEN troubled \cup {clerk[k].of} ELSE troubled
  /\ UNCHANGED <<done, stored, rated, post, finished, was>>

Review(k) ==
  \/ ReviewInsert(k) \/ Propagate(k) \/ SetRating(k) \/ PostLost(k)
  \/ ReviewEnd(k) \/ ReviewFail(k)

RatingsNext ==
  \/ \E o \in Works : \/ \E legs \in SUBSET Parts[o] : CompleteParts(o, legs)
                      \/ \E l \in Parts[o] : UndoPart(o, l)
  \/ \E k \in Clerks :
       \/ \E o \in Works, by, of \in Members, stars \in Stars :
            ReviewLoad(k, o, by, of, stars)
       \/ Review(k)

RatingsSpec == RatingsInit /\ [][RatingsNext]_ratingsVars

-----------------------------------------------------------------------------
(* Correctness.                                                            *)

RatingsTypeOK ==
  /\ done \in [Works -> SUBSET LegNames]
  /\ stored \subseteq Reviews
  /\ rated \in [Members -> Aggregates]
  /\ clerk \in [Clerks -> Draft] /\ post \in [Clerks -> Post]
  /\ finished \subseteq Works /\ troubled \subseteq Members
  /\ was \in [Members -> SUBSET Aggregates]

\* "a combo order is only done when all of its legs are" (completed): whatever
\* is reviewed was wholly completed at one time, though executors complete
\* their legs one by one and late writes take legs back.
ReviewedWorkWasDone == \A r \in stored : r.order \in finished

\* "keeping User.rating/ratingsCount authoritative" (Store.SetRating): rating
\* and count in auth are together an aggregate that the user's reviews have
\* had, however the posts are delayed, lost and overtaken.
RatingWasTrue == \A u \in Members : rated[u] \in was[u]

\* Once all is quiet the rating in auth is that of the reviews, unless the last
\* review came while another one of the user was under way or its push was
\* lost: a review on its own makes up for everything before.
RatingCatchesUp ==
  \A u \in Members : InFlight(u) = {} /\ u \notin troubled =>
    rated[u] = Aggregate(ReviewsOf(u))
=============================================================================
