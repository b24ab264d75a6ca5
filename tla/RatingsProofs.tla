--------------------------- MODULE RatingsProofs ---------------------------
(***************************************************************************)
(* What holds of reviews and ratings for every set of users, orders, legs  *)
(* and requests.  Nothing is used of Aggregate but that equal rows have    *)
(* equal aggregates.                                                       *)
(***************************************************************************)
EXTENDS Ratings, TLAPS

\* A request past its load holds a review that may be stored, and a post names
\* a user.
DraftShape(d) ==
  d.pc # "idle" => /\ d.order \in Works /\ d.by \in Members /\ d.of \in Members
                   /\ d.stars \in Stars

Shapes ==
  /\ \A k \in Clerks : DraftShape(clerk[k])
  /\ \A k \in Clerks : post[k] # NoPost => post[k].to \in Members
  /\ \A k \in Clerks :
       /\ clerk[k].pc \in {"insert", "aggregate"} => post[k] = NoPost
       /\ clerk[k].pc = "waiting" => post[k] = NoPost \/ post[k].to = clerk[k].of

RatingsOK == RatingsTypeOK /\ Shapes

\* An order is known to have been finished once it is, and by the requests that
\* found it so.
DoneInv ==
  /\ \A o \in Works : done[o] \subseteq Parts[o] /\ (done[o] = Parts[o] => o \in finished)
  /\ \A k \in Clerks : clerk[k].pc = "insert" => clerk[k].order \in finished
  /\ ReviewedWorkWasDone

\* Whatever is in auth, on its way there or read from the table next was the
\* aggregate of the reviews at some time.
TrueInv ==
  /\ RatingWasTrue
  /\ \A k \in Clerks : post[k] # NoPost => post[k].agg \in was[post[k].to]
  /\ \A u \in Members : Aggregate(ReviewsOf(u)) \in was[u]

\* A user without trouble has at most one review under way, and the aggregate
\* is in the table still, in the post, or in auth.
QuietInv ==
  \A u \in Members \ troubled :
    /\ \A j, k \in InFlight(u) : j = k
    /\ InFlight(u) = {} => rated[u] = Aggregate(ReviewsOf(u))
    /\ \A k \in InFlight(u) :
         /\ post[k] # NoPost => post[k].agg = Aggregate(ReviewsOf(u))
         /\ post[k] = NoPost /\ clerk[k].pc = "waiting" => rated[u] = Aggregate(ReviewsOf(u))

-----------------------------------------------------------------------------
(* Types.                                                                  *)

LEMMA AggregateType ==
  ASSUME NEW rows, rows \subseteq Reviews
  PROVE  Aggregate(rows) \in Aggregates
BY DEF Aggregates

LEMMA NoneType == NoDraft \in Draft /\ NoPost \in Post /\ DraftShape(NoDraft)
<1>1. Aggregate({}) \in Aggregates
  BY AggregateType
<1> QED BY <1>1 DEF NoDraft, Draft, NoPost, Post, DraftShape

LEMMA InitType == RatingsInit => RatingsOK
<1> SUFFICES ASSUME RatingsInit PROVE RatingsOK
  OBVIOUS
<1>1. Aggregate({}) \in Aggregates
  BY AggregateType
<1>2. RatingsTypeOK
  BY <1>1, NoneType DEF RatingsInit, RatingsTypeOK
<1>3. Shapes
  BY NoneType DEF RatingsInit, Shapes, NoDraft
<1> QED BY <1>2, <1>3 DEF RatingsOK

\* The orders service touches no request.
LEMMA PartsType ==
  ASSUME RatingsOK, NEW o \in Works,
         (\E ls \in SUBSET Parts[o] : CompleteParts(o, ls)) \/ (\E l \in Parts[o] : UndoPart(o, l))
  PROVE  RatingsOK' /\ UNCHANGED <<stored, rated, clerk, post, was, troubled>>
<1>1. UNCHANGED <<stored, rated, clerk, post, was, troubled>>
  BY DEF CompleteParts, UndoPart, ratingsHistory
<1>2. done' \in [Works -> SUBSET LegNames] /\ finished' \subseteq Works
  <2>1. Parts[o] \subseteq LegNames
    BY RatingsAssumption
  <2>2. CASE \E ls \in SUBSET Parts[o] : CompleteParts(o, ls)
    BY <2>1, <2>2 DEF CompleteParts, RatingsOK, RatingsTypeOK
  <2>3. CASE \E l \in Parts[o] : UndoPart(o, l)
    BY <2>1, <2>3 DEF UndoPart, RatingsOK, RatingsTypeOK, ratingsHistory
  <2> QED BY <2>2, <2>3
<1>3. RatingsTypeOK'
  BY <1>1, <1>2 DEF RatingsOK, RatingsTypeOK
<1>4. Shapes'
  BY <1>1 DEF RatingsOK, Shapes
<1> QED BY <1>1, <1>3, <1>4 DEF RatingsOK

LEMMA LoadType ==
  ASSUME RatingsOK, NEW k \in Clerks, NEW o \in Works, NEW by \in Members, NEW of \in Members,
         NEW stars \in Stars, ReviewLoad(k, o, by, of, stars)
  PROVE  RatingsOK'
<1> DEFINE d == [pc |-> "insert", order |-> o, by |-> by, of |-> of, stars |-> stars]
<1>1. d \in Draft /\ DraftShape(d)
  BY DEF ReviewLoad, Draft, DraftShape
<1>2. clerk' = [clerk EXCEPT ![k] = d] /\ post[k] = NoPost
  BY DEF ReviewLoad
<1>3. UNCHANGED <<done, stored, rated, post, finished, was, troubled>>
  BY DEF ReviewLoad, ratingsHistory
<1>4. RatingsTypeOK'
  BY <1>1, <1>2, <1>3 DEF RatingsOK, RatingsTypeOK
<1>5. Shapes'
  BY <1>1, <1>2, <1>3 DEF RatingsOK, RatingsTypeOK, Shapes
<1> QED BY <1>4, <1>5 DEF RatingsOK

\* The review a request is about to insert.
Row(d) == [order |-> d.order, by |-> d.by, of |-> d.of, stars |-> d.stars]

LEMMA InsertFacts ==
  ASSUME RatingsOK, NEW k \in Clerks, ReviewInsert(k), ~Duplicate(clerk[k])
  PROVE  /\ clerk[k].of \in Members /\ clerk[k].order \in Works
         /\ Row(clerk[k]) \in Reviews /\ stored' = stored \cup {Row(clerk[k])}
         /\ stored' \subseteq Reviews
         /\ \A u \in Members : ReviewsOf(u)' = {r \in stored' : r.of = u}
         /\ \A u \in Members : u # clerk[k].of => ReviewsOf(u)' = ReviewsOf(u)
         /\ clerk' = [clerk EXCEPT ![k].pc = "aggregate"]
         /\ was' = [was EXCEPT ![clerk[k].of] = @ \cup {Aggregate({r \in stored' : r.of = clerk[k].of})}]
         /\ troubled' = IF InFlight(clerk[k].of) = {} THEN troubled \ {clerk[k].of}
                        ELSE troubled \cup {clerk[k].of}
         /\ UNCHANGED <<done, rated, post, finished>>
<1> DEFINE d == clerk[k]
<1>1. d \in Draft /\ DraftShape(d) /\ d.pc = "insert"
  BY DEF ReviewInsert, RatingsOK, RatingsTypeOK, Shapes
<1>2. Row(d) \in Reviews
  BY <1>1 DEF Draft, DraftShape, Row, Reviews
<1>3. stored' = stored \cup {Row(d)}
  BY DEF ReviewInsert, Row
<1>4. stored' \subseteq Reviews
  BY <1>2, <1>3 DEF RatingsOK, RatingsTypeOK
<1>5. \A u \in Members : ReviewsOf(u)' = {r \in stored' : r.of = u}
  BY DEF ReviewsOf
<1>6. \A u \in Members : u # d.of => ReviewsOf(u)' = ReviewsOf(u)
  BY <1>3 DEF ReviewsOf, Row
<1>7. /\ clerk' = [clerk EXCEPT ![k].pc = "aggregate"]
      /\ was' = [was EXCEPT ![d.of] = @ \cup {Aggregate({r \in stored' : r.of = d.of})}]
      /\ troubled' = IF InFlight(d.of) = {} THEN troubled \ {d.of} ELSE troubled \cup {d.of}
      /\ UNCHANGED <<done, rated, post, finished>>
  BY DEF ReviewInsert
<1> QED BY <1>1, <1>2, <1>3, <1>4, <1>5, <1>6, <1>7 DEF DraftShape

LEMMA InsertType ==
  ASSUME RatingsOK, NEW k \in Clerks, ReviewInsert(k)
  PROVE  RatingsOK'
<1>1. CASE Duplicate(clerk[k])
  <2>1. clerk' = [clerk EXCEPT ![k] = NoDraft]
        /\ UNCHANGED <<done, stored, rated, post, finished, was, troubled>>
    BY <1>1 DEF ReviewInsert
  <2>2. NoDraft.pc = "idle"
    BY DEF NoDraft
  <2>3. RatingsTypeOK'
    BY <2>1, NoneType DEF RatingsOK, RatingsTypeOK
  <2>4. Shapes'
    BY <2>1, <2>2, NoneType DEF RatingsOK, RatingsTypeOK, Shapes
  <2> QED BY <2>3, <2>4 DEF RatingsOK
<1>2. CASE ~Duplicate(clerk[k])
  <2> DEFINE d == clerk[k]
             next == [d EXCEPT !.pc = "aggregate"]
  <2>1. clerk' = [clerk EXCEPT ![k] = next] /\ d.pc = "insert"
    BY <1>2, InsertFacts DEF ReviewInsert
  <2>2. d \in Draft /\ DraftShape(d) /\ next \in Draft /\ DraftShape(next)
    BY <2>1 DEF RatingsOK, RatingsTypeOK, Shapes, Draft, DraftShape
  <2>3. Aggregate({r \in stored' : r.of = d.of}) \in Aggregates
    <3>1. stored' \subseteq Reviews
      BY <1>2, InsertFacts
    <3>2. {r \in stored' : r.of = d.of} \subseteq Reviews
      BY <3>1
    <3> QED BY <3>2, AggregateType
  <2>4. was' \in [Members -> SUBSET Aggregates]
    <3> DEFINE agg == Aggregate({r \in stored' : r.of = d.of})
    <3>1. was' = [was EXCEPT ![d.of] = @ \cup {agg}]
      BY <1>2, InsertFacts
    <3>2. was \in [Members -> SUBSET Aggregates]
      BY DEF RatingsOK, RatingsTypeOK
    <3>3. agg \in Aggregates
      BY <2>3
    <3> HIDE DEF agg
    <3> QED BY <3>1, <3>2, <3>3
  <2>5. troubled' \subseteq Members
    <3>1. d.of \in Members /\ troubled' \subseteq troubled \cup {d.of}
      BY <1>2, InsertFacts
    <3> QED BY <3>1 DEF RatingsOK, RatingsTypeOK
  <2>6. RatingsTypeOK'
    BY <1>2, <2>1, <2>2, <2>4, <2>5, InsertFacts DEF RatingsOK, RatingsTypeOK
  <2>7. next.pc = "aggregate" /\ post[k] = NoPost /\ post' = post
    BY <1>2, <2>1, <2>2, InsertFacts DEF RatingsOK, Shapes, Draft
  <2>8. Shapes'
    BY <2>1, <2>2, <2>7 DEF RatingsOK, RatingsTypeOK, Shapes
  <2> QED BY <2>6, <2>8 DEF RatingsOK
<1> QED BY <1>1, <1>2

\* What Propagate puts in flight.
Sent(k) == [to |-> clerk[k].of, agg |-> Aggregate(ReviewsOf(clerk[k].of))]

LEMMA PropagateType ==
  ASSUME RatingsOK, NEW k \in Clerks, Propagate(k)
  PROVE  /\ RatingsOK'
         /\ clerk[k].of \in Members /\ Sent(k) \in Post /\ Sent(k) # NoPost
         /\ clerk[k].pc = "aggregate" /\ clerk' = [clerk EXCEPT ![k].pc = "waiting"]
         /\ post' = [post EXCEPT ![k] = Sent(k)]
         /\ UNCHANGED <<done, stored, rated, finished, was, troubled>>
<1> DEFINE d == clerk[k]
           next == [d EXCEPT !.pc = "waiting"]
<1>1. d \in Draft /\ d.pc = "aggregate" /\ d.of \in Members
  BY DEF Propagate, RatingsOK, RatingsTypeOK, Shapes, DraftShape
<1>2. ReviewsOf(d.of) \subseteq Reviews
  BY DEF RatingsOK, RatingsTypeOK, ReviewsOf
<1>3. Sent(k) \in Post /\ Sent(k).to = d.of /\ Sent(k) # NoPost
  <2>1. Aggregate(ReviewsOf(d.of)) \in Aggregates
    BY <1>2, AggregateType
  <2>2. Sent(k) \in Post /\ Sent(k).to = d.of
    BY <1>1, <2>1 DEF Sent, Post
  <2>3. NoPost.to = Nobody
    BY DEF NoPost
  <2> QED BY <1>1, <2>2, <2>3, RatingsAssumption
<1>4. /\ clerk' = [clerk EXCEPT ![k] = next] /\ post' = [post EXCEPT ![k] = Sent(k)]
      /\ UNCHANGED <<done, stored, rated, finished, was, troubled>>
  BY DEF Propagate, Sent, ratingsHistory
<1>5. next \in Draft /\ DraftShape(next) /\ next.pc = "waiting" /\ next.of = d.of
  BY <1>1 DEF RatingsOK, Shapes, Draft, DraftShape
<1>6. RatingsTypeOK'
  BY <1>3, <1>4, <1>5 DEF RatingsOK, RatingsTypeOK
<1>7. Shapes'
  BY <1>1, <1>3, <1>4, <1>5 DEF RatingsOK, RatingsTypeOK, Shapes
<1> QED BY <1>1, <1>3, <1>4, <1>6, <1>7 DEF RatingsOK

\* A post that has arrived, or never will, is gone.
LEMMA PostGone ==
  ASSUME RatingsOK, NEW k \in Clerks, post' = [post EXCEPT ![k] = NoPost], clerk' = clerk
  PROVE  post' \in [Clerks -> Post] /\ Shapes'
BY NoneType DEF RatingsOK, RatingsTypeOK, Shapes

\* A request that is over leaves a post behind at most.
LEMMA ClerkGone ==
  ASSUME RatingsOK, NEW k \in Clerks, clerk' = [clerk EXCEPT ![k] = NoDraft], post' = post
  PROVE  clerk' \in [Clerks -> Draft] /\ Shapes'
<1>1. NoDraft.pc = "idle"
  BY DEF NoDraft
<1> QED BY <1>1, NoneType DEF RatingsOK, RatingsTypeOK, Shapes

LEMMA EndType ==
  ASSUME RatingsOK, NEW k \in Clerks,
         SetRating(k) \/ PostLost(k) \/ ReviewEnd(k) \/ ReviewFail(k)
  PROVE  RatingsOK'
<1>1. CASE SetRating(k)
  <2>1. post[k] \in Post /\ post[k].to \in Members
    BY <1>1 DEF SetRating, RatingsOK, RatingsTypeOK, Shapes
  <2>2. rated' \in [Members -> Aggregates]
    BY <1>1, <2>1 DEF SetRating, RatingsOK, RatingsTypeOK, Post
  <2>3. post' = [post EXCEPT ![k] = NoPost]
        /\ UNCHANGED <<done, stored, clerk, finished, was, troubled>>
    BY <1>1 DEF SetRating, ratingsHistory
  <2> QED BY <2>2, <2>3, PostGone DEF RatingsOK, RatingsTypeOK
<1>2. CASE PostLost(k)
  <2>1. post[k].to \in Members
    BY <1>2 DEF PostLost, RatingsOK, Shapes
  <2>2. post' = [post EXCEPT ![k] = NoPost] /\ UNCHANGED <<done, stored, rated, clerk, finished, was>>
        /\ troubled' = troubled \cup {post[k].to}
    BY <1>2 DEF PostLost
  <2> QED BY <2>1, <2>2, PostGone DEF RatingsOK, RatingsTypeOK
<1>3. CASE ReviewEnd(k)
  <2>1. clerk' = [clerk EXCEPT ![k] = NoDraft]
        /\ UNCHANGED <<done, stored, rated, post, finished, was, troubled>>
    BY <1>3 DEF ReviewEnd, ratingsHistory
  <2> QED BY <2>1, ClerkGone DEF RatingsOK, RatingsTypeOK
<1>4. CASE ReviewFail(k)
  <2>1. clerk' = [clerk EXCEPT ![k] = NoDraft]
        /\ UNCHANGED <<done, stored, rated, post, finished, was>>
    BY <1>4 DEF ReviewFail
  <2>2. troubled' \subseteq Members
    BY <1>4 DEF ReviewFail, RatingsOK, RatingsTypeOK, Shapes, DraftShape
  <2> QED BY <2>1, <2>2, ClerkGone DEF RatingsOK, RatingsTypeOK
<1> QED BY <1>1, <1>2, <1>3, <1>4

LEMMA NextType == RatingsOK /\ [RatingsNext]_ratingsVars => RatingsOK'
<1> SUFFICES ASSUME RatingsOK, [RatingsNext]_ratingsVars PROVE RatingsOK'
  OBVIOUS
<1>1. CASE UNCHANGED ratingsVars
  BY <1>1 DEF ratingsVars, ratingsHistory, RatingsOK, RatingsTypeOK, Shapes
<1>2. CASE RatingsNext
  BY <1>2, PartsType, LoadType, InsertType, PropagateType, EndType DEF RatingsNext, Review
<1> QED BY <1>1, <1>2

\* Every row, request and post of the reviews, and every rating, has the shape
\* its columns and fields allow: a rating is always an aggregate of reviews.
THEOREM RatingsTypeCorrect == RatingsSpec => []RatingsTypeOK
<1>1. RatingsSpec => []RatingsOK
  BY InitType, NextType, PTL DEF RatingsSpec
<1>2. RatingsOK => RatingsTypeOK
  BY DEF RatingsOK
<1> QED BY <1>1, <1>2, PTL

-----------------------------------------------------------------------------
(* What is reviewed was done.                                              *)

LEMMA PartsSplit ==
  ASSUME NEW o \in Works, completed(o)
  PROVE  Parts[o] \subseteq done[o]
<1>1. Parts[o] \subseteq {"transport", "equipment", "labor"}
  BY RatingsAssumption DEF LegNames
<1>2. \A l \in Parts[o] : l \in Primary(o) \/ l \in Parts[o] \cap {"equipment", "labor"}
  BY <1>1 DEF Primary
<1> QED BY <1>2 DEF completed

LEMMA InitDone == RatingsInit => DoneInv
<1> SUFFICES ASSUME RatingsInit PROVE DoneInv
  OBVIOUS
<1>1. \A o \in Works : Parts[o] # {}
  BY RatingsAssumption
<1>2. \A o \in Works : done[o] = {}
  BY DEF RatingsInit
<1>3. \A k \in Clerks : clerk[k].pc = "idle"
  BY DEF RatingsInit, NoDraft
<1> QED BY <1>1, <1>2, <1>3 DEF DoneInv, RatingsInit, ReviewedWorkWasDone

LEMMA NextDone == RatingsOK /\ DoneInv /\ [RatingsNext]_ratingsVars => DoneInv'
<1> SUFFICES ASSUME RatingsOK, DoneInv, [RatingsNext]_ratingsVars PROVE DoneInv'
  OBVIOUS
<1> USE DEF DoneInv, ReviewedWorkWasDone
<1>1. ASSUME NEW o \in Works, NEW ls \in SUBSET Parts[o], CompleteParts(o, ls)
      PROVE  DoneInv'
  <2>1. /\ done' = [done EXCEPT ![o] = @ \cup ls]
        /\ finished' = IF done'[o] = Parts[o] THEN finished \cup {o} ELSE finished
        /\ stored' = stored /\ clerk' = clerk
    BY <1>1 DEF CompleteParts
  <2>2. done \in [Works -> SUBSET LegNames]
    BY DEF RatingsOK, RatingsTypeOK
  <2> QED BY <2>1, <2>2
<1>2. ASSUME NEW o \in Works, NEW l \in Parts[o], UndoPart(o, l)
      PROVE  DoneInv'
  <2>1. done' = [done EXCEPT ![o] = @ \ {l}] /\ UNCHANGED <<stored, clerk, finished>>
    BY <1>2 DEF UndoPart, ratingsHistory
  <2>2. done \in [Works -> SUBSET LegNames]
    BY DEF RatingsOK, RatingsTypeOK
  <2> QED BY <2>1, <2>2
<1>3. ASSUME NEW k \in Clerks, NEW o \in Works, NEW by \in Members, NEW of \in Members,
             NEW stars \in Stars, ReviewLoad(k, o, by, of, stars)
      PROVE  DoneInv'
  <2>1. /\ clerk' = [clerk EXCEPT ![k] = [pc |-> "insert", order |-> o, by |-> by,
                                          of |-> of, stars |-> stars]]
        /\ UNCHANGED <<done, stored, finished>> /\ completed(o)
    BY <1>3 DEF ReviewLoad, ratingsHistory
  <2>2. done[o] = Parts[o]
    BY <2>1, PartsSplit
  <2>3. o \in finished
    BY <2>2
  <2>4. clerk \in [Clerks -> Draft]
    BY DEF RatingsOK, RatingsTypeOK
  <2> QED BY <2>1, <2>3, <2>4
<1>4. ASSUME NEW k \in Clerks, ReviewInsert(k) PROVE DoneInv'
  <2>1. CASE Duplicate(clerk[k])
    <3>1. clerk' = [clerk EXCEPT ![k] = NoDraft] /\ UNCHANGED <<done, stored, finished>>
      BY <1>4, <2>1 DEF ReviewInsert
    <3> QED BY <3>1 DEF NoDraft, RatingsOK, RatingsTypeOK
  <2>2. CASE ~Duplicate(clerk[k])
    <3>1. /\ clerk' = [clerk EXCEPT ![k].pc = "aggregate"] /\ UNCHANGED <<done, finished>>
          /\ stored' = stored \cup {Row(clerk[k])}
      BY <1>4, <2>2, InsertFacts
    <3>2. Row(clerk[k]).order = clerk[k].order /\ clerk[k].order \in finished
      BY <1>4 DEF ReviewInsert, Row
    <3>3. \A j \in Clerks : clerk'[j].pc = "insert" => clerk'[j] = clerk[j]
      BY <3>1 DEF RatingsOK, RatingsTypeOK, Draft
    <3> QED BY <3>1, <3>2, <3>3
  <2> QED BY <2>1, <2>2
<1>5. ASSUME NEW k \in Clerks, Propagate(k) PROVE DoneInv'
  <2>1. clerk' = [clerk EXCEPT ![k].pc = "waiting"] /\ UNCHANGED <<done, stored, finished>>
    BY <1>5, PropagateType
  <2>2. \A j \in Clerks : clerk'[j].pc = "insert" => clerk'[j] = clerk[j]
    BY <2>1 DEF RatingsOK, RatingsTypeOK, Draft
  <2> QED BY <2>1, <2>2
<1>6. ASSUME NEW k \in Clerks, SetRating(k) \/ PostLost(k) \/ ReviewEnd(k) \/ ReviewFail(k)
      PROVE  DoneInv'
  <2>1. UNCHANGED <<done, stored, finished>>
        /\ (clerk' = clerk \/ clerk' = [clerk EXCEPT ![k] = NoDraft])
    BY <1>6 DEF SetRating, PostLost, ReviewEnd, ReviewFail, ratingsHistory
  <2>2. \A j \in Clerks : clerk'[j].pc = "insert" => clerk'[j] = clerk[j]
    BY <2>1 DEF NoDraft, RatingsOK, RatingsTypeOK
  <2> QED BY <2>1, <2>2
<1>7. CASE UNCHANGED ratingsVars
  BY <1>7 DEF ratingsVars, ratingsHistory
<1> QED BY <1>1, <1>2, <1>3, <1>4, <1>5, <1>6, <1>7 DEF RatingsNext, Review

\* Reviews are about orders all legs of which were completed at one time.
THEOREM ReviewsAfterWork == RatingsSpec => []ReviewedWorkWasDone
<1>1. RatingsOK /\ DoneInv /\ [RatingsNext]_ratingsVars => (RatingsOK /\ DoneInv)'
  BY NextType, NextDone
<1>2. DoneInv => ReviewedWorkWasDone
  BY DEF DoneInv
<1> QED BY <1>1, <1>2, InitType, InitDone, PTL DEF RatingsSpec

-----------------------------------------------------------------------------
(* The rating in auth.                                                     *)

LEMMA InitTrue == RatingsInit => TrueInv
<1> SUFFICES ASSUME RatingsInit PROVE TrueInv
  OBVIOUS
<1>1. \A u \in Members : ReviewsOf(u) = {}
  BY DEF RatingsInit, ReviewsOf
<1>2. \A u \in Members : Aggregate(ReviewsOf(u)) = Aggregate({})
  BY <1>1
<1> QED BY <1>2 DEF RatingsInit, TrueInv, RatingWasTrue

LEMMA NextTrue == RatingsOK /\ TrueInv /\ [RatingsNext]_ratingsVars => TrueInv'
<1> SUFFICES ASSUME RatingsOK, TrueInv, [RatingsNext]_ratingsVars PROVE TrueInv'
  OBVIOUS
<1> USE DEF TrueInv, RatingWasTrue
<1>1. ASSUME NEW k \in Clerks, ReviewInsert(k), ~Duplicate(clerk[k]) PROVE TrueInv'
  <2> DEFINE d == clerk[k]
             agg == Aggregate({r \in stored' : r.of = d.of})
  <2>1. /\ was' = [was EXCEPT ![d.of] = @ \cup {agg}] /\ d.of \in Members
        /\ UNCHANGED <<rated, post>>
    BY <1>1, InsertFacts
  <2>2. was \in [Members -> SUBSET Aggregates]
    BY DEF RatingsOK, RatingsTypeOK
  <2>3. Aggregate(ReviewsOf(d.of)') = agg
    <3>1. \A u \in Members : ReviewsOf(u)' = {r \in stored' : r.of = u}
      BY <1>1, InsertFacts
    <3>2. clerk'[k].of = d.of
      BY <1>1, InsertFacts DEF RatingsOK, RatingsTypeOK, Draft
    <3> QED BY <2>1, <3>1, <3>2
  <2>4. \A u \in Members : was[u] \subseteq was'[u]
    <3> HIDE DEF agg
    <3> QED BY <2>1, <2>2
  <2>5. \A j \in Clerks : post[j] # NoPost => post[j].to \in Members
    BY DEF RatingsOK, Shapes
  <2>6. ASSUME NEW u \in Members PROVE Aggregate(ReviewsOf(u)') \in was'[u]
    <3>1. CASE u = d.of
      <4>1. ReviewsOf(u)' = {r \in stored' : r.of = u}
        BY <1>1, InsertFacts
      <4>2. Aggregate(ReviewsOf(u)') = agg
        BY <3>1, <4>1
      <4>3. agg \in was'[u]
        <5> HIDE DEF agg
        <5> QED BY <2>1, <2>2, <3>1
      <4> QED BY <4>2, <4>3
    <3>2. CASE u # d.of
      <4>1. ReviewsOf(u)' = ReviewsOf(u)
        BY <1>1, <3>2, InsertFacts
      <4> QED BY <2>4, <4>1
    <3> QED BY <3>1, <3>2
  <2> QED BY <2>1, <2>4, <2>5, <2>6
<1>2. ASSUME NEW k \in Clerks, Propagate(k) PROVE TrueInv'
  <2>1. /\ post' = [post EXCEPT ![k] = Sent(k)] /\ UNCHANGED <<stored, rated, was>>
        /\ clerk[k].of \in Members
    BY <1>2, PropagateType
  <2>2. Sent(k).to = clerk[k].of /\ Sent(k).agg = Aggregate(ReviewsOf(clerk[k].of))
    BY DEF Sent
  <2>3. \A u \in Members : ReviewsOf(u)' = ReviewsOf(u)
    BY <2>1 DEF ReviewsOf
  <2>4. post \in [Clerks -> Post]
    BY DEF RatingsOK, RatingsTypeOK
  <2>5. \A j \in Clerks : post'[j] = IF j = k THEN Sent(k) ELSE post[j]
    BY <2>1, <2>4
  <2>6. \A u \in Members : Aggregate(ReviewsOf(u)') \in was'[u]
    BY <2>1, <2>3
  <2> QED BY <2>1, <2>2, <2>5, <2>6
<1>3. ASSUME NEW k \in Clerks, SetRating(k) \/ PostLost(k) \/ ReviewEnd(k) \/ ReviewFail(k)
      PROVE  TrueInv'
  <2>1. UNCHANGED <<stored, was>> /\ (post' = post \/ post' = [post EXCEPT ![k] = NoPost])
    BY <1>3 DEF SetRating, PostLost, ReviewEnd, ReviewFail, ratingsHistory
  <2>2. rated' = rated \/ (post[k] # NoPost /\ rated' = [rated EXCEPT ![post[k].to] = post[k].agg])
    BY <1>3 DEF SetRating, PostLost, ReviewEnd, ReviewFail
  <2>3. \A u \in Members : Aggregate(ReviewsOf(u)') = Aggregate(ReviewsOf(u))
    BY <2>1 DEF ReviewsOf
  <2>4. \A j \in Clerks : post'[j] # NoPost => post'[j] = post[j]
    BY <2>1 DEF RatingsOK, RatingsTypeOK
  <2>5. \A u \in Members : rated'[u] \in was[u]
    BY <2>2 DEF RatingsOK, RatingsTypeOK
  <2> QED BY <2>1, <2>3, <2>4, <2>5
<1>4. ASSUME UNCHANGED <<stored, rated, post, was>> PROVE TrueInv'
  <2>1. \A u \in Members : Aggregate(ReviewsOf(u)') = Aggregate(ReviewsOf(u))
    BY <1>4 DEF ReviewsOf
  <2> QED BY <1>4, <2>1
<1>5. ASSUME NEW o \in Works,
             (\E ls \in SUBSET Parts[o] : CompleteParts(o, ls)) \/ (\E l \in Parts[o] : UndoPart(o, l))
      PROVE  TrueInv'
  BY <1>4, <1>5, PartsType
<1>6. ASSUME NEW k \in Clerks, NEW o \in Works, NEW by \in Members, NEW of \in Members,
             NEW stars \in Stars, ReviewLoad(k, o, by, of, stars)
      PROVE  TrueInv'
  BY <1>4, <1>6 DEF ReviewLoad, ratingsHistory
<1>7. ASSUME NEW k \in Clerks, ReviewInsert(k), Duplicate(clerk[k]) PROVE TrueInv'
  BY <1>4, <1>7 DEF ReviewInsert
<1>8. CASE UNCHANGED ratingsVars
  BY <1>4, <1>8 DEF ratingsVars, ratingsHistory
<1> QED BY <1>1, <1>2, <1>3, <1>5, <1>6, <1>7, <1>8 DEF RatingsNext, Review

\* The rating in auth has been that of the user's reviews, whatever the posts
\* went through on their way.
THEOREM RatingsWereTrue == RatingsSpec => []RatingWasTrue
<1>1. RatingsOK /\ TrueInv /\ [RatingsNext]_ratingsVars => (RatingsOK /\ TrueInv)'
  BY NextType, NextTrue
<1>2. TrueInv => RatingWasTrue
  BY DEF TrueInv
<1> QED BY <1>1, <1>2, InitType, InitTrue, PTL DEF RatingsSpec

-----------------------------------------------------------------------------
(* The rating catches up.                                                  *)

LEMMA InitQuiet == RatingsInit => QuietInv
<1> SUFFICES ASSUME RatingsInit, NEW u \in Members
             PROVE  InFlight(u) = {} /\ rated[u] = Aggregate(ReviewsOf(u))
  BY DEF QuietInv
<1>1. InFlight(u) = {}
  BY RatingsAssumption DEF RatingsInit, InFlight, NoDraft, NoPost
<1>2. ReviewsOf(u) = {}
  BY DEF RatingsInit, ReviewsOf
<1> QED BY <1>1, <1>2 DEF RatingsInit

\* What QuietInv says of a user depends on the requests in flight, the posts,
\* the rating and the rows of that user.
Quiet(u) ==
  /\ \A j, k \in InFlight(u) : j = k
  /\ InFlight(u) = {} => rated[u] = Aggregate(ReviewsOf(u))
  /\ \A k \in InFlight(u) :
       /\ post[k] # NoPost => post[k].agg = Aggregate(ReviewsOf(u))
       /\ post[k] = NoPost /\ clerk[k].pc = "waiting" => rated[u] = Aggregate(ReviewsOf(u))

LEMMA QuietEach == QuietInv <=> \A u \in Members \ troubled : Quiet(u)
BY DEF QuietInv, Quiet

\* A step of request k, in flight for others, is nothing to u.
LEMMA QuietApart ==
  ASSUME NEW u \in Members, NEW k \in Clerks, Quiet(u),
         k \notin InFlight(u), k \notin InFlight(u)',
         \A j \in Clerks \ {k} : clerk'[j] = clerk[j] /\ post'[j] = post[j],
         rated'[u] = rated[u], ReviewsOf(u)' = ReviewsOf(u)
  PROVE  Quiet(u)'
<1>1. \A j \in Clerks \ {k} : j \in InFlight(u)' <=> j \in InFlight(u)
  BY DEF InFlight
<1>2. InFlight(u)' = InFlight(u) /\ InFlight(u) \subseteq Clerks \ {k}
  BY <1>1 DEF InFlight
<1>3. Aggregate(ReviewsOf(u)') = Aggregate(ReviewsOf(u))
  OBVIOUS
<1> QED BY <1>2, <1>3 DEF Quiet

\* A request on its own: nothing else of u is in flight, before or after.
LEMMA QuietAlone ==
  ASSUME NEW u \in Members, NEW k \in Clerks, Quiet(u), k \in InFlight(u),
         \A j \in Clerks \ {k} : clerk'[j] = clerk[j] /\ post'[j] = post[j]
  PROVE  InFlight(u) = {k} /\ InFlight(u)' \subseteq {k}
<1>1. InFlight(u) = {k}
  BY DEF Quiet
<1>2. \A j \in Clerks \ {k} : j \notin InFlight(u)'
  BY <1>1 DEF InFlight
<1> QED BY <1>1, <1>2 DEF InFlight

\* A request with a post has no other user in hand, and before it is under way
\* it has none.
LEMMA FlightFacts ==
  ASSUME RatingsOK, NEW k \in Clerks, NEW u \in Members
  PROVE  /\ clerk[k].pc \in {"idle", "insert"} /\ post[k] = NoPost => k \notin InFlight(u)
         /\ post[k] # NoPost => (k \in InFlight(u) <=> post[k].to = u)
         /\ clerk[k].pc \in {"aggregate", "waiting"} => (k \in InFlight(u) <=> clerk[k].of = u)
<1>1. NoPost.to # u
  BY RatingsAssumption DEF NoPost
<1>2. /\ clerk[k].pc \in {"insert", "aggregate"} => post[k] = NoPost
      /\ clerk[k].pc = "waiting" => post[k] = NoPost \/ post[k].to = clerk[k].of
  BY DEF RatingsOK, Shapes
<1> QED BY <1>1, <1>2 DEF InFlight

LEMMA InsertQuiet ==
  ASSUME RatingsOK, NEW k \in Clerks, ReviewInsert(k), NEW u \in Members,
         u \notin troubled => Quiet(u), u \notin troubled'
  PROVE  Quiet(u)'
<1> DEFINE d == clerk[k]
<1>1. d.pc = "insert" /\ post[k] = NoPost /\ post' = post
  BY DEF ReviewInsert, RatingsOK, Shapes
<1>2. k \notin InFlight(u)
  BY <1>1, FlightFacts
<1>3. \A j \in Clerks \ {k} : clerk'[j] = clerk[j] /\ post'[j] = post[j]
  BY DEF ReviewInsert, RatingsOK, RatingsTypeOK
<1>4. NoPost.to # u
  BY RatingsAssumption DEF NoPost
<1>5. CASE Duplicate(d)
  <2>1. clerk'[k] = NoDraft /\ UNCHANGED <<stored, rated, troubled>>
    BY <1>5 DEF ReviewInsert, RatingsOK, RatingsTypeOK
  <2>2. k \notin InFlight(u)'
    BY <1>1, <1>4, <2>1 DEF InFlight, NoDraft
  <2>3. ReviewsOf(u)' = ReviewsOf(u)
    BY <2>1 DEF ReviewsOf
  <2> QED BY <1>2, <1>3, <2>1, <2>2, <2>3, QuietApart
<1>6. CASE ~Duplicate(d) /\ u # d.of
  <2>1. clerk'[k].of = d.of
    BY <1>6, InsertFacts DEF RatingsOK, RatingsTypeOK, Draft
  <2>2. k \notin InFlight(u)'
    BY <1>1, <1>4, <1>6, <2>1 DEF InFlight
  <2>3. ReviewsOf(u)' = ReviewsOf(u) /\ rated' = rated
    BY <1>6, InsertFacts
  <2>4. u \notin troubled
    <3>1. troubled' = IF InFlight(d.of) = {} THEN troubled \ {d.of} ELSE troubled \cup {d.of}
      BY <1>6, InsertFacts
    <3> QED BY <1>6, <3>1
  <2> QED BY <1>2, <1>3, <2>2, <2>3, <2>4, QuietApart
<1>7. CASE ~Duplicate(d) /\ u = d.of
  <2>1. InFlight(u) = {}
    <3>1. troubled' = IF InFlight(u) = {} THEN troubled \ {u} ELSE troubled \cup {u}
      BY <1>7, InsertFacts
    <3> QED BY <3>1
  <2>2. clerk'[k].pc = "aggregate" /\ clerk'[k].of = u
    BY <1>7, InsertFacts DEF RatingsOK, RatingsTypeOK, Draft
  <2>3. InFlight(u)' = {k}
    <3>1. \A j \in Clerks \ {k} : j \notin InFlight(u)'
      BY <1>3, <2>1 DEF InFlight
    <3>2. k \in InFlight(u)'
      BY <2>2 DEF InFlight
    <3> QED BY <3>1, <3>2 DEF InFlight
  <2> QED BY <1>1, <2>2, <2>3 DEF Quiet
<1> QED BY <1>5, <1>6, <1>7

LEMMA PropagateQuiet ==
  ASSUME RatingsOK, NEW k \in Clerks, Propagate(k), NEW u \in Members, Quiet(u)
  PROVE  Quiet(u)'
<1>1. /\ clerk[k].pc = "aggregate" /\ clerk'[k].pc = "waiting" /\ clerk'[k].of = clerk[k].of
      /\ post'[k] = Sent(k) /\ UNCHANGED <<stored, rated>>
      /\ \A j \in Clerks \ {k} : clerk'[j] = clerk[j] /\ post'[j] = post[j]
  BY PropagateType DEF RatingsOK, RatingsTypeOK, Draft
<1>2. Sent(k).to = clerk[k].of /\ Sent(k).agg = Aggregate(ReviewsOf(clerk[k].of))
      /\ Sent(k) # NoPost
  BY PropagateType DEF Sent
<1>3. ReviewsOf(u)' = ReviewsOf(u) /\ Aggregate(ReviewsOf(u)') = Aggregate(ReviewsOf(u))
  BY <1>1 DEF ReviewsOf
<1>4. CASE u # clerk[k].of
  <2>1. k \notin InFlight(u) /\ k \notin InFlight(u)'
    BY <1>1, <1>2, <1>4, FlightFacts DEF InFlight
  <2> QED BY <1>1, <1>3, <2>1, QuietApart
<1>5. CASE u = clerk[k].of
  <2>1. k \in InFlight(u) /\ k \in InFlight(u)'
    BY <1>1, <1>5, FlightFacts DEF InFlight
  <2>2. InFlight(u)' = {k}
    BY <1>1, <2>1, QuietAlone
  <2> QED BY <1>1, <1>2, <1>3, <1>5, <2>2 DEF Quiet
<1> QED BY <1>4, <1>5

LEMMA PostQuiet ==
  ASSUME RatingsOK, NEW k \in Clerks, SetRating(k) \/ PostLost(k), NEW u \in Members,
         u \notin troubled => Quiet(u), u \notin troubled'
  PROVE  Quiet(u)'
<1>1. /\ post[k] # NoPost /\ post'[k] = NoPost /\ UNCHANGED <<stored, clerk>>
      /\ \A j \in Clerks \ {k} : clerk'[j] = clerk[j] /\ post'[j] = post[j]
      /\ troubled \subseteq troubled' /\ post[k].to \in Members
  BY DEF SetRating, PostLost, ratingsHistory, RatingsOK, RatingsTypeOK, Shapes
<1>2. ReviewsOf(u)' = ReviewsOf(u) /\ Aggregate(ReviewsOf(u)') = Aggregate(ReviewsOf(u))
  BY <1>1 DEF ReviewsOf
<1>3. NoPost.to # u
  BY RatingsAssumption DEF NoPost
<1>4. Quiet(u)
  BY <1>1
<1>5. CASE u # post[k].to
  <2>1. k \notin InFlight(u)
    BY <1>1, <1>5, FlightFacts
  <2>2. k \notin InFlight(u)'
    BY <1>1, <1>3, <2>1 DEF InFlight
  <2>3. rated'[u] = rated[u]
    BY <1>5 DEF SetRating, PostLost, RatingsOK, RatingsTypeOK
  <2> QED BY <1>1, <1>2, <1>4, <2>1, <2>2, <2>3, QuietApart
<1>6. CASE u = post[k].to
  <2>1. SetRating(k)
    BY <1>6 DEF PostLost
  <2>2. rated'[u] = post[k].agg
    BY <1>6, <2>1 DEF SetRating, RatingsOK, RatingsTypeOK
  <2>3. k \in InFlight(u)
    BY <1>1, <1>6, FlightFacts
  <2>4. InFlight(u) = {k} /\ InFlight(u)' \subseteq {k}
    BY <1>1, <1>4, <2>3, QuietAlone
  <2>5. rated'[u] = Aggregate(ReviewsOf(u)')
    BY <1>1, <1>2, <1>4, <2>2, <2>3 DEF Quiet
  <2> QED BY <1>1, <2>4, <2>5 DEF Quiet
<1> QED BY <1>5, <1>6

LEMMA EndQuiet ==
  ASSUME RatingsOK, NEW k \in Clerks, ReviewEnd(k) \/ ReviewFail(k), NEW u \in Members,
         u \notin troubled => Quiet(u), u \notin troubled'
  PROVE  Quiet(u)'
<1>1. /\ clerk'[k] = NoDraft /\ UNCHANGED <<stored, rated, post>>
      /\ \A j \in Clerks \ {k} : clerk'[j] = clerk[j] /\ post'[j] = post[j]
      /\ troubled \subseteq troubled' /\ clerk[k].pc \in {"insert", "aggregate", "waiting"}
      /\ clerk[k].pc = "aggregate" => clerk[k].of \in troubled'
  BY DEF ReviewEnd, ReviewFail, ratingsHistory, RatingsOK, RatingsTypeOK, Draft
<1>2. ReviewsOf(u)' = ReviewsOf(u) /\ Aggregate(ReviewsOf(u)') = Aggregate(ReviewsOf(u))
  BY <1>1 DEF ReviewsOf
<1>3. NoDraft.pc = "idle"
  BY DEF NoDraft
<1>4. Quiet(u)
  BY <1>1
<1>5. CASE k \notin InFlight(u)
  <2>1. k \notin InFlight(u)'
    BY <1>1, <1>3, <1>5 DEF InFlight
  <2> QED BY <1>1, <1>2, <1>4, <1>5, <2>1, QuietApart
<1>6. CASE k \in InFlight(u)
  <2>1. clerk[k].pc = "waiting" /\ clerk[k].of = u
    <3>1. clerk[k].pc # "insert"
      BY <1>6, FlightFacts DEF RatingsOK, Shapes
    <3>2. clerk[k].of = u
      BY <1>1, <1>6, <3>1, FlightFacts
    <3> QED BY <1>1, <3>1, <3>2
  <2>2. InFlight(u) = {k} /\ InFlight(u)' \subseteq {k}
    BY <1>1, <1>4, <1>6, QuietAlone
  <2>3. k \in InFlight(u)' => post[k] # NoPost
    <3>1. NoPost.to # u
      BY RatingsAssumption DEF NoPost
    <3> QED BY <1>1, <1>3, <3>1 DEF InFlight
  <2>4. post[k] = NoPost => rated[u] = Aggregate(ReviewsOf(u))
    BY <1>4, <1>6, <2>1 DEF Quiet
  <2>5. post[k] # NoPost => post[k].agg = Aggregate(ReviewsOf(u)) /\ k \in InFlight(u)'
    <3>1. post[k] # NoPost => post[k].to = u
      BY <1>6, FlightFacts
    <3> QED BY <1>1, <1>4, <1>6, <3>1 DEF Quiet, InFlight
  <2> QED BY <1>1, <1>2, <2>2, <2>3, <2>4, <2>5 DEF Quiet
<1> QED BY <1>5, <1>6

LEMMA NextQuiet == RatingsOK /\ QuietInv /\ [RatingsNext]_ratingsVars => QuietInv'
<1> SUFFICES ASSUME RatingsOK, QuietInv, [RatingsNext]_ratingsVars,
                    NEW u \in Members, u \notin troubled'
             PROVE  Quiet(u)'
  BY DEF QuietInv, Quiet
<1>1. u \notin troubled => Quiet(u)
  BY QuietEach
<1>2. ASSUME UNCHANGED <<stored, rated, clerk, post, troubled>> PROVE Quiet(u)'
  BY <1>1, <1>2 DEF Quiet, InFlight, ReviewsOf
<1>3. ASSUME NEW o \in Works,
             (\E ls \in SUBSET Parts[o] : CompleteParts(o, ls)) \/ (\E l \in Parts[o] : UndoPart(o, l))
      PROVE  Quiet(u)'
  BY <1>2, <1>3, PartsType
<1>4. ASSUME NEW k \in Clerks, NEW o \in Works, NEW by \in Members, NEW of \in Members,
             NEW stars \in Stars, ReviewLoad(k, o, by, of, stars)
      PROVE  Quiet(u)'
  <2>1. /\ clerk[k].pc = "idle" /\ clerk'[k].pc = "insert" /\ post[k] = NoPost
        /\ UNCHANGED <<stored, rated, post, troubled>>
        /\ \A j \in Clerks \ {k} : clerk'[j] = clerk[j] /\ post'[j] = post[j]
    BY <1>4 DEF ReviewLoad, ratingsHistory, NoDraft, RatingsOK, RatingsTypeOK
  <2>2. NoPost.to # u
    BY RatingsAssumption DEF NoPost
  <2>3. k \notin InFlight(u) /\ k \notin InFlight(u)'
    BY <2>1, <2>2 DEF InFlight
  <2>4. ReviewsOf(u)' = ReviewsOf(u)
    BY <2>1 DEF ReviewsOf
  <2> QED BY <1>1, <2>1, <2>3, <2>4, QuietApart
<1>5. ASSUME NEW k \in Clerks, Propagate(k) PROVE Quiet(u)'
  <2>1. troubled' = troubled
    BY <1>5, PropagateType
  <2> QED BY <1>1, <1>5, <2>1, PropagateQuiet
<1>6. CASE UNCHANGED ratingsVars
  BY <1>2, <1>6 DEF ratingsVars, ratingsHistory
<1> QED BY <1>1, <1>3, <1>4, <1>5, <1>6, InsertQuiet, PostQuiet, EndQuiet DEF RatingsNext, Review

\* At rest the rating in auth is that of the reviews, unless the last review
\* met another one or its push was lost.
THEOREM RatingsCatchUp == RatingsSpec => []RatingCatchesUp
<1>1. RatingsOK /\ QuietInv /\ [RatingsNext]_ratingsVars => (RatingsOK /\ QuietInv)'
  BY NextType, NextQuiet
<1>2. QuietInv => RatingCatchesUp
  BY DEF QuietInv, RatingCatchesUp
<1> QED BY <1>1, <1>2, InitType, InitQuiet, PTL DEF RatingsSpec
=============================================================================
