--------------------------- MODULE CarriersProofs ---------------------------
(***************************************************************************)
(* The two licence gates, for every set of users, loads and accepts.       *)
(***************************************************************************)
EXTENDS Carriers, AccountsProofs

\* An applicant on the way to be approved as a driver has passed the registry.
Vetted(s) ==
  (/\ job[s].pc \in {"lookup", "insert", "update"} /\ job[s].verdict = "approved"
   /\ NeedsLicenseCheck(job[s].role))
    => pass[job[s].pass].fit
VettedInv == \A s \in Slots : Vetted(s)

\* What registration has proved of drivers, and what a gate has of an accept.
LicenceInv ==
  /\ \A p \in Phones : licence[p] \subseteq held[p] /\ (Approved(p) => "C" \in licence[p])
  /\ \A b \in Bids : bid[b] # NoBid /\ bid[b].judged =>
       RequiredLicenseCategory(Vehicle[bid[b].load]) \subseteq held[bid[b].by]
  /\ CarriersLicensed

FullBid == [load : Loads, by : Phones, judged : BOOLEAN]
BidsOK == \A b \in Bids : bid[b] = NoBid \/ bid[b] \in FullBid
CarriersOK == CarriersTypeOK /\ BidsOK

-----------------------------------------------------------------------------
(* Steps of auth.                                                          *)

\* Whatever happens, to auth it is one of its steps, or nothing.
LEMMA CarriersSteps == [CarriersNext]_<<vars, carriersVars>> => [Next]_vars
<1>1. ASSUME NEW s \in Slots, Register(s) PROVE Next
  BY <1>1 DEF Register, Next, Registration
<1>2. ASSUME NEW p \in Phones, NEW status \in Verdicts \cup {"pending"}, Overrule(p, status)
      PROVE  Next
  BY <1>2 DEF Overrule, Next, Environment
<1>3. Accepting => UNCHANGED vars
  BY DEF Accepting, Claim, BidFail, Bid, ReleaseClaim
<1> QED BY <1>1, <1>2, <1>3 DEF CarriersNext

\* The registry is asked once per application and its answer is kept.
LEMMA VettedMoves ==
  ASSUME AccountsOK, VettedInv, NEW s \in Slots, CheckApplicant(s) \/ LookupApplicant(s)
  PROVE  Vetted(s)'
<1> DEFINE vetted(w) == [job[s] EXCEPT !.pc = "lookup", !.verdict = w]
           ready(pc) == [job[s] EXCEPT !.pc = pc]
<1>1. job \in [Slots -> Job] /\ job[s] \in Job /\ pass' = pass
  BY DEF AccountsOK, TypeOK, CheckApplicant, LookupApplicant
<1>2. /\ \A w \in Verdicts : /\ vetted(w).pass = job[s].pass
                             /\ vetted(w).role = job[s].role /\ vetted(w).verdict = w
      /\ \A pc \in {"insert", "update"} : /\ ready(pc).pass = job[s].pass
                                         /\ ready(pc).role = job[s].role
                                         /\ ready(pc).verdict = job[s].verdict
  BY <1>1 DEF Job
<1>3. CASE CheckApplicant(s)
  <2>1. \/ job'[s] = Idle
        \/ \E w \in Verdicts :
             /\ job'[s] = vetted(w)
             /\ w = "approved" =>
                  ~(NeedsLicenseCheck(job[s].role) /\ ~pass[job[s].pass].fit)
    BY <1>1, <1>3 DEF CheckApplicant, Done, Become, Verdicts
  <2> HIDE DEF vetted
  <2> QED BY <1>1, <1>2, <2>1 DEF Vetted, Idle, NeedsLicenseCheck
<1>4. CASE LookupApplicant(s)
  <2>1. job[s].pc = "lookup"
    BY <1>4 DEF LookupApplicant, At
  <2>2. job'[s] = Idle \/ \E pc \in {"insert", "update"} : job'[s] = ready(pc)
    BY <1>1, <1>4 DEF LookupApplicant, Goto, Done, Become
  <2> HIDE DEF ready
  <2> QED BY <1>1, <1>2, <2>1, <2>2 DEF Vetted, VettedInv, Idle, NeedsLicenseCheck
<1> QED BY <1>3, <1>4

LEMMA VettedNext == AccountsOK /\ PassInv /\ VettedInv /\ [Next]_vars => VettedInv'
<1> SUFFICES ASSUME AccountsOK, PassInv, VettedInv, [Next]_vars PROVE VettedInv'
  OBVIOUS
<1>1. ASSUME NEW r \in Slots, job'[r] = job[r] PROVE Vetted(r)'
  <2>1. CASE job[r].pc \in {"lookup", "insert", "update"}
    <3>1. job[r].pass \in Passes
      BY <2>1 DEF AccountsOK, Shapes, JobShape, Applying
    <3>2. pass[job[r].pass].status = "consumed"
      BY <2>1, <3>1 DEF PassInv, Holds, Applying
    <3>3. pass'[job[r].pass] = pass[job[r].pass]
      BY <3>1, <3>2, StepsKeep DEF Kept
    <3> QED BY <1>1, <3>3 DEF Vetted, VettedInv, NeedsLicenseCheck
  <2> QED BY <1>1, <2>1 DEF Vetted
<1>2. ASSUME NEW s \in Slots, job'[s].pc \notin Applying PROVE Vetted(s)'
  BY <1>2 DEF Vetted, Applying
<1>3. ASSUME NEW s \in Slots, NEW k \in Passes, NEW p \in Phones, NEW role \in Roles,
             ConsumeMyIDToken(s, k, p, role)
      PROVE  Vetted(s)'
  <2>1. job'[s].pc = "check"
    BY <1>3 DEF ConsumeMyIDToken, Become, Idle, AccountsOK, TypeOK
  <2> QED BY <2>1 DEF Vetted
<1> QED BY <1>1, <1>2, <1>3, VettedMoves, JobMoves DEF VettedInv

\* Apart from registrations and the back office nobody becomes an approved driver.
LEMMA UntouchedUsers ==
  ASSUME AccountsOK, Next, Untouched
  PROVE  \A p \in Phones : Approved(p)' => Approved(p)
<1>0. /\ users \in [Phones -> UserRow] /\ made \in [Passes -> Nat] /\ made' = made
      /\ overruled' = overruled
  BY DEF AccountsOK, TypeOK, Untouched, carriersVars
<1>1. UNCHANGED users => \A p \in Phones : Approved(p)' => Approved(p)
  BY <1>0 DEF Approved, NeedsLicenseCheck
<1>2. ASSUME NEW s \in Slots, InsertAdmin(s)
      PROVE  \A p \in Phones : Approved(p)' => Approved(p)
  <2>1. users'[AdminPhone].role = "admin" /\ \A p \in Phones \ {AdminPhone} : users'[p] = users[p]
    BY <1>0, <1>2, AccountsAssumption DEF InsertAdmin, UserRow
  <2> QED BY <1>0, <2>1 DEF Approved, NeedsLicenseCheck
<1>3. ASSUME NEW s \in Slots, InsertUser(s) \/ UpdateUser(s) PROVE FALSE
  <2>1. job[s].pass \in Passes
    BY <1>3 DEF AccountsOK, Shapes, JobShape, Applying, InsertUser, UpdateUser, At
  <2>2. made'[job[s].pass] = made[job[s].pass] + 1
    BY <1>0, <1>3, <2>1 DEF InsertUser, UpdateUser, WriteUser
  <2> QED BY <1>0, <2>1, <2>2
<1>4. ASSUME NEW q \in Phones, NEW status \in Verdicts \cup {"pending"},
             SetVerification(q, status)
      PROVE  \A p \in Phones : Approved(p)' => Approved(p)
  <2>1. users[q].status # "absent" /\ users' = [users EXCEPT ![q].status = status]
    BY <1>4 DEF SetVerification
  <2>2. \A p \in Phones : users'[p].status = users[p].status /\ users'[p].role = users[p].role
    <3>1. \A p \in Phones : users'[p].role = users[p].role
      BY <1>0, <2>1 DEF UserRow
    <3>2. \A p \in Phones \ {q} : users'[p].status = users[p].status
      BY <1>0, <2>1
    <3>3. users'[q].status = users[q].status
      BY <2>1 DEF Untouched
    <3> QED BY <3>1, <3>2, <3>3
  <2> QED BY <1>0, <2>2 DEF Approved, NeedsLicenseCheck
<1> QED BY <1>1, <1>2, <1>3, <1>4, UserSteps

-----------------------------------------------------------------------------
(* Types.                                                                  *)

LEMMA RegisterType ==
  ASSUME CarriersOK, AccountsOK, NEW s \in Slots, Register(s)
  PROVE  CarriersOK'
<1>1. job[s].phone \in Phones
  BY DEF Register, InsertUser, UpdateUser, At, AccountsOK, Shapes, JobShape, Applying
<1> DEFINE cats == IF NeedsLicenseCheck(job[s].role)
                   THEN LicenseCategoriesFor(job[s].pass) ELSE {}
<1>2. cats \subseteq Categories
  BY DEF LicenseCategoriesFor, Categories
<1>3. /\ licence' = [licence EXCEPT ![job[s].phone] = cats]
      /\ held' = [held EXCEPT ![job[s].phone] = @ \cup cats]
      /\ overruled' = overruled \ {job[s].phone} /\ UNCHANGED ordersVars
  BY DEF Register
<1> HIDE DEF cats
<1> QED BY <1>1, <1>2, <1>3 DEF CarriersOK, CarriersTypeOK, BidsOK, ordersVars

LEMMA AcceptingType == ASSUME CarriersOK, Accepting PROVE CarriersOK'
<1>1. ASSUME NEW b \in Bids, NEW l \in Loads, NEW p \in Phones, Bid(b, l, p)
      PROVE  CarriersOK'
  <2>1. \E judged \in BOOLEAN :
          bid' = [bid EXCEPT ![b] = [load |-> l, by |-> p, judged |-> judged]]
    BY <1>1 DEF Bid, Approved
  <2>2. UNCHANGED <<licence, held, overruled, carrier, unjudged>>
    BY <1>1 DEF Bid
  <2> QED BY <2>1, <2>2 DEF CarriersOK, CarriersTypeOK, BidsOK, FullBid
<1>2. ASSUME NEW b \in Bids, Claim(b) PROVE CarriersOK'
  <2>1. bid[b] \in FullBid
    BY <1>2 DEF Claim, CarriersOK, BidsOK
  <2>2. bid' = [bid EXCEPT ![b] = NoBid] /\ UNCHANGED <<licence, held, overruled>>
    BY <1>2 DEF Claim
  <2>3. bid' \in [Bids -> [load : Loads \cup {None}, by : Phones \cup {None},
                          judged : BOOLEAN]] /\ BidsOK'
    BY <2>2 DEF CarriersOK, CarriersTypeOK, BidsOK, NoBid
  <2>4. carrier' \in [Loads -> Phones \cup {None}] /\ unjudged' \subseteq Loads
    BY <1>2, <2>1 DEF Claim, CarriersOK, CarriersTypeOK, FullBid
  <2> QED BY <2>2, <2>3, <2>4 DEF CarriersOK, CarriersTypeOK
<1>3. ASSUME NEW b \in Bids, BidFail(b) PROVE CarriersOK'
  BY <1>3 DEF BidFail, CarriersOK, CarriersTypeOK, BidsOK, NoBid
<1>4. ASSUME NEW l \in Loads, ReleaseClaim(l) PROVE CarriersOK'
  BY <1>4 DEF ReleaseClaim, CarriersOK, CarriersTypeOK, BidsOK
<1> QED BY <1>1, <1>2, <1>3, <1>4 DEF Accepting

LEMMA CarriersType ==
  CarriersOK /\ AccountsOK /\ [CarriersNext]_<<vars, carriersVars>> => CarriersOK'
<1> SUFFICES ASSUME CarriersOK, AccountsOK, [CarriersNext]_<<vars, carriersVars>>
             PROVE  CarriersOK'
  OBVIOUS
<1>1. UNCHANGED carriersVars => CarriersOK'
  BY DEF CarriersOK, CarriersTypeOK, BidsOK, carriersVars, ordersVars
<1>2. ASSUME NEW p \in Phones, NEW status \in Verdicts \cup {"pending"}, Overrule(p, status)
      PROVE  CarriersOK'
  BY <1>2 DEF Overrule, CarriersOK, CarriersTypeOK, BidsOK, ordersVars
<1> QED BY <1>1, <1>2, RegisterType, AcceptingType DEF CarriersNext, Untouched

LEMMA CarriersInitType == CarriersInit => CarriersOK
BY DEF CarriersInit, CarriersOK, CarriersTypeOK, BidsOK, NoBid

\* Every reachable state of the two gates is well typed.
THEOREM CarriersTypeCorrect == CarriersSpec => [](TypeOK /\ CarriersTypeOK)
<1>1. AccountsOK /\ CarriersOK => TypeOK /\ CarriersTypeOK
  BY DEF AccountsOK, CarriersOK
<1> QED BY <1>1, InitType, CarriersInitType, NextType, CarriersSteps, CarriersType, PTL
        DEF CarriersSpec

-----------------------------------------------------------------------------
(* Who may carry.                                                          *)

LEMMA RegisterLicence ==
  ASSUME AccountsOK, CarriersOK, VettedInv, LicenceInv, NEW s \in Slots, Register(s)
  PROVE  LicenceInv'
<1>0. PICK p \in Phones : p = job[s].phone
  BY DEF Register, InsertUser, UpdateUser, At, AccountsOK, Shapes, JobShape, Applying
<1> DEFINE cats == IF NeedsLicenseCheck(job[s].role)
                   THEN LicenseCategoriesFor(job[s].pass) ELSE {}
<1>1. /\ job[s].pc \in {"insert", "update"} /\ WriteUser(s)
      /\ users \in [Phones -> UserRow]
  BY DEF Register, InsertUser, UpdateUser, At, AccountsOK, TypeOK
<1>2. /\ licence' = [licence EXCEPT ![p] = cats]
      /\ held' = [held EXCEPT ![p] = @ \cup cats]
      /\ overruled' = overruled \ {p} /\ UNCHANGED <<carrier, bid, unjudged>>
  BY <1>0 DEF Register, ordersVars
<1>3. /\ users'[p].status = job[s].verdict /\ users'[p].role = job[s].role
      /\ \A q \in Phones \ {p} : users'[q] = users[q]
  BY <1>0, <1>1 DEF WriteUser
<1>4. Approved(p)' => "C" \in cats
  BY <1>1, <1>3 DEF Approved, VettedInv, Vetted, LicenseCategoriesFor, NeedsLicenseCheck
<1> HIDE DEF cats
<1>5. \A q \in Phones : held[q] \subseteq held'[q]
  BY <1>1, <1>2 DEF CarriersOK, CarriersTypeOK
<1>6. \A q \in Phones : licence'[q] \subseteq held'[q] /\ (Approved(q)' => "C" \in licence'[q])
  <2>1. ASSUME NEW q \in Phones \ {p}, Approved(q)' PROVE Approved(q)
    BY <1>2, <1>3, <2>1 DEF Approved, NeedsLicenseCheck
  <2> QED BY <1>1, <1>2, <1>4, <2>1 DEF CarriersOK, CarriersTypeOK, LicenceInv
<1>7. \A b \in Bids : bid'[b] # NoBid /\ bid'[b].judged =>
        RequiredLicenseCategory(Vehicle[bid'[b].load]) \subseteq held'[bid'[b].by]
  BY <1>2, <1>5 DEF LicenceInv, CarriersOK, BidsOK, FullBid
<1>8. CarriersLicensed'
  BY <1>2, <1>5, AccountsAssumption
     DEF LicenceInv, CarriersLicensed, CarriersOK, CarriersTypeOK
<1> QED BY <1>6, <1>7, <1>8 DEF LicenceInv

\* A gate that lets an accept through and judges it knows of the category.
LEMMA GateJudges ==
  ASSUME CarriersOK, LicenceInv, NEW b \in Bids, NEW l \in Loads, NEW p \in Phones, Bid(b, l, p)
  PROVE  \E judged \in BOOLEAN :
           /\ bid' = [bid EXCEPT ![b] = [load |-> l, by |-> p, judged |-> judged]]
           /\ judged => RequiredLicenseCategory(Vehicle[l]) \subseteq held[p]
<1> DEFINE need == RequiredLicenseCategory(Vehicle[l])
<1>1. need \in {{}, {"C"}, {"CE"}}
  BY DEF RequiredLicenseCategory
<1>2. Approved(p) => "C" \in held[p]
  BY DEF LicenceInv
<1>3. CASE "CE" \notin need
  <2>1. bid' = [bid EXCEPT ![b] =
                  [load |-> l, by |-> p, judged |-> (need = {} \/ Approved(p))]]
    BY <1>3 DEF Bid
  <2>2. need = {} \/ Approved(p) => need \subseteq held[p]
    BY <1>1, <1>2, <1>3
  <2>3. (need = {} \/ Approved(p)) \in BOOLEAN
    OBVIOUS
  <2> HIDE DEF need
  <2> QED BY <2>1, <2>2, <2>3 DEF need
<1>4. CASE "CE" \in need
  <2>1. \/ /\ need \subseteq licence[p]
           /\ bid' = [bid EXCEPT ![b] = [load |-> l, by |-> p, judged |-> TRUE]]
        \/ bid' = [bid EXCEPT ![b] = [load |-> l, by |-> p, judged |-> FALSE]]
    BY <1>4 DEF Bid, Asked
  <2>2. licence[p] \subseteq held[p]
    BY DEF LicenceInv
  <2> QED BY <2>1, <2>2
<1> QED BY <1>3, <1>4

LEMMA AcceptingLicence ==
  ASSUME CarriersOK, LicenceInv, Accepting
  PROVE  LicenceInv'
<1>0. /\ UNCHANGED <<vars, licence, held, overruled>>
      /\ \A p \in Phones : Approved(p)' = Approved(p)
  <2>1. UNCHANGED <<vars, licence, held, overruled>>
    BY DEF Accepting, Claim, BidFail, Bid, ReleaseClaim
  <2> QED BY <2>1 DEF Approved, vars, NeedsLicenseCheck
<1>1. ASSUME NEW b \in Bids, NEW l \in Loads, NEW p \in Phones, Bid(b, l, p)
      PROVE  LicenceInv'
  <2>1. PICK judged \in BOOLEAN :
          /\ bid' = [bid EXCEPT ![b] = [load |-> l, by |-> p, judged |-> judged]]
          /\ judged => RequiredLicenseCategory(Vehicle[l]) \subseteq held[p]
    BY <1>1, GateJudges
  <2>2. UNCHANGED <<carrier, unjudged>>
    BY <1>1 DEF Bid
  <2> QED BY <1>0, <2>1, <2>2
          DEF LicenceInv, CarriersLicensed, CarriersOK, CarriersTypeOK
<1>2. ASSUME NEW b \in Bids, Claim(b) PROVE LicenceInv'
  <2>1. bid[b] # NoBid /\ bid[b] \in FullBid /\ bid' = [bid EXCEPT ![b] = NoBid]
    BY <1>2 DEF Claim, CarriersOK, BidsOK
  <2>2. CarriersLicensed'
    BY <1>0, <1>2, <2>1 DEF Claim, LicenceInv, CarriersLicensed, CarriersOK, CarriersTypeOK,
         FullBid
  <2> QED BY <1>0, <2>1, <2>2 DEF LicenceInv, CarriersOK, CarriersTypeOK
<1>3. ASSUME NEW b \in Bids, BidFail(b) PROVE LicenceInv'
  BY <1>0, <1>3 DEF BidFail, LicenceInv, CarriersLicensed, CarriersOK, CarriersTypeOK
<1>4. ASSUME NEW l \in Loads, ReleaseClaim(l) PROVE LicenceInv'
  BY <1>0, <1>4 DEF ReleaseClaim, LicenceInv, CarriersLicensed, CarriersOK, CarriersTypeOK
<1> QED BY <1>1, <1>2, <1>3, <1>4 DEF Accepting

LEMMA LicenceNext ==
  AccountsOK /\ CarriersOK /\ VettedInv /\ LicenceInv /\ [CarriersNext]_<<vars, carriersVars>>
    => LicenceInv'
<1> SUFFICES ASSUME AccountsOK, CarriersOK, VettedInv, LicenceInv,
                    [CarriersNext]_<<vars, carriersVars>>
             PROVE  LicenceInv'
  OBVIOUS
<1>1. ASSUME UNCHANGED carriersVars, \A p \in Phones : Approved(p)' => Approved(p)
      PROVE  LicenceInv'
  BY <1>1 DEF LicenceInv, CarriersLicensed, carriersVars, ordersVars
<1>2. UNCHANGED vars /\ UNCHANGED carriersVars => \A p \in Phones : Approved(p)' => Approved(p)
  BY DEF vars, carriersVars, Approved, NeedsLicenseCheck
<1>3. ASSUME NEW q \in Phones, NEW status \in Verdicts \cup {"pending"}, Overrule(q, status)
      PROVE  LicenceInv'
  <2>1. /\ UNCHANGED <<licence, held, carrier, bid, unjudged>> /\ overruled' = overruled \cup {q}
        /\ users' = [users EXCEPT ![q].status = status] /\ users \in [Phones -> UserRow]
    BY <1>3 DEF Overrule, ordersVars, SetVerification, AccountsOK, TypeOK
  <2>2. \A p \in Phones : Approved(p)' => Approved(p)
    BY <2>1 DEF Approved, NeedsLicenseCheck
  <2> QED BY <2>1, <2>2 DEF LicenceInv, CarriersLicensed
<1>4. Next /\ Untouched => LicenceInv'
  BY <1>1, UntouchedUsers DEF Untouched
<1> QED BY <1>1, <1>2, <1>3, <1>4, RegisterLicence, AcceptingLicence DEF CarriersNext

\* Whoever carries a load, and was judged by a licence gate, has held the category:
\* registration keeps its answer until it writes the row, and nothing but the back
\* office makes a driver approved whom it has not judged.
THEOREM CarriersAreLicensed == CarriersSpec => []CarriersLicensed
<1>1. Init => PassInv /\ VettedInv
  BY DEF Init, PassInv, Holds, Applying, Idle, VettedInv, Vetted
<1>2. Init /\ CarriersInit => LicenceInv
  BY DEF Init, CarriersInit, LicenceInv, CarriersLicensed, Approved, NoUser,
         NeedsLicenseCheck
<1>3. LicenceInv => CarriersLicensed
  BY DEF LicenceInv
<1> QED BY <1>1, <1>2, <1>3, InitType, CarriersInitType, CarriersSteps, NextType, CarriersType,
           PassNext, VettedNext, LicenceNext, PTL DEF CarriersSpec
=============================================================================
