------------------------------ MODULE Carriers ------------------------------
(***************************************************************************)
(* Who may carry a load.  A licence is looked at twice: registration asks  *)
(* the registry whether a driver holds category C, and an accept of the    *)
(* orders service asks auth whether the executor holds CE when the load is *)
(* a tractor-trailer's.  In between, the row of the user may be overruled  *)
(* by the back office and overwritten, and accepts overlap with all that.  *)
(***************************************************************************)
EXTENDS Accounts

CONSTANTS
  Wide,     \* passes of persons whom the registry lists with CE, if with C
  Loads,    \* transport legs
  Vehicle,  \* the vehicle type each of them asks for
  Bids      \* accept requests in flight

\* truck stands for the five rigid trucks, other for whatever else is sent.
VehicleTypes == {"tractorTrailer", "truck", "other"}

ASSUME CarriersAssumption == Wide \subseteq Passes /\ Vehicle \in [Loads -> VehicleTypes]

VARIABLES
  licence,     \* users.license_categories
  carrier,     \* executor of each load
  bid,         \* accepts past the gate
  held,        \* history: categories a user's row has carried
  overruled,   \* history: users whose status is the back office's
  unjudged     \* history: loads whose carrier no gate has judged

ordersVars == <<carrier, bid, unjudged>>
carriersVars == <<licence, held, overruled, ordersVars>>

Categories == {"B", "C", "CE"}
NoBid == [load |-> None, by |-> None, judged |-> FALSE]

CarriersInit ==
  /\ licence = [p \in Phones |-> {}] /\ held = [p \in Phones |-> {}]
  /\ carrier = [l \in Loads |-> None] /\ bid = [b \in Bids |-> NoBid]
  /\ overruled = {} /\ unjudged = {}

-----------------------------------------------------------------------------
(* Registration.                                                           *)

\* The registry, by the last digit of the personal number.
LicenseCategoriesFor(k) ==
  {"B"} \cup (IF pass[k].fit THEN {"C"} ELSE {})
        \cup (IF pass[k].fit /\ k \in Wide THEN {"CE"} ELSE {})

\* CreateUser, with the categories of those who need a licence.
Register(s) ==
  LET p == job[s].phone
      cats == IF NeedsLicenseCheck(job[s].role) THEN LicenseCategoriesFor(job[s].pass) ELSE {}
  IN
  /\ InsertUser(s) \/ UpdateUser(s)
  /\ licence' = [licence EXCEPT ![p] = cats]
  /\ held' = [held EXCEPT ![p] = @ \cup cats]
  /\ overruled' = overruled \ {p}
  /\ UNCHANGED ordersVars

Overrule(p, status) ==
  /\ SetVerification(p, status)
  /\ overruled' = overruled \cup {p}
  /\ UNCHANGED <<licence, held, ordersVars>>

\* Anything else that happens in auth leaves licences and statuses alone, but
\* for the account of the back office.
Untouched ==
  /\ made' = made
  /\ \A p \in Phones : users[p].status \in {"absent", users'[p].status}
  /\ UNCHANGED carriersVars

-----------------------------------------------------------------------------
(* POST /orders/{id}/accept of a transport leg.                            *)

RequiredLicenseCategory(v) ==
  CASE v = "tractorTrailer" -> {"CE"} [] v = "truck" -> {"C"} [] OTHER -> {}

\* Whoever has a session may accept for themselves, the back office for anyone.
\* A session is that of its sign-in, whatever has become of the user: the access
\* token outlives the refresh token it was issued with.
MayBid(p) == \E t \in Tokens : tokens[t] # "absent" /\ (t[1] = p \/ t[2] = "admin")

\* Registration itself has found C.
Approved(p) ==
  users[p].status = "approved" /\ NeedsLicenseCheck(users[p].role) /\ p \notin overruled

\* Mutant: any truck licence will do for a trailer.
AskedAnyTruck(l, p) == licence[p] \cap {"C", "CE"} # {}
\* What auth answers about the user, if asked.
Asked(l, p) == RequiredLicenseCategory(Vehicle[l]) \subseteq licence[p]

\* licenceGate: category C is not asked for, and an auth service that cannot be
\* reached or does not know the user is no obstacle.
Bid(b, l, p) ==
  LET need == RequiredLicenseCategory(Vehicle[l])
      Pass(judged) == bid' = [bid EXCEPT ![b] = [load |-> l, by |-> p, judged |-> judged]]
  IN
  /\ bid[b] = NoBid /\ MayBid(p)
  /\ \/ "CE" \notin need /\ Pass(need = {} \/ Approved(p))
     \/ "CE" \in need /\ users[p].status # "absent" /\ Asked(l, p) /\ Pass(TRUE)
     \/ "CE" \in need /\ Pass(FALSE)
  /\ UNCHANGED <<vars, licence, held, overruled, carrier, unjudged>>

\* ClaimLeg, which the first of several accepts wins.
Claim(b) ==
  LET l == bid[b].load IN
  /\ bid[b] # NoBid
  /\ bid' = [bid EXCEPT ![b] = NoBid]
  /\ IF carrier[l] = None
     THEN /\ carrier' = [carrier EXCEPT ![l] = bid[b].by]
          /\ unjudged' = IF bid[b].judged THEN unjudged \ {l} ELSE unjudged \cup {l}
     ELSE UNCHANGED <<carrier, unjudged>>
  /\ UNCHANGED <<vars, licence, held, overruled>>

\* The escrow cannot be opened: any time after the claim, to keep this apart from
\* the wallet.
ReleaseClaim(l) ==
  /\ carrier[l] # None
  /\ carrier' = [carrier EXCEPT ![l] = None]
  /\ UNCHANGED <<vars, licence, held, overruled, bid, unjudged>>

BidFail(b) ==
  /\ bid[b] # NoBid
  /\ bid' = [bid EXCEPT ![b] = NoBid]
  /\ UNCHANGED <<vars, licence, held, overruled, carrier, unjudged>>

Accepting ==
  \/ \E b \in Bids : Claim(b) \/ BidFail(b) \/ \E l \in Loads, p \in Phones : Bid(b, l, p)
  \/ \E l \in Loads : ReleaseClaim(l)

CarriersNext ==
  \/ \E s \in Slots : Register(s)
  \/ \E p \in Phones, status \in Verdicts \cup {"pending"} : Overrule(p, status)
  \/ Next /\ Untouched
  \/ Accepting

CarriersSpec == Init /\ CarriersInit /\ [][CarriersNext]_<<vars, carriersVars>>

-----------------------------------------------------------------------------
(* Correctness.                                                            *)

CarriersTypeOK ==
  /\ licence \in [Phones -> SUBSET Categories] /\ held \in [Phones -> SUBSET Categories]
  /\ carrier \in [Loads -> Phones \cup {None}]
  /\ bid \in [Bids -> [load : Loads \cup {None}, by : Phones \cup {None}, judged : BOOLEAN]]
  /\ overruled \subseteq Phones /\ unjudged \subseteq Loads

\* "One copy means the two gates cannot drift apart" (RequiredLicenseCategory):
\* whoever carries a load has held the category it needs, however registrations,
\* the back office and accepts overlap, wherever a gate has judged them at all.
\* For category C that is the registration of a driver, which the accept takes
\* for granted of everybody ("registration already proved C", licenceGate); for
\* CE it is the accept, while auth answers it.
CarriersLicensed ==
  \A l \in Loads : carrier[l] # None /\ l \notin unjudged =>
    RequiredLicenseCategory(Vehicle[l]) \subseteq held[carrier[l]]
=============================================================================
