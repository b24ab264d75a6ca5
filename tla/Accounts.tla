------------------------------ MODULE Accounts ------------------------------
(***************************************************************************)
(* The auth service: a phone is confirmed by a code, a person by a MyID    *)
(* pass bound to that confirmation, the pass is spent on registering a     *)
(* user, and users hold sessions whose refresh token changes at each use.  *)
(*                                                                         *)
(* A request is one element of Slots, and each of its SQL statements is a  *)
(* step; it decides on what it read and writes later.  A user is named by  *)
(* the phone, which is UNIQUE in auth.users and never changes.             *)
(***************************************************************************)
EXTENDS Integers, FiniteSets

CONSTANTS
  Phones, AdminPhone,  \* phone numbers, and the one of the back office
  Verifs,              \* verification ids
  Passes,              \* MyID tokens
  Slots,               \* requests in flight
  OTPRateLimit,        \* codes per phone and window; 0 is no limit
  OTPMaxAttempts,      \* wrong answers a code survives
  IsProd,              \* APP_ENV is "prod"
  LastSecond,          \* bound on the clock
  None                 \* the absent phone, pass or verification

ASSUME AccountsAssumption ==
  /\ AdminPhone \in Phones
  /\ None \notin Phones /\ None \notin Passes /\ None \notin Verifs
  /\ OTPRateLimit \in Nat /\ OTPMaxAttempts \in Nat
  /\ IsProd \in BOOLEAN /\ LastSecond \in Nat

VARIABLES
  otp,     \* auth.otp_codes
  pass,    \* auth.myid_verifications
  users,   \* auth.users
  tokens,  \* auth.refresh_tokens
  job,     \* what each request does next
  second,  \* the clock as the tokens' iat and exp see it
  made,    \* history: users written with a pass
  spent    \* history: exchanges of a token

vars == <<otp, pass, users, tokens, job, second, made, spent>>

\* A code ages out of its 120 s, the 10 min window of the rate limit and the
\* 15 min window of logins, in this order.
Ages == 0..3
InTTL(v) == otp[v].age = 0
InRateWindow(v) == otp[v].age <= 1
InLoginWindow(v) == otp[v].age <= 2

OtpRow == [phone : Phones \cup {None}, verified : BOOLEAN, attempts : Nat, age : Ages]
NoCode == [phone |-> None, verified |-> FALSE, attempts |-> 0, age |-> 0]

\* fit: whether the registry lists the person with category C.
PassRow == [status : {"absent", "live", "consumed", "expired"},
            verif : Verifs \cup {None}, fit : BOOLEAN]
NoPass == [status |-> "absent", verif |-> None, fit |-> FALSE]

\* driver stands for the two roles with a licence check, client for the others.
Roles == {"client", "driver", "admin"}
NeedsLicenseCheck(role) == role = "driver"

Verdicts == {"approved", "rejected"}
\* pass: the one that pinfl, passport and birth date were copied from.
UserRow == [status : Verdicts \cup {"absent", "pending"},
            role : Roles, pass : Passes \cup {None}]
NoUser == [status |-> "absent", role |-> "client", pass |-> None]

\* A refresh token is signed over the user, the role and the second, and over
\* nothing else.
Tokens == Phones \X Roles \X (0..LastSecond)

\* pc is the next statement; the other fields are what it will use.
Job == [pc : {"idle", "code", "wrong", "right", "issue", "check", "lookup", "insert",
              "update", "find", "admin", "save"},
        phone : Phones \cup {None}, verif : Verifs \cup {None},
        pass : Passes \cup {None}, role : Roles, verdict : Verdicts,
        iat : 0..LastSecond]
Idle == [pc |-> "idle", phone |-> None, verif |-> None, pass |-> None,
         role |-> "client", verdict |-> "approved", iat |-> 0]

At(s, pc) == job[s].pc = pc
Become(s, j) == job' = [job EXCEPT ![s] = j]
Goto(s, pc) == Become(s, [job[s] EXCEPT !.pc = pc])
Done(s) == Become(s, Idle)

Init ==
  /\ otp = [v \in Verifs |-> NoCode]
  /\ pass = [k \in Passes |-> NoPass]
  /\ users = [p \in Phones |-> NoUser]
  /\ tokens = [t \in Tokens |-> "absent"]
  /\ job = [s \in Slots |-> Idle]
  /\ second = 0
  /\ made = [k \in Passes |-> 0]
  /\ spent = [t \in Tokens |-> 0]

-----------------------------------------------------------------------------
(* One-time codes.                                                         *)

CodesInWindow(p) == {v \in Verifs : otp[v].phone = p /\ InRateWindow(v)}

\* Mutant: off by one.
BelowRateLimitOrAt(p) ==
  OTPRateLimit > 0 => Cardinality(CodesInWindow(p)) <= OTPRateLimit

BelowRateLimit(p) ==
  OTPRateLimit > 0 => Cardinality(CodesInWindow(p)) < OTPRateLimit

\* POST /auth/otp/request, its count.
RequestCode(s, p) ==
  /\ At(s, "idle") /\ BelowRateLimit(p)
  /\ Become(s, [Idle EXCEPT !.pc = "code", !.phone = p])
  /\ UNCHANGED <<otp, pass, users, tokens, second, made, spent>>

InsertCode(s) ==
  /\ At(s, "code")
  /\ \E v \in Verifs :
       /\ otp[v].phone = None
       /\ otp' = [otp EXCEPT ![v] = [NoCode EXCEPT !.phone = job[s].phone]]
  /\ Done(s)
  /\ UNCHANGED <<pass, users, tokens, second, made, spent>>

\* Mutant: attempts are counted and never looked at.
VerifyOTPAnyAttempt(s, v) ==
  /\ At(s, "idle") /\ otp[v].phone # None
  /\ ~otp[v].verified /\ InTTL(v)
  /\ \E verdict \in {"right", "wrong"} :
       Become(s, [Idle EXCEPT !.pc = verdict, !.verif = v])
  /\ UNCHANGED <<otp, pass, users, tokens, second, made, spent>>

\* POST /auth/otp/verify, its read: the submitted code is judged on the row as
\* it is now, right or wrong.  A verified row is answered without a write.
VerifyOTP(s, v) ==
  /\ At(s, "idle") /\ otp[v].phone # None
  /\ ~otp[v].verified /\ InTTL(v) /\ otp[v].attempts < OTPMaxAttempts
  /\ \E verdict \in {"right", "wrong"} :
       Become(s, [Idle EXCEPT !.pc = verdict, !.verif = v])
  /\ UNCHANGED <<otp, pass, users, tokens, second, made, spent>>

CountAttempt(s) ==
  /\ At(s, "wrong")
  /\ otp' = [otp EXCEPT ![job[s].verif].attempts = @ + 1]
  /\ Done(s)
  /\ UNCHANGED <<pass, users, tokens, second, made, spent>>

MarkVerified(s) ==
  /\ At(s, "right")
  /\ otp' = [otp EXCEPT ![job[s].verif].verified = TRUE]
  /\ Done(s)
  /\ UNCHANGED <<pass, users, tokens, second, made, spent>>

VerifiedPhone(v) == IF otp[v].verified THEN otp[v].phone ELSE None

\* Time passes for a code.
AgeCode(v) ==
  /\ otp[v].phone # None /\ otp[v].age < 3
  /\ otp' = [otp EXCEPT ![v].age = @ + 1]
  /\ UNCHANGED <<pass, users, tokens, job, second, made, spent>>

-----------------------------------------------------------------------------
(* MyID passes and registration.                                           *)

\* POST /auth/myid/verify for a confirmed phone and a person who matches.
MyidVerify(s, v) ==
  /\ At(s, "idle") /\ VerifiedPhone(v) # None
  /\ Become(s, [Idle EXCEPT !.pc = "issue", !.verif = v])
  /\ UNCHANGED <<otp, pass, users, tokens, second, made, spent>>

CreateMyIDVerification(s) ==
  /\ At(s, "issue")
  /\ \E k \in Passes, fit \in BOOLEAN :
       /\ pass[k].status = "absent"
       /\ pass' = [pass EXCEPT ![k] =
                     [status |-> "live", verif |-> job[s].verif, fit |-> fit]]
  /\ Done(s)
  /\ UNCHANGED <<otp, users, tokens, second, made, spent>>

ExpirePass(k) ==
  /\ pass[k].status = "live"
  /\ pass' = [pass EXCEPT ![k].status = "expired"]
  /\ UNCHANGED <<otp, users, tokens, job, second, made, spent>>

\* Mutant: the UPDATE does not ask whether the pass is consumed.
ConsumeMyIDTokenAgain(s, k, p, role) ==
  /\ At(s, "idle") /\ pass[k].status \in {"live", "consumed"}
  /\ pass' = [pass EXCEPT ![k].status = "consumed"]
  /\ Become(s, [Idle EXCEPT !.pc = "check", !.pass = k, !.phone = p, !.role = role])
  /\ UNCHANGED <<otp, users, tokens, second, made, spent>>

\* POST /auth/register: the pass is consumed first, by one UPDATE.
ConsumeMyIDToken(s, k, p, role) ==
  /\ At(s, "idle") /\ pass[k].status = "live"
  /\ pass' = [pass EXCEPT ![k].status = "consumed"]
  /\ Become(s, [Idle EXCEPT !.pc = "check", !.pass = k, !.phone = p, !.role = role])
  /\ UNCHANGED <<otp, users, tokens, second, made, spent>>

\* Mutant: some confirmed phone will do.
CheckApplicantAnyPhone(s) ==
  /\ At(s, "check")
  /\ LET k == job[s].pass
         refused == NeedsLicenseCheck(job[s].role) /\ ~pass[k].fit
     IN  IF VerifiedPhone(pass[k].verif) # None
         THEN Become(s, [job[s] EXCEPT !.pc = "lookup",
                           !.verdict = IF refused THEN "rejected" ELSE "approved"])
         ELSE Done(s)
  /\ UNCHANGED <<otp, pass, users, tokens, second, made, spent>>

\* The phone must be the one the pass is bound to; the registry decides on the
\* applicant.
CheckApplicant(s) ==
  /\ At(s, "check")
  /\ LET k == job[s].pass
         refused == NeedsLicenseCheck(job[s].role) /\ ~pass[k].fit
     IN  IF VerifiedPhone(pass[k].verif) = job[s].phone
         THEN Become(s, [job[s] EXCEPT !.pc = "lookup",
                           !.verdict = IF refused THEN "rejected" ELSE "approved"])
         ELSE Done(s)
  /\ UNCHANGED <<otp, pass, users, tokens, second, made, spent>>

\* Mutant: only a pending applicant is in the way.
LookupApplicantPending(s) ==
  /\ At(s, "lookup")
  /\ CASE users[job[s].phone].status = "absent" -> Goto(s, "insert")
       [] users[job[s].phone].status \in Verdicts -> Goto(s, "update")
       [] OTHER -> Done(s)
  /\ UNCHANGED <<otp, pass, users, tokens, second, made, spent>>

\* CreateUser first looks the phone up: nobody, somebody rejected, or taken.
LookupApplicant(s) ==
  /\ At(s, "lookup")
  /\ CASE users[job[s].phone].status = "absent" -> Goto(s, "insert")
       [] users[job[s].phone].status = "rejected" -> Goto(s, "update")
       [] OTHER -> Done(s)
  /\ UNCHANGED <<otp, pass, users, tokens, second, made, spent>>

\* The row is written; the rejected get 403, the others a session.
WriteUser(s) ==
  LET j == job[s] IN
  /\ users' = [users EXCEPT ![j.phone] =
                 [status |-> j.verdict, role |-> j.role, pass |-> j.pass]]
  /\ made' = [made EXCEPT ![j.pass] = @ + 1]
  /\ IF j.verdict = "approved"
     THEN Become(s, [j EXCEPT !.pc = "save", !.iat = second])
     ELSE Done(s)
  /\ UNCHANGED <<otp, pass, tokens, second, spent>>

\* phone_number is UNIQUE: the second of two inserts fails.
InsertUser(s) ==
  At(s, "insert") /\ users[job[s].phone].status = "absent" /\ WriteUser(s)

\* UPDATE ... WHERE id = $1, whatever the row has become.
UpdateUser(s) == At(s, "update") /\ WriteUser(s)

-----------------------------------------------------------------------------
(* Sessions.                                                               *)

\* POST /auth/login: with a verification id, or on the phone alone.
RecentlyVerified(p) ==
  \E v \in Verifs : VerifiedPhone(v) = p /\ InLoginWindow(v)

Login(s, p) ==
  /\ At(s, "idle")
  /\ \/ \E v \in Verifs : VerifiedPhone(v) = p
     \/ IsProd => RecentlyVerified(p)
  /\ Become(s, [Idle EXCEPT !.pc = "find", !.phone = p])
  /\ UNCHANGED <<otp, pass, users, tokens, second, made, spent>>

\* POST /auth/refresh: the presented token is revoked by one UPDATE.
RotateRefreshToken(s, t) ==
  /\ At(s, "idle") /\ tokens[t] = "live"
  /\ tokens' = [tokens EXCEPT ![t] = "revoked"]
  /\ spent' = [spent EXCEPT ![t] = @ + 1]
  /\ Become(s, [Idle EXCEPT !.pc = "find", !.phone = t[1]])
  /\ UNCHANGED <<otp, pass, users, second, made>>

\* UserByPhone or UserByID, then the signing of a token pair.
FindUser(s) ==
  /\ At(s, "find")
  /\ IF users[job[s].phone].status = "absent" THEN Done(s)
     ELSE Become(s, [job[s] EXCEPT !.pc = "save", !.iat = second,
                       !.role = users[job[s].phone].role])
  /\ UNCHANGED <<otp, pass, users, tokens, second, made, spent>>

\* Mutant: the conflict is resolved by reviving the row.
SaveRefreshTokenRevived(s) ==
  LET t == <<job[s].phone, job[s].role, job[s].iat>> IN
  /\ At(s, "save")
  /\ tokens' = [tokens EXCEPT ![t] = "live"]
  /\ Done(s)
  /\ UNCHANGED <<otp, pass, users, second, made, spent>>

\* INSERT ... ON CONFLICT (token_hash) DO NOTHING.
SaveRefreshToken(s) ==
  LET t == <<job[s].phone, job[s].role, job[s].iat>> IN
  /\ At(s, "save")
  /\ tokens' = [tokens EXCEPT ![t] = IF @ = "absent" THEN "live" ELSE @]
  /\ Done(s)
  /\ UNCHANGED <<otp, pass, users, second, made, spent>>

\* POST /auth/logout, and the end of a token's 30 days.
RevokeRefreshToken(t) ==
  /\ tokens[t] = "live"
  /\ tokens' = [tokens EXCEPT ![t] = "revoked"]
  /\ UNCHANGED <<otp, pass, users, job, second, made, spent>>

\* POST /auth/admin/login with the right password: the first administrator, or
\* an account made for the back office.
AdminLogin(s) ==
  LET admins == {p \in Phones : users[p].status # "absent" /\ users[p].role = "admin"} IN
  /\ At(s, "idle")
  /\ IF admins = {}
     THEN Become(s, [Idle EXCEPT !.pc = "admin", !.phone = AdminPhone])
     ELSE \E p \in admins : Become(s, [Idle EXCEPT !.pc = "save", !.phone = p,
                                         !.role = "admin", !.iat = second])
  /\ UNCHANGED <<otp, pass, users, tokens, second, made, spent>>

\* Mutant: a status the column does not know.
InsertAdminVerified(s) ==
  /\ At(s, "admin")
  /\ users' = [users EXCEPT ![AdminPhone] =
                 IF @.status = "absent"
                 THEN [status |-> "verified", role |-> "admin", pass |-> None]
                 ELSE [@ EXCEPT !.role = "admin"]]
  /\ Become(s, [job[s] EXCEPT !.pc = "save", !.role = "admin", !.iat = second])
  /\ UNCHANGED <<otp, pass, tokens, second, made, spent>>

InsertAdmin(s) ==
  /\ At(s, "admin")
  /\ users' = [users EXCEPT ![AdminPhone] =
                 IF @.status = "absent"
                 THEN [status |-> "approved", role |-> "admin", pass |-> None]
                 ELSE [@ EXCEPT !.role = "admin"]]
  /\ Become(s, [job[s] EXCEPT !.pc = "save", !.role = "admin", !.iat = second])
  /\ UNCHANGED <<otp, pass, tokens, second, made, spent>>

\* The back office flips a verification status.
SetVerification(p, status) ==
  /\ users[p].status # "absent"
  /\ users' = [users EXCEPT ![p].status = status]
  /\ UNCHANGED <<otp, pass, tokens, job, second, made, spent>>

Tick ==
  /\ second < LastSecond
  /\ second' = second + 1
  /\ UNCHANGED <<otp, pass, users, tokens, job, made, spent>>

\* A statement fails, executed or not, or the request's context is cancelled or
\* the process stops: nothing is undone.
Fail(s) ==
  /\ job[s].pc # "idle"
  /\ Done(s)
  /\ UNCHANGED <<otp, pass, users, tokens, second, made, spent>>

Codes(s) ==
  \/ \E p \in Phones : RequestCode(s, p)
  \/ \E v \in Verifs : VerifyOTP(s, v)
  \/ InsertCode(s) \/ CountAttempt(s) \/ MarkVerified(s)

Registration(s) ==
  \/ \E v \in Verifs : MyidVerify(s, v)
  \/ \E k \in Passes, p \in Phones, role \in Roles : ConsumeMyIDToken(s, k, p, role)
  \/ CreateMyIDVerification(s) \/ CheckApplicant(s) \/ LookupApplicant(s)
  \/ InsertUser(s) \/ UpdateUser(s)

Sessions(s) ==
  \/ \E p \in Phones : Login(s, p)
  \/ \E t \in Tokens : RotateRefreshToken(s, t)
  \/ FindUser(s) \/ SaveRefreshToken(s) \/ AdminLogin(s) \/ InsertAdmin(s)

Environment ==
  \/ Tick
  \/ \E v \in Verifs : AgeCode(v)
  \/ \E k \in Passes : ExpirePass(k)
  \/ \E t \in Tokens : RevokeRefreshToken(t)
  \/ \E p \in Phones, status \in Verdicts \cup {"pending"} : SetVerification(p, status)

Next ==
  \/ \E s \in Slots : Codes(s) \/ Registration(s) \/ Sessions(s) \/ Fail(s)
  \/ Environment

Spec == Init /\ [][Next]_vars

-----------------------------------------------------------------------------
(* Correctness.                                                            *)

\* Types.
TypeOK ==
  /\ otp \in [Verifs -> OtpRow] /\ pass \in [Passes -> PassRow]
  /\ users \in [Phones -> UserRow]
  /\ tokens \in [Tokens -> {"absent", "live", "revoked"}]
  /\ job \in [Slots -> Job] /\ second \in 0..LastSecond
  /\ made \in [Passes -> Nat] /\ spent \in [Tokens -> Nat]

\* "one KYC pass registers exactly once" (Handler.register): at most one user
\* row is ever written with a pass, however requests that present it overlap,
\* fail and are repeated.
PassMadeOnce == \A k \in Passes : made[k] <= 1

\* "registering a different number with someone else's identity must not be
\* possible" (Handler.register): the identity a user row carries is that of a
\* pass bound to a confirmed code for the very phone of the user.
IdentityOfPhone ==
  \A p \in Phones : users[p].pass # None =>
    LET k == users[p].pass IN
      pass[k].status = "consumed" /\ VerifiedPhone(pass[k].verif) = p

\* "a stolen token is usable at most once" (Store.RotateRefreshToken): no token
\* is exchanged twice, though two sign-ins of a user within a second are given
\* the same one, and an exchange within the second it was signed in is answered
\* with the token it has just revoked.
TokenSpentOnce == \A t \in Tokens : spent[t] <= 1

\* When the codes of a phone fill the window and no request has passed its
\* count, no request passes it and no code comes until one has aged out: only
\* requests that overlap get more codes than the limit.
Counted(p) == \E s \in Slots : At(s, "code") /\ job[s].phone = p
WindowFull(p) ==
  OTPRateLimit > 0 /\ ~(Cardinality(CodesInWindow(p)) < OTPRateLimit) /\ ~Counted(p)
FullWindowHolds ==
  [][\A p \in Phones : WindowFull(p) =>
       ~Counted(p)' /\ CodesInWindow(p)' \subseteq CodesInWindow(p)]_vars

\* A code that has expired or has had its wrong answers is dead: unless a right
\* answer was judged before, it is never confirmed.
Dead(v) ==
  /\ otp[v].phone # None /\ ~otp[v].verified
  /\ ~InTTL(v) \/ otp[v].attempts >= OTPMaxAttempts
  /\ ~\E s \in Slots : At(s, "right") /\ job[s].verif = v
DeadCodesStay == [][\A v \in Verifs : Dead(v) => Dead(v)']_vars

\* "An approved account still returns ErrPhoneTaken" (Store.CreateUser): once a
\* phone has an approved user and no registration is on its way to overwrite
\* what it saw rejected, registrations leave the row's identity alone, for as
\* long as the back office leaves its status.
Taken(p) ==
  users[p].status = "approved" /\ ~\E s \in Slots : At(s, "update") /\ job[s].phone = p
TakenPhoneKept ==
  [][\A p \in Phones : Taken(p) =>
       /\ users'[p].pass = users[p].pass
       /\ users'[p].status = "approved" => Taken(p)']_vars
=============================================================================
