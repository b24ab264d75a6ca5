--------------------------- MODULE AccountsProofs ---------------------------
(***************************************************************************)
(* What holds of auth for every set of phones, codes, passes and requests, *)
(* every limit and every length of time.                                   *)
(***************************************************************************)
EXTENDS Accounts, TLAPS

\* The statements of a request that has consumed a pass and not yet written.
Applying == {"check", "lookup", "insert", "update"}
Holds(s, k) == job[s].pc \in Applying /\ job[s].pass = k

\* What a request holds at each statement.
JobShape(j) ==
  /\ j.pc \in {"code", "find", "admin", "save"} \cup Applying => j.phone \in Phones
  /\ j.pc \in {"wrong", "right", "issue"} => j.verif \in Verifs
  /\ j.pc \in Applying => j.pass \in Passes

Shapes ==
  /\ \A s \in Slots : JobShape(job[s])
  /\ \A k \in Passes : pass[k].status # "absent" => pass[k].verif \in Verifs

\* A pass is held by one request, or has been used, or neither.
PassInv ==
  \A k \in Passes :
    /\ made[k] <= 1
    /\ made[k] >= 1 => pass[k].status = "consumed"
    /\ \A s \in Slots : Holds(s, k) => pass[k].status = "consumed" /\ made[k] = 0
    /\ \A s, r \in Slots : Holds(s, k) /\ Holds(r, k) => s = r

\* Past the check the phone is known to be the one of the pass.
IdentityInv ==
  /\ IdentityOfPhone
  /\ \A s \in Slots : job[s].pc \in Applying \ {"check"} =>
       VerifiedPhone(pass[job[s].pass].verif) = job[s].phone

TokenInv == \A t \in Tokens : spent[t] <= 1 /\ (spent[t] >= 1 => tokens[t] = "revoked")

AccountsOK == TypeOK /\ Shapes

-----------------------------------------------------------------------------
(* Types.                                                                  *)

LEMMA InitType == Init => AccountsOK
BY AccountsAssumption
   DEF Init, AccountsOK, TypeOK, Shapes, JobShape, Applying, OtpRow, NoCode, Ages,
       PassRow, NoPass, UserRow, NoUser, Verdicts, Roles, Job, Idle, Tokens

\* A request that goes on leaves the other requests alone.
LEMMA BecomeType ==
  ASSUME AccountsOK, NEW s \in Slots, NEW j \in Job, JobShape(j), Become(s, j)
  PROVE  job' \in [Slots -> Job] /\ \A r \in Slots : JobShape(job[r])'
BY DEF AccountsOK, TypeOK, Shapes, Become, JobShape

LEMMA IdleType == Idle \in Job /\ JobShape(Idle)
BY AccountsAssumption
   DEF Idle, Job, JobShape, Applying, Roles, Verdicts

LEMMA DoneType ==
  ASSUME AccountsOK, NEW s \in Slots, Done(s)
  PROVE  job' \in [Slots -> Job] /\ \A r \in Slots : JobShape(job[r])'
BY IdleType, BecomeType DEF Done

LEMMA CodesType ==
  ASSUME AccountsOK, NEW s \in Slots, Codes(s)
  PROVE  AccountsOK'
<1> USE DEF AccountsOK
<1>1. ASSUME NEW p \in Phones, RequestCode(s, p) PROVE AccountsOK'
  <2>1. [Idle EXCEPT !.pc = "code", !.phone = p] \in Job
    BY IdleType DEF Idle, Job
  <2>2. JobShape([Idle EXCEPT !.pc = "code", !.phone = p])
    BY DEF Idle, JobShape, Applying
  <2>3. job' \in [Slots -> Job] /\ \A r \in Slots : JobShape(job[r])'
    BY <1>1, <2>1, <2>2, BecomeType DEF RequestCode
  <2> QED BY <1>1, <2>3 DEF RequestCode, TypeOK, Shapes
<1>2. ASSUME NEW v \in Verifs, VerifyOTP(s, v) PROVE AccountsOK'
  <2>1. PICK verdict \in {"right", "wrong"} :
          Become(s, [Idle EXCEPT !.pc = verdict, !.verif = v])
    BY <1>2 DEF VerifyOTP
  <2>2. [Idle EXCEPT !.pc = verdict, !.verif = v] \in Job
    BY IdleType DEF Idle, Job
  <2>3. JobShape([Idle EXCEPT !.pc = verdict, !.verif = v])
    BY DEF Idle, JobShape, Applying
  <2>4. job' \in [Slots -> Job] /\ \A r \in Slots : JobShape(job[r])'
    BY <2>1, <2>2, <2>3, BecomeType
  <2> QED BY <1>2, <2>4 DEF VerifyOTP, TypeOK, Shapes
<1>3. CASE InsertCode(s)
  <2>1. job' \in [Slots -> Job] /\ \A r \in Slots : JobShape(job[r])'
    BY <1>3, DoneType DEF InsertCode
  <2>2. [NoCode EXCEPT !.phone = job[s].phone] \in OtpRow
    <3>1. job[s].phone \in Phones \cup {None}
      BY DEF TypeOK, Job
    <3>2. NoCode \in OtpRow
      BY DEF NoCode, OtpRow, Ages
    <3> QED BY <3>1, <3>2 DEF OtpRow, NoCode
  <2>3. otp' \in [Verifs -> OtpRow]
    BY <1>3, <2>2 DEF InsertCode, TypeOK
  <2> QED BY <1>3, <2>1, <2>3 DEF InsertCode, TypeOK, Shapes
<1>4. CASE CountAttempt(s)
  <2>1. job' \in [Slots -> Job] /\ \A r \in Slots : JobShape(job[r])'
    BY <1>4, DoneType DEF CountAttempt
  <2>2. otp' \in [Verifs -> OtpRow]
    <3> DEFINE v == job[s].verif
               row == [otp[v] EXCEPT !.attempts = otp[v].attempts + 1]
    <3>1. v \in Verifs /\ otp[v] \in OtpRow
      BY <1>4 DEF CountAttempt, At, TypeOK, Shapes, JobShape
    <3>2. row \in OtpRow
      BY <3>1 DEF OtpRow
    <3>3. otp' = [otp EXCEPT ![v] = row]
      BY <1>4, <3>1 DEF CountAttempt
    <3> QED BY <3>2, <3>3 DEF TypeOK
  <2> QED BY <1>4, <2>1, <2>2 DEF CountAttempt, TypeOK, Shapes
<1>5. CASE MarkVerified(s)
  <2>1. job' \in [Slots -> Job] /\ \A r \in Slots : JobShape(job[r])'
    BY <1>5, DoneType DEF MarkVerified
  <2>2. otp' \in [Verifs -> OtpRow]
    <3> DEFINE v == job[s].verif
               row == [otp[v] EXCEPT !.verified = TRUE]
    <3>1. v \in Verifs /\ otp[v] \in OtpRow
      BY <1>5 DEF MarkVerified, At, TypeOK, Shapes, JobShape
    <3>2. row \in OtpRow
      BY <3>1 DEF OtpRow
    <3>3. otp' = [otp EXCEPT ![v] = row]
      BY <1>5, <3>1 DEF MarkVerified
    <3> QED BY <3>2, <3>3 DEF TypeOK
  <2> QED BY <1>5, <2>1, <2>2 DEF MarkVerified, TypeOK, Shapes
<1> QED BY <1>1, <1>2, <1>3, <1>4, <1>5 DEF Codes

LEMMA WriteUserType ==
  ASSUME AccountsOK, NEW s \in Slots, job[s].pc \in Applying, WriteUser(s)
  PROVE  AccountsOK'
<1> USE DEF AccountsOK
<1> DEFINE j == job[s]
           next == [j EXCEPT !.pc = "save", !.iat = second]
<1>1. j \in Job /\ j.pass \in Passes /\ j.phone \in Phones /\ second \in 0..LastSecond
  BY DEF TypeOK, Shapes, JobShape
<1>2. next \in Job /\ JobShape(next)
  BY <1>1 DEF Job, JobShape, Applying
<1>3. job' \in [Slots -> Job] /\ \A r \in Slots : JobShape(job[r])'
  <2>1. CASE j.verdict = "approved"
    <3>1. Become(s, next)
      BY <2>1 DEF WriteUser
    <3> QED BY <1>2, <3>1, BecomeType
  <2>2. CASE j.verdict # "approved"
    <3>1. Done(s)
      BY <2>2 DEF WriteUser
    <3> QED BY <3>1, DoneType
  <2> QED BY <2>1, <2>2
<1>4. [status |-> j.verdict, role |-> j.role, pass |-> j.pass] \in UserRow
  BY <1>1 DEF Job, UserRow
<1>5. /\ users' = [users EXCEPT ![j.phone] =
                     [status |-> j.verdict, role |-> j.role, pass |-> j.pass]]
      /\ made' = [made EXCEPT ![j.pass] = @ + 1]
      /\ UNCHANGED <<otp, pass, tokens, second, spent>>
  BY DEF WriteUser
<1>6. users' \in [Phones -> UserRow] /\ made' \in [Passes -> Nat]
  BY <1>1, <1>4, <1>5 DEF TypeOK
<1> QED BY <1>3, <1>5, <1>6 DEF TypeOK, Shapes

LEMMA RegistrationType ==
  ASSUME AccountsOK, NEW s \in Slots, Registration(s)
  PROVE  AccountsOK'
<1> USE DEF AccountsOK
<1>1. ASSUME NEW v \in Verifs, MyidVerify(s, v) PROVE AccountsOK'
  <2>1. [Idle EXCEPT !.pc = "issue", !.verif = v] \in Job
    BY IdleType DEF Idle, Job
  <2>2. JobShape([Idle EXCEPT !.pc = "issue", !.verif = v])
    BY DEF Idle, JobShape, Applying
  <2>3. job' \in [Slots -> Job] /\ \A r \in Slots : JobShape(job[r])'
    BY <1>1, <2>1, <2>2, BecomeType DEF MyidVerify
  <2> QED BY <1>1, <2>3 DEF MyidVerify, TypeOK, Shapes
<1>2. ASSUME NEW k \in Passes, NEW p \in Phones, NEW role \in Roles,
             ConsumeMyIDToken(s, k, p, role)
      PROVE  AccountsOK'
  <2> DEFINE j == [Idle EXCEPT !.pc = "check", !.pass = k, !.phone = p, !.role = role]
  <2>1. j \in Job /\ JobShape(j)
    BY IdleType DEF Idle, Job, JobShape, Applying
  <2>2. job' \in [Slots -> Job] /\ \A r \in Slots : JobShape(job[r])'
    BY <1>2, <2>1, BecomeType DEF ConsumeMyIDToken
  <2>3. /\ pass' \in [Passes -> PassRow]
        /\ \A i \in Passes : pass'[i].status # "absent" => pass'[i].verif \in Verifs
    BY <1>2 DEF ConsumeMyIDToken, TypeOK, Shapes, PassRow
  <2> QED BY <1>2, <2>2, <2>3 DEF ConsumeMyIDToken, TypeOK, Shapes
<1>3. CASE CreateMyIDVerification(s)
  <2>1. job' \in [Slots -> Job] /\ \A r \in Slots : JobShape(job[r])'
    BY <1>3, DoneType DEF CreateMyIDVerification
  <2>2. job[s].verif \in Verifs
    BY <1>3 DEF CreateMyIDVerification, At, Shapes, JobShape
  <2>3. /\ pass' \in [Passes -> PassRow]
        /\ \A i \in Passes : pass'[i].status # "absent" => pass'[i].verif \in Verifs
    BY <1>3, <2>2 DEF CreateMyIDVerification, TypeOK, Shapes, PassRow
  <2> QED BY <1>3, <2>1, <2>3 DEF CreateMyIDVerification, TypeOK, Shapes
<1>4. CASE CheckApplicant(s)
  <2> DEFINE next(w) == [job[s] EXCEPT !.pc = "lookup", !.verdict = w]
  <2>1. \A w \in Verdicts : next(w) \in Job /\ JobShape(next(w))
    BY <1>4 DEF CheckApplicant, At, TypeOK, Shapes, Job, JobShape, Applying
  <2>2. Done(s) \/ Become(s, next("approved")) \/ Become(s, next("rejected"))
    BY <1>4 DEF CheckApplicant
  <2>3. job' \in [Slots -> Job] /\ \A r \in Slots : JobShape(job[r])'
    BY <2>1, <2>2, BecomeType, DoneType DEF Verdicts
  <2> QED BY <1>4, <2>3 DEF CheckApplicant, TypeOK, Shapes
<1>5. CASE LookupApplicant(s)
  <2> DEFINE next(pc) == [job[s] EXCEPT !.pc = pc]
  <2>1. \A pc \in {"insert", "update"} : next(pc) \in Job /\ JobShape(next(pc))
    BY <1>5 DEF LookupApplicant, At, TypeOK, Shapes, Job, JobShape, Applying
  <2>2. Done(s) \/ Become(s, next("insert")) \/ Become(s, next("update"))
    BY <1>5 DEF LookupApplicant, Goto
  <2>3. job' \in [Slots -> Job] /\ \A r \in Slots : JobShape(job[r])'
    BY <2>1, <2>2, BecomeType, DoneType
  <2> QED BY <1>5, <2>3 DEF LookupApplicant, TypeOK, Shapes
<1>6. CASE InsertUser(s) \/ UpdateUser(s)
  BY <1>6, WriteUserType DEF InsertUser, UpdateUser, At, Applying
<1> QED BY <1>1, <1>2, <1>3, <1>4, <1>5, <1>6 DEF Registration

LEMMA SessionsType ==
  ASSUME AccountsOK, NEW s \in Slots, Sessions(s)
  PROVE  AccountsOK'
<1> USE DEF AccountsOK
<1> DEFINE JobsOK == job' \in [Slots -> Job] /\ \A r \in Slots : JobShape(job[r])'
           found(p) == [Idle EXCEPT !.pc = "find", !.phone = p]
<1>0. \A p \in Phones : found(p) \in Job /\ JobShape(found(p))
  BY IdleType DEF Idle, Job, JobShape, Applying
<1>1. ASSUME NEW p \in Phones, Login(s, p) PROVE AccountsOK'
  <2>1. JobsOK
    BY <1>0, <1>1, BecomeType DEF Login
  <2> QED BY <1>1, <2>1 DEF Login, TypeOK, Shapes
<1>2. ASSUME NEW t \in Tokens, RotateRefreshToken(s, t) PROVE AccountsOK'
  <2>1. t[1] \in Phones
    BY DEF Tokens
  <2>2. JobsOK
    BY <1>0, <1>2, <2>1, BecomeType DEF RotateRefreshToken
  <2>3. /\ tokens' \in [Tokens -> {"absent", "live", "revoked"}]
        /\ spent' \in [Tokens -> Nat]
    BY <1>2 DEF RotateRefreshToken, TypeOK
  <2> QED BY <1>2, <2>2, <2>3 DEF RotateRefreshToken, TypeOK, Shapes
<1>3. CASE FindUser(s)
  <2> DEFINE next == [job[s] EXCEPT !.pc = "save", !.iat = second,
                        !.role = users[job[s].phone].role]
  <2>1. job[s] \in Job /\ job[s].phone \in Phones
    BY <1>3 DEF FindUser, At, TypeOK, Shapes, JobShape
  <2>2. second \in 0..LastSecond /\ users[job[s].phone].role \in Roles
    BY <2>1 DEF TypeOK, UserRow
  <2>3. next \in Job /\ JobShape(next)
    BY <2>1, <2>2 DEF Job, JobShape, Applying
  <2>4. Done(s) \/ Become(s, next)
    BY <1>3 DEF FindUser
  <2>5. JobsOK
    BY <2>3, <2>4, BecomeType, DoneType
  <2> QED BY <1>3, <2>5 DEF FindUser, TypeOK, Shapes
<1>4. CASE SaveRefreshToken(s)
  <2>1. JobsOK
    BY <1>4, DoneType DEF SaveRefreshToken
  <2>2. tokens' \in [Tokens -> {"absent", "live", "revoked"}]
    BY <1>4 DEF SaveRefreshToken, TypeOK
  <2> QED BY <1>4, <2>1, <2>2 DEF SaveRefreshToken, TypeOK, Shapes
<1>5. CASE AdminLogin(s)
  <2> DEFINE first == [Idle EXCEPT !.pc = "admin", !.phone = AdminPhone]
             next(p) == [Idle EXCEPT !.pc = "save", !.phone = p, !.role = "admin",
                           !.iat = second]
  <2>1. second \in 0..LastSecond
    BY DEF TypeOK
  <2>2. first \in Job /\ JobShape(first)
    BY IdleType, AccountsAssumption DEF Idle, Job, JobShape, Applying
  <2>3. \A p \in Phones : next(p) \in Job /\ JobShape(next(p))
    BY IdleType, <2>1 DEF Idle, Job, JobShape, Applying, Roles
  <2>4. Become(s, first) \/ \E p \in Phones : Become(s, next(p))
    BY <1>5 DEF AdminLogin
  <2>5. JobsOK
    BY <2>2, <2>3, <2>4, BecomeType
  <2> QED BY <1>5, <2>5 DEF AdminLogin, TypeOK, Shapes
<1>6. CASE InsertAdmin(s)
  <2> DEFINE next == [job[s] EXCEPT !.pc = "save", !.role = "admin", !.iat = second]
             fresh == [status |-> "approved", role |-> "admin", pass |-> None]
             raised == [users[AdminPhone] EXCEPT !.role = "admin"]
  <2>1. second \in 0..LastSecond /\ job[s] \in Job /\ users[AdminPhone] \in UserRow
    BY AccountsAssumption DEF TypeOK
  <2>2. fresh \in UserRow /\ raised \in UserRow
    BY <2>1 DEF UserRow, Roles, Verdicts
  <2>3. users' = [users EXCEPT ![AdminPhone] = fresh]
          \/ users' = [users EXCEPT ![AdminPhone] = raised]
    BY <1>6 DEF InsertAdmin, TypeOK
  <2>4. users' \in [Phones -> UserRow]
    BY <2>2, <2>3 DEF TypeOK
  <2>5. next \in Job /\ JobShape(next)
    BY <1>6, <2>1 DEF InsertAdmin, At, Shapes, Job, JobShape, Applying, Roles
  <2>6. JobsOK
    BY <1>6, <2>5, BecomeType DEF InsertAdmin
  <2> QED BY <1>6, <2>4, <2>6 DEF InsertAdmin, TypeOK, Shapes
<1> QED BY <1>1, <1>2, <1>3, <1>4, <1>5, <1>6 DEF Sessions

LEMMA EnvironmentType == ASSUME AccountsOK, Environment PROVE AccountsOK'
<1> USE DEF AccountsOK
<1>1. CASE Tick
  BY <1>1, AccountsAssumption DEF Tick, TypeOK, Shapes
<1>2. ASSUME NEW v \in Verifs, AgeCode(v) PROVE AccountsOK'
  <2>1. [otp[v] EXCEPT !.age = otp[v].age + 1] \in OtpRow
    BY <1>2 DEF AgeCode, TypeOK, OtpRow, Ages
  <2>2. otp' = [otp EXCEPT ![v] = [otp[v] EXCEPT !.age = otp[v].age + 1]]
    BY <1>2 DEF AgeCode
  <2>3. otp' \in [Verifs -> OtpRow]
    BY <2>1, <2>2 DEF TypeOK
  <2> QED BY <1>2, <2>3 DEF AgeCode, TypeOK, Shapes
<1>3. ASSUME NEW k \in Passes, ExpirePass(k) PROVE AccountsOK'
  <2>1. /\ pass' \in [Passes -> PassRow]
        /\ \A i \in Passes : pass'[i].status # "absent" => pass'[i].verif \in Verifs
    BY <1>3 DEF ExpirePass, TypeOK, Shapes, PassRow
  <2> QED BY <1>3, <2>1 DEF ExpirePass, TypeOK, Shapes
<1>4. ASSUME NEW t \in Tokens, RevokeRefreshToken(t) PROVE AccountsOK'
  BY <1>4 DEF RevokeRefreshToken, TypeOK, Shapes
<1>5. ASSUME NEW p \in Phones, NEW status \in Verdicts \cup {"pending"},
             SetVerification(p, status)
      PROVE  AccountsOK'
  <2>1. [users[p] EXCEPT !.status = status] \in UserRow
    BY DEF TypeOK, UserRow, Verdicts
  <2>2. users' \in [Phones -> UserRow]
    BY <1>5, <2>1 DEF SetVerification, TypeOK
  <2> QED BY <1>5, <2>2 DEF SetVerification, TypeOK, Shapes
<1> QED BY <1>1, <1>2, <1>3, <1>4, <1>5 DEF Environment

LEMMA FailType ==
  ASSUME AccountsOK, NEW s \in Slots, Fail(s)
  PROVE  AccountsOK'
BY DoneType DEF Fail, AccountsOK, TypeOK, Shapes

LEMMA NextType == AccountsOK /\ [Next]_vars => AccountsOK'
<1>1. AccountsOK /\ UNCHANGED vars => AccountsOK'
  BY DEF AccountsOK, TypeOK, Shapes, vars
<1> QED BY <1>1, CodesType, RegistrationType, SessionsType, EnvironmentType, FailType
        DEF Next

\* Every reachable state of auth is well typed.
THEOREM AccountsTypeCorrect == Spec => []TypeOK
<1>1. AccountsOK => TypeOK
  BY DEF AccountsOK
<1> QED BY <1>1, InitType, NextType, PTL DEF Spec

-----------------------------------------------------------------------------
(* Refresh tokens.                                                         *)

LEMMA TokenNext == AccountsOK /\ TokenInv /\ [Next]_vars => TokenInv'
<1> SUFFICES ASSUME AccountsOK, TokenInv, [Next]_vars PROVE TokenInv'
  OBVIOUS
<1>0. /\ tokens \in [Tokens -> {"absent", "live", "revoked"}]
      /\ spent \in [Tokens -> Nat]
  BY DEF AccountsOK, TypeOK
<1>1. CASE UNCHANGED <<tokens, spent>>
  BY <1>1 DEF TokenInv
<1>2. ASSUME NEW s \in Slots, NEW t \in Tokens, RotateRefreshToken(s, t) PROVE TokenInv'
  BY <1>0, <1>2 DEF RotateRefreshToken, TokenInv
<1>3. ASSUME NEW s \in Slots, SaveRefreshToken(s) PROVE TokenInv'
  <2> DEFINE t == <<job[s].phone, job[s].role, job[s].iat>>
  <2>1. tokens' = [tokens EXCEPT ![t] = IF @ = "absent" THEN "live" ELSE @]
          /\ spent' = spent
    BY <1>3 DEF SaveRefreshToken
  <2> HIDE DEF t
  <2> QED BY <1>0, <2>1 DEF TokenInv
<1>4. ASSUME NEW t \in Tokens, RevokeRefreshToken(t) PROVE TokenInv'
  BY <1>0, <1>4 DEF RevokeRefreshToken, TokenInv
<1>5. \/ UNCHANGED <<tokens, spent>>
      \/ \E s \in Slots : \/ \E t \in Tokens : RotateRefreshToken(s, t)
                         \/ SaveRefreshToken(s)
      \/ \E t \in Tokens : RevokeRefreshToken(t)
  BY DEF Next, Codes, Registration, Sessions, Environment, vars, Fail, RequestCode,
         VerifyOTP, InsertCode, CountAttempt, MarkVerified, MyidVerify,
         ConsumeMyIDToken, CreateMyIDVerification, CheckApplicant, LookupApplicant,
         InsertUser, UpdateUser, WriteUser, Login, FindUser, AdminLogin, InsertAdmin,
         Tick, AgeCode, ExpirePass, SetVerification
<1> QED BY <1>1, <1>2, <1>3, <1>4, <1>5

\* However sign-ins, exchanges and sign-outs interleave, a refresh token is
\* exchanged once at most.
THEOREM TokensSpentOnce == Spec => []TokenSpentOnce
<1>1. Init => TokenInv
  BY DEF Init, TokenInv
<1>2. TokenInv => TokenSpentOnce
  BY DEF TokenInv, TokenSpentOnce
<1> QED BY <1>1, <1>2, InitType, NextType, TokenNext, PTL DEF Spec

-----------------------------------------------------------------------------
(* Passes.                                                                 *)

\* A request takes up a pass by consuming it and keeps it to the end.
HoldsKept == \A r \in Slots, k \in Passes : Holds(r, k)' => Holds(r, k)

LEMMA OneMovesHolds ==
  ASSUME NEW s \in Slots, \A r \in Slots \ {s} : job'[r] = job[r],
         job'[s].pc \in Applying => job[s].pc \in Applying /\ job'[s].pass = job[s].pass
  PROVE  HoldsKept
BY DEF HoldsKept, Holds

\* The check and the lookup keep to the pass and the phone they are about.
LEMMA VetMoves ==
  ASSUME AccountsOK, NEW s \in Slots, CheckApplicant(s) \/ LookupApplicant(s)
  PROVE  \/ job'[s] = Idle
         \/ /\ job'[s].pass = job[s].pass /\ job'[s].phone = job[s].phone
            /\ job[s].pc = "check" => VerifiedPhone(pass[job[s].pass].verif) = job[s].phone
<1> DEFINE vetted(w) == [job[s] EXCEPT !.pc = "lookup", !.verdict = w]
           ready(pc) == [job[s] EXCEPT !.pc = pc]
<1>1. job \in [Slots -> Job] /\ job[s] \in Job
  BY DEF AccountsOK, TypeOK
<1>2. /\ \A w \in Verdicts : /\ vetted(w).pass = job[s].pass
                             /\ vetted(w).phone = job[s].phone
      /\ \A pc \in {"insert", "update"} : /\ ready(pc).pass = job[s].pass
                                         /\ ready(pc).phone = job[s].phone
  BY <1>1 DEF Job
<1>3. CASE CheckApplicant(s)
  <2>1. \/ job'[s] = Idle
        \/ /\ VerifiedPhone(pass[job[s].pass].verif) = job[s].phone
           /\ \E w \in Verdicts : job'[s] = vetted(w)
    BY <1>1, <1>3 DEF CheckApplicant, Done, Become, Verdicts
  <2> HIDE DEF vetted
  <2> QED BY <1>2, <2>1
<1>4. CASE LookupApplicant(s)
  <2>1. job[s].pc = "lookup"
    BY <1>4 DEF LookupApplicant, At
  <2>2. job'[s] = Idle \/ \E pc \in {"insert", "update"} : job'[s] = ready(pc)
    BY <1>1, <1>4 DEF LookupApplicant, Goto, Done, Become
  <2> HIDE DEF ready
  <2> QED BY <1>2, <2>1, <2>2
<1> QED BY <1>3, <1>4

\* One request moves at a time, and few of its moves touch a registration.
LEMMA JobMoves ==
  ASSUME AccountsOK, [Next]_vars
  PROVE  \/ UNCHANGED job
         \/ \E s \in Slots :
              /\ \A r \in Slots \ {s} : job'[r] = job[r]
              /\ \/ job'[s].pc \notin Applying
                 \/ \E k \in Passes, p \in Phones, role \in Roles :
                      ConsumeMyIDToken(s, k, p, role)
                 \/ CheckApplicant(s) \/ LookupApplicant(s)
<1> DEFINE Moves(s) ==
      /\ \A r \in Slots \ {s} : job'[r] = job[r]
      /\ \/ job'[s].pc \notin Applying
         \/ \E k \in Passes, p \in Phones, role \in Roles :
              ConsumeMyIDToken(s, k, p, role)
         \/ CheckApplicant(s) \/ LookupApplicant(s)
<1>0. job \in [Slots -> Job]
  BY DEF AccountsOK, TypeOK
<1>1. Environment \/ UNCHANGED vars => UNCHANGED job
  BY DEF Environment, Tick, AgeCode, ExpirePass, RevokeRefreshToken, SetVerification, vars
<1>2. ASSUME NEW s \in Slots,
             \/ InsertCode(s) \/ CountAttempt(s) \/ MarkVerified(s)
             \/ CreateMyIDVerification(s) \/ SaveRefreshToken(s) \/ Fail(s)
      PROVE  Moves(s)
  BY <1>0, <1>2 DEF InsertCode, CountAttempt, MarkVerified, CreateMyIDVerification,
       SaveRefreshToken, Fail, Done, Become, Idle, Applying
<1>3. ASSUME NEW s \in Slots,
             \/ \E p \in Phones : RequestCode(s, p)
             \/ \E v \in Verifs : VerifyOTP(s, v)
             \/ \E v \in Verifs : MyidVerify(s, v)
             \/ \E p \in Phones : Login(s, p)
             \/ \E t \in Tokens : RotateRefreshToken(s, t)
             \/ AdminLogin(s)
      PROVE  Moves(s)
  <2>1. \A r \in Slots \ {s} : job'[r] = job[r]
    BY <1>0, <1>3 DEF RequestCode, VerifyOTP, MyidVerify, Login, RotateRefreshToken,
         AdminLogin, Become
  <2>2. job'[s].pc \notin Applying
    <3>1. ASSUME NEW p \in Phones, RequestCode(s, p) \/ Login(s, p)
          PROVE  job'[s].pc \notin Applying
      BY <1>0, <3>1 DEF RequestCode, Login, Become, Idle, Applying
    <3>2. ASSUME NEW v \in Verifs, VerifyOTP(s, v) \/ MyidVerify(s, v)
          PROVE  job'[s].pc \notin Applying
      BY <1>0, <3>2 DEF VerifyOTP, MyidVerify, Become, Idle, Applying
    <3>3. ASSUME NEW t \in Tokens, RotateRefreshToken(s, t)
          PROVE  job'[s].pc \notin Applying
      BY <1>0, <3>3 DEF RotateRefreshToken, Become, Idle, Applying
    <3>4. CASE AdminLogin(s)
      BY <1>0, <3>4 DEF AdminLogin, Become, Idle, Applying
    <3> QED BY <1>3, <3>1, <3>2, <3>3, <3>4
  <2> QED BY <2>1, <2>2
<1>4. ASSUME NEW s \in Slots, FindUser(s) \/ InsertAdmin(s) PROVE Moves(s)
  <2>1. \A r \in Slots \ {s} : job'[r] = job[r]
    BY <1>0, <1>4 DEF FindUser, InsertAdmin, Done, Become
  <2>2. job'[s].pc \notin Applying
    <3> DEFINE found == [job[s] EXCEPT !.pc = "save", !.iat = second,
                           !.role = users[job[s].phone].role]
               admin == [job[s] EXCEPT !.pc = "save", !.role = "admin", !.iat = second]
    <3>1. job'[s] \in {Idle, found, admin}
      BY <1>0, <1>4 DEF FindUser, InsertAdmin, Done, Become
    <3>2. job[s] \in Job
      BY <1>0
    <3>3. found.pc = "save" /\ admin.pc = "save" /\ Idle.pc = "idle"
      BY <3>2 DEF Job, Idle
    <3> HIDE DEF found, admin
    <3> QED BY <3>1, <3>3 DEF Applying
  <2> QED BY <2>1, <2>2
<1>5. ASSUME NEW s \in Slots,
             \/ \E k \in Passes, p \in Phones, role \in Roles :
                  ConsumeMyIDToken(s, k, p, role)
             \/ CheckApplicant(s) \/ LookupApplicant(s)
      PROVE  Moves(s)
  BY <1>0, <1>5 DEF ConsumeMyIDToken, CheckApplicant, LookupApplicant, Goto, Done, Become
<1>6. ASSUME NEW s \in Slots, InsertUser(s) \/ UpdateUser(s) PROVE Moves(s)
  <2>1. WriteUser(s)
    BY <1>6 DEF InsertUser, UpdateUser
  <2>2. \A r \in Slots \ {s} : job'[r] = job[r]
    BY <1>0, <2>1 DEF WriteUser, Done, Become
  <2>3. job'[s].pc \notin Applying
    <3> DEFINE saving == [job[s] EXCEPT !.pc = "save", !.iat = second]
    <3>1. job'[s] \in {Idle, saving}
      BY <1>0, <2>1 DEF WriteUser, Done, Become
    <3>2. saving.pc = "save" /\ Idle.pc = "idle"
      BY <1>0 DEF Job, Idle
    <3> HIDE DEF saving
    <3> QED BY <3>1, <3>2 DEF Applying
  <2> QED BY <2>2, <2>3
<1> HIDE DEF Moves
<1>7. UNCHANGED job \/ \E s \in Slots : Moves(s)
  BY <1>1, <1>2, <1>3, <1>4, <1>5, <1>6 DEF Next, Codes, Registration, Sessions
<1> QED BY <1>7 DEF Moves

\* Rows are written for passes by registrations only.
LEMMA Writes ==
  ASSUME AccountsOK, [Next]_vars
  PROVE  \/ UNCHANGED made /\ \A p \in Phones : users'[p].pass \in {users[p].pass, None}
         \/ \E s \in Slots : job[s].pc \in {"insert", "update"} /\ WriteUser(s)
<1>0. users \in [Phones -> UserRow]
  BY DEF AccountsOK, TypeOK
<1>1. CASE UNCHANGED <<users, made>>
  BY <1>1
<1>2. ASSUME NEW s \in Slots, InsertAdmin(s)
      PROVE  UNCHANGED made /\ \A p \in Phones : users'[p].pass \in {users[p].pass, None}
  BY <1>0, <1>2 DEF InsertAdmin, UserRow
<1>3. ASSUME NEW p \in Phones, NEW status \in Verdicts \cup {"pending"},
             SetVerification(p, status)
      PROVE  UNCHANGED made /\ \A q \in Phones : users'[q].pass = users[q].pass
  BY <1>0, <1>3 DEF SetVerification, UserRow
<1>4. ASSUME NEW s \in Slots, InsertUser(s) \/ UpdateUser(s)
      PROVE  job[s].pc \in {"insert", "update"} /\ WriteUser(s)
  BY <1>4 DEF InsertUser, UpdateUser, At
<1>5. \/ UNCHANGED <<users, made>>
      \/ \E s \in Slots : InsertAdmin(s) \/ InsertUser(s) \/ UpdateUser(s)
      \/ \E p \in Phones, status \in Verdicts \cup {"pending"} : SetVerification(p, status)
  BY DEF Next, Codes, Registration, Sessions, Environment, vars, Fail, RequestCode,
         VerifyOTP, InsertCode, CountAttempt, MarkVerified, MyidVerify, ConsumeMyIDToken,
         CreateMyIDVerification, CheckApplicant, LookupApplicant, Login, FindUser,
         AdminLogin, Tick, AgeCode, ExpirePass, RotateRefreshToken, SaveRefreshToken,
         RevokeRefreshToken
<1> QED BY <1>1, <1>2, <1>3, <1>4, <1>5

\* What is done with passes and what is written with them.
LEMMA Steps ==
  ASSUME AccountsOK, [Next]_vars
  PROVE  \/ HoldsKept /\ UNCHANGED made
         \/ \E s \in Slots, k \in Passes, p \in Phones, role \in Roles :
              ConsumeMyIDToken(s, k, p, role)
         \/ \E s \in Slots : job[s].pc \in {"insert", "update"} /\ WriteUser(s)
<1>0. job \in [Slots -> Job]
  BY DEF AccountsOK, TypeOK
<1>1. ASSUME NEW s \in Slots, \A r \in Slots \ {s} : job'[r] = job[r],
             CheckApplicant(s) \/ LookupApplicant(s)
      PROVE  HoldsKept
  <2>1. job[s].pc \in Applying
    BY <1>1 DEF CheckApplicant, LookupApplicant, At, Applying
  <2>2. job'[s] = Idle \/ job'[s].pass = job[s].pass
    BY <1>1, VetMoves
  <2> QED BY <1>1, <2>1, <2>2, OneMovesHolds DEF Idle, Applying
<1>2. UNCHANGED job => HoldsKept
  BY DEF HoldsKept, Holds
<1> QED BY <1>1, <1>2, JobMoves, Writes, OneMovesHolds

\* A consumed pass does not change, and neither does what a code has confirmed.
Kept ==
  /\ \A k \in Passes : pass[k].status = "consumed" => pass'[k] = pass[k]
  /\ \A v \in Verifs, p \in Phones : VerifiedPhone(v) = p => VerifiedPhone(v)' = p

LEMMA StepsKeep == ASSUME AccountsOK, [Next]_vars PROVE Kept
<1>0. otp \in [Verifs -> OtpRow] /\ pass \in [Passes -> PassRow]
  BY DEF AccountsOK, TypeOK
<1>1. \A k \in Passes : pass[k].status = "consumed" => pass'[k] = pass[k]
  <2>1. ASSUME NEW s \in Slots,
               \/ \E k \in Passes, p \in Phones, role \in Roles :
                    ConsumeMyIDToken(s, k, p, role)
               \/ CreateMyIDVerification(s)
        PROVE  \A k \in Passes : pass[k].status = "consumed" => pass'[k] = pass[k]
    BY <1>0, <2>1 DEF ConsumeMyIDToken, CreateMyIDVerification
  <2>2. ASSUME NEW i \in Passes, ExpirePass(i)
        PROVE  \A k \in Passes : pass[k].status = "consumed" => pass'[k] = pass[k]
    BY <1>0, <2>2 DEF ExpirePass
  <2>3. \/ UNCHANGED pass
        \/ \E i \in Passes : ExpirePass(i)
        \/ \E s \in Slots : \/ CreateMyIDVerification(s)
                           \/ \E k \in Passes, p \in Phones, role \in Roles :
                                ConsumeMyIDToken(s, k, p, role)
    BY DEF Next, Codes, Registration, Sessions, Environment, vars, Fail, RequestCode,
           VerifyOTP, InsertCode, CountAttempt, MarkVerified, MyidVerify,
           CheckApplicant, LookupApplicant, InsertUser, UpdateUser, WriteUser, Login,
           FindUser, AdminLogin, InsertAdmin, Tick, AgeCode, SetVerification,
           RotateRefreshToken, SaveRefreshToken, RevokeRefreshToken
  <2> QED BY <2>1, <2>2, <2>3
<1>2. \A v \in Verifs, p \in Phones : VerifiedPhone(v) = p => VerifiedPhone(v)' = p
  <2> DEFINE Same == \A v \in Verifs :
                       otp[v].phone \in Phones =>
                         /\ otp'[v].phone = otp[v].phone
                         /\ otp[v].verified => otp'[v].verified
  <2>1. ASSUME NEW s \in Slots, InsertCode(s) PROVE Same
    BY <1>0, <2>1, AccountsAssumption DEF InsertCode
  <2>2. ASSUME NEW s \in Slots, CountAttempt(s) \/ MarkVerified(s) PROVE Same
    BY <1>0, <2>2 DEF CountAttempt, MarkVerified, OtpRow
  <2>3. ASSUME NEW v \in Verifs, AgeCode(v) PROVE Same
    BY <1>0, <2>3 DEF AgeCode, OtpRow
  <2>4. \/ UNCHANGED otp
        \/ \E v \in Verifs : AgeCode(v)
        \/ \E s \in Slots : InsertCode(s) \/ CountAttempt(s) \/ MarkVerified(s)
    BY DEF Next, Codes, Registration, Sessions, Environment, vars, Fail, RequestCode,
           VerifyOTP, MyidVerify, ConsumeMyIDToken, CreateMyIDVerification, ExpirePass,
           CheckApplicant, LookupApplicant, InsertUser, UpdateUser, WriteUser, Login,
           FindUser, AdminLogin, InsertAdmin, Tick, SetVerification,
           RotateRefreshToken, SaveRefreshToken, RevokeRefreshToken
  <2>5. Same
    BY <2>1, <2>2, <2>3, <2>4
  <2> QED BY <2>5, AccountsAssumption DEF VerifiedPhone
<1> QED BY <1>1, <1>2 DEF Kept

LEMMA PassNext == AccountsOK /\ PassInv /\ [Next]_vars => PassInv'
<1> SUFFICES ASSUME AccountsOK, PassInv, [Next]_vars PROVE PassInv'
  OBVIOUS
<1>0. /\ job \in [Slots -> Job] /\ made \in [Passes -> Nat] /\ pass \in [Passes -> PassRow]
      /\ \A k \in Passes : pass[k].status = "consumed" => pass'[k].status = "consumed"
  BY StepsKeep DEF AccountsOK, TypeOK, Kept
<1>1. CASE HoldsKept /\ UNCHANGED made
  BY <1>0, <1>1 DEF PassInv, HoldsKept
<1>2. ASSUME NEW s \in Slots, NEW i \in Passes, NEW p \in Phones, NEW role \in Roles,
             ConsumeMyIDToken(s, i, p, role)
      PROVE  PassInv'
  <2>1. pass[i].status = "live" /\ pass'[i].status = "consumed" /\ made' = made
    BY <1>0, <1>2 DEF ConsumeMyIDToken
  <2>2. made[i] = 0 /\ \A r \in Slots : ~Holds(r, i)
    BY <1>0, <2>1 DEF PassInv
  <2>3. \A r \in Slots, k \in Passes : Holds(r, k)' => Holds(r, k) \/ (r = s /\ k = i)
    <3>1. \A r \in Slots : r # s => job'[r] = job[r]
      BY <1>0, <1>2 DEF ConsumeMyIDToken, Become
    <3>2. job'[s].pass = i
      BY <1>0, <1>2 DEF ConsumeMyIDToken, Become, Idle
    <3> QED BY <3>1, <3>2 DEF Holds
  <2> QED BY <1>0, <2>1, <2>2, <2>3 DEF PassInv
<1>3. ASSUME NEW s \in Slots, job[s].pc \in {"insert", "update"}, WriteUser(s)
      PROVE  PassInv'
  <2> DEFINE i == job[s].pass
  <2>1. i \in Passes /\ Holds(s, i)
    BY <1>3 DEF AccountsOK, Shapes, JobShape, Holds, Applying
  <2>2. made' = [made EXCEPT ![i] = @ + 1]
    BY <1>3 DEF WriteUser
  <2>3. \A r \in Slots, k \in Passes : Holds(r, k)' => Holds(r, k) /\ r # s
    <3>1. \A r \in Slots \ {s} : job'[r] = job[r]
      BY <1>0, <1>3 DEF WriteUser, Done, Become
    <3>2. job'[s].pc \in {"save", "idle"}
      <4> DEFINE saving == [job[s] EXCEPT !.pc = "save", !.iat = second]
      <4>1. job'[s] \in {Idle, saving}
        BY <1>0, <1>3 DEF WriteUser, Done, Become
      <4>2. saving.pc = "save" /\ Idle.pc = "idle"
        BY <1>0 DEF Job, Idle
      <4> HIDE DEF saving
      <4> QED BY <4>1, <4>2
    <3> QED BY <3>1, <3>2 DEF Holds, Applying
  <2> HIDE DEF i
  <2> QED BY <1>0, <2>1, <2>2, <2>3 DEF PassInv
<1> QED BY <1>1, <1>2, <1>3, Steps

\* A pass is used for one user row at most: consuming it is one statement, and
\* whoever consumed it writes once.
THEOREM PassesMakeOne == Spec => []PassMadeOnce
<1>1. Init => PassInv
  BY DEF Init, PassInv, Holds, Applying, Idle
<1>2. PassInv => PassMadeOnce
  BY DEF PassInv, PassMadeOnce
<1> QED BY <1>1, <1>2, InitType, NextType, PassNext, PTL DEF Spec

-----------------------------------------------------------------------------
(* Identities.                                                             *)

LEMMA IdentityNext ==
  AccountsOK /\ PassInv /\ IdentityInv /\ [Next]_vars => IdentityInv'
<1> SUFFICES ASSUME AccountsOK, PassInv, IdentityInv, [Next]_vars PROVE IdentityInv'
  OBVIOUS
<1>0. /\ job \in [Slots -> Job] /\ users \in [Phones -> UserRow]
      /\ pass \in [Passes -> PassRow] /\ Kept
  BY StepsKeep DEF AccountsOK, TypeOK
\* What a row or a request knew of its pass stays true.
<1>1. ASSUME NEW k \in Passes, NEW p \in Phones, pass[k].status = "consumed",
             VerifiedPhone(pass[k].verif) = p
      PROVE  pass'[k].status = "consumed" /\ VerifiedPhone(pass[k].verif)' = p
  <2>1. PICK v \in Verifs : v = pass[k].verif
    BY <1>1 DEF AccountsOK, Shapes
  <2>2. pass'[k] = pass[k] /\ VerifiedPhone(v)' = p
    BY <1>0, <1>1, <2>1 DEF Kept
  <2> QED BY <1>1, <2>1, <2>2 DEF VerifiedPhone
\* Rows other than those of registrations keep their pass.
<1>2. ASSUME NEW p \in Phones, users'[p].pass = users[p].pass, users[p].pass # None
      PROVE  /\ pass'[users'[p].pass].status = "consumed"
             /\ VerifiedPhone(pass[users[p].pass].verif)' = p
  <2>1. PICK k \in Passes : k = users[p].pass /\ k = users'[p].pass
    BY <1>0, <1>2 DEF UserRow
  <2>2. pass[k].status = "consumed" /\ VerifiedPhone(pass[k].verif) = p
    BY <1>2, <2>1 DEF IdentityInv, IdentityOfPhone
  <2>3. pass'[k].status = "consumed" /\ VerifiedPhone(pass[k].verif)' = p
    BY <1>1, <2>2
  <2> QED BY <2>1, <2>3 DEF VerifiedPhone
\* A registration writes the phone that its pass is bound to.
<1>3. ASSUME NEW s \in Slots, job[s].pc \in {"insert", "update"}, WriteUser(s)
      PROVE  IdentityOfPhone'
  <2>1. PICK k \in Passes, p \in Phones : k = job[s].pass /\ p = job[s].phone
    BY <1>3 DEF AccountsOK, Shapes, JobShape, Applying
  <2>2. pass[k].status = "consumed" /\ VerifiedPhone(pass[k].verif) = p
    BY <1>3, <2>1 DEF PassInv, Holds, IdentityInv, Applying
  <2>3. pass'[k].status = "consumed" /\ VerifiedPhone(pass[k].verif)' = p
    BY <1>1, <2>2
  <2>4. users'[p].pass = k /\ \A q \in Phones \ {p} : users'[q] = users[q]
    BY <1>0, <1>3, <2>1 DEF WriteUser
  <2>5. ASSUME NEW q \in Phones, users'[q].pass # None
        PROVE  /\ pass'[users'[q].pass].status = "consumed"
               /\ VerifiedPhone(pass[users[q].pass].verif)' = q
    <3>1. CASE q = p
      BY <2>3, <2>4, <3>1 DEF VerifiedPhone
    <3>2. CASE q # p
      BY <1>2, <2>4, <2>5, <3>2
    <3> QED BY <3>1, <3>2
  <2> QED BY <2>5 DEF IdentityOfPhone
<1>4. ASSUME \A p \in Phones : users'[p].pass \in {users[p].pass, None}
      PROVE  IdentityOfPhone'
  BY <1>2, <1>4 DEF IdentityOfPhone
\* What a request past its check knows, it knew before or has just checked.
<1>5. ASSUME NEW s \in Slots, job'[s].pc \in Applying \ {"check"}
      PROVE  VerifiedPhone(pass[job[s].pass].verif)' = job'[s].phone
  <2>1. /\ job[s].pc \in Applying
        /\ job'[s].pass = job[s].pass /\ job'[s].phone = job[s].phone
        /\ job[s].pc = "check" => VerifiedPhone(pass[job[s].pass].verif) = job[s].phone
    <3>1. CASE job'[s] = job[s]
      BY <1>5, <3>1
    <3>2. CASE CheckApplicant(s) \/ LookupApplicant(s)
      <4>1. job[s].pc \in Applying
        BY <3>2 DEF CheckApplicant, LookupApplicant, At, Applying
      <4> QED BY <1>5, <3>2, <4>1, VetMoves DEF Idle, Applying
    <3>3. \A k \in Passes, p \in Phones, role \in Roles :
            ~ConsumeMyIDToken(s, k, p, role)
      BY <1>0, <1>5 DEF ConsumeMyIDToken, Become, Idle
    <3> QED BY <1>5, <3>1, <3>2, <3>3, JobMoves
  <2>2. PICK k \in Passes, p \in Phones :
          k = job[s].pass /\ k = job'[s].pass /\ p = job[s].phone /\ p = job'[s].phone
    BY <2>1 DEF AccountsOK, Shapes, JobShape
  <2>3. pass[k].status = "consumed" /\ VerifiedPhone(pass[k].verif) = p
    BY <2>1, <2>2 DEF PassInv, Holds, IdentityInv
  <2>4. VerifiedPhone(pass[k].verif)' = p
    BY <1>1, <2>3
  <2> QED BY <2>2, <2>4 DEF VerifiedPhone
<1>6. IdentityOfPhone'
  BY <1>3, <1>4, Writes
<1> QED BY <1>5, <1>6 DEF IdentityInv

\* The identity of every user is that of a pass bound to a confirmed code of the
\* user's own phone.
THEOREM IdentitiesMatch == Spec => []IdentityOfPhone
<1>1. Init => PassInv /\ IdentityInv
  BY DEF Init, PassInv, Holds, IdentityInv, IdentityOfPhone, Applying, Idle, NoUser
<1>2. IdentityInv => IdentityOfPhone
  BY DEF IdentityInv
<1> QED BY <1>1, <1>2, InitType, NextType, PassNext, IdentityNext, PTL DEF Spec

-----------------------------------------------------------------------------
(* What a step may never do.                                               *)

\* A request comes to insert or to confirm a code, or to overwrite a row, by one
\* statement only.
LEMMA Arrivals ==
  ASSUME AccountsOK, [Next]_vars, NEW s \in Slots,
         job'[s].pc \in {"code", "right", "update"}, job'[s] # job[s]
  PROVE  \/ \E p \in Phones : RequestCode(s, p)
         \/ \E v \in Verifs : VerifyOTP(s, v)
         \/ LookupApplicant(s)
<1>0. job \in [Slots -> Job]
  BY DEF AccountsOK, TypeOK
<1>1. ~UNCHANGED job /\ ~Environment
  BY DEF Environment, Tick, AgeCode, ExpirePass, RevokeRefreshToken, SetVerification
<1>2. ~(\/ InsertCode(s) \/ CountAttempt(s) \/ MarkVerified(s)
        \/ CreateMyIDVerification(s) \/ SaveRefreshToken(s) \/ Fail(s))
  BY <1>0 DEF InsertCode, CountAttempt, MarkVerified, CreateMyIDVerification,
       SaveRefreshToken, Fail, Done, Become, Idle
<1>3. \A v \in Verifs : ~MyidVerify(s, v)
  BY <1>0 DEF MyidVerify, Become, Idle
<1>4. \A k \in Passes, p \in Phones, role \in Roles : ~ConsumeMyIDToken(s, k, p, role)
  BY <1>0 DEF ConsumeMyIDToken, Become, Idle
<1>5. \A p \in Phones : ~Login(s, p)
  BY <1>0 DEF Login, Become, Idle
<1>6. \A t \in Tokens : ~RotateRefreshToken(s, t)
  BY <1>0 DEF RotateRefreshToken, Become, Idle
<1>7. ~AdminLogin(s)
  BY <1>0 DEF AdminLogin, Become, Idle
<1>8. ~CheckApplicant(s)
  <2> SUFFICES ASSUME CheckApplicant(s) PROVE FALSE
    OBVIOUS
  <2>1. job'[s] = Idle \/ job'[s].pc = "lookup"
    <3> DEFINE on(v) == [job[s] EXCEPT !.pc = "lookup", !.verdict = v]
    <3>1. \E v \in Verdicts : job'[s] \in {Idle, on(v)}
      BY <1>0 DEF CheckApplicant, Done, Become, Verdicts
    <3>2. \A v : on(v).pc = "lookup"
      BY <1>0 DEF Job
    <3> HIDE DEF on
    <3> QED BY <3>1, <3>2
  <2> QED BY <2>1 DEF Idle
<1>9. ~FindUser(s) /\ ~InsertAdmin(s) /\ ~InsertUser(s) /\ ~UpdateUser(s)
  <2> SUFFICES ASSUME FindUser(s) \/ InsertAdmin(s) \/ WriteUser(s) PROVE FALSE
    BY DEF InsertUser, UpdateUser
  <2> DEFINE found == [job[s] EXCEPT !.pc = "save", !.iat = second,
                         !.role = users[job[s].phone].role]
             admin == [job[s] EXCEPT !.pc = "save", !.role = "admin", !.iat = second]
             saving == [job[s] EXCEPT !.pc = "save", !.iat = second]
  <2>1. job'[s] \in {Idle, found, admin, saving}
    BY <1>0 DEF FindUser, InsertAdmin, WriteUser, Done, Become
  <2>2. found.pc = "save" /\ admin.pc = "save" /\ saving.pc = "save" /\ Idle.pc = "idle"
    BY <1>0 DEF Job, Idle
  <2> HIDE DEF found, admin, saving
  <2> QED BY <2>1, <2>2
\* The steps of the others leave the request alone.
<1>10. ASSUME NEW r \in Slots \ {s} PROVE ~(Codes(r) \/ Registration(r) \/ Sessions(r) \/ Fail(r))
  <2>1. ASSUME NEW j, Become(r, j) PROVE job'[s] = job[s]
    BY <1>0, <2>1 DEF Become
  <2> QED BY <2>1 DEF Codes, Registration, Sessions, Fail, RequestCode, VerifyOTP,
       InsertCode, CountAttempt, MarkVerified, MyidVerify, ConsumeMyIDToken,
       CreateMyIDVerification, CheckApplicant, LookupApplicant, InsertUser, UpdateUser,
       WriteUser, Login, RotateRefreshToken, FindUser, SaveRefreshToken, AdminLogin,
       InsertAdmin, Goto, Done
<1>11. Codes(s) \/ Registration(s) \/ Sessions(s)
  BY <1>1, <1>2, <1>10 DEF Next, vars
<1> QED BY <1>2, <1>3, <1>4, <1>5, <1>6, <1>7, <1>8, <1>9, <1>11
        DEF Codes, Registration, Sessions

\* Looking a phone up leads on for nobody or somebody rejected only.
LEMMA LookupMoves ==
  ASSUME AccountsOK, NEW s \in Slots, LookupApplicant(s),
         job'[s].pc \in {"code", "right", "update"}
  PROVE  /\ job'[s].pc = "update" /\ job'[s].phone = job[s].phone
         /\ users[job[s].phone].status = "rejected"
<1>0. job \in [Slots -> Job]
  BY DEF AccountsOK, TypeOK
<1> DEFINE to(pc) == [job[s] EXCEPT !.pc = pc]
<1>1. \/ job'[s] = to("update") /\ users[job[s].phone].status = "rejected"
      \/ job'[s] = to("insert") \/ job'[s] = Idle
  BY <1>0 DEF LookupApplicant, Goto, Done, Become
<1>2. /\ to("update").pc = "update" /\ to("insert").pc = "insert" /\ Idle.pc = "idle"
      /\ to("update").phone = job[s].phone
  BY <1>0 DEF Job, Idle
<1> HIDE DEF to
<1> QED BY <1>1, <1>2

\* Who writes rows of users.
LEMMA UserSteps ==
  ASSUME AccountsOK, [Next]_vars
  PROVE  \/ UNCHANGED users
         \/ \E s \in Slots : InsertAdmin(s) \/ InsertUser(s) \/ UpdateUser(s)
         \/ \E q \in Phones, status \in Verdicts \cup {"pending"} :
              SetVerification(q, status)
BY DEF Next, Codes, Registration, Sessions, Environment, vars, Fail, RequestCode,
       VerifyOTP, InsertCode, CountAttempt, MarkVerified, MyidVerify, ConsumeMyIDToken,
       CreateMyIDVerification, CheckApplicant, LookupApplicant, Login, FindUser,
       AdminLogin, Tick, AgeCode, ExpirePass, RotateRefreshToken, SaveRefreshToken,
       RevokeRefreshToken

\* What a step does to a code.
LEMMA CodeMoves ==
  ASSUME AccountsOK, [Next]_vars, NEW v \in Verifs
  PROVE  \/ /\ otp[v].phone = None
            /\ \/ otp'[v] = otp[v]
               \/ \E s \in Slots : At(s, "code") /\ otp'[v].phone = job[s].phone
         \/ /\ otp'[v].phone = otp[v].phone
            /\ otp'[v].age >= otp[v].age /\ otp'[v].attempts >= otp[v].attempts
            /\ \/ otp'[v].verified = otp[v].verified
               \/ \E s \in Slots : At(s, "right") /\ job[s].verif = v
<1>0. otp \in [Verifs -> OtpRow] /\ otp[v].age \in Int /\ otp[v].attempts \in Int
  BY DEF AccountsOK, TypeOK, OtpRow, Ages
<1> DEFINE Same == otp'[v].phone = otp[v].phone /\ otp'[v].verified = otp[v].verified
                   /\ otp'[v].age >= otp[v].age /\ otp'[v].attempts >= otp[v].attempts
<1>1. CASE UNCHANGED otp
  BY <1>0, <1>1
<1>2. ASSUME NEW u \in Verifs, AgeCode(u) PROVE Same
  BY <1>0, <1>2 DEF AgeCode, OtpRow
<1>3. ASSUME NEW s \in Slots, CountAttempt(s) PROVE Same
  BY <1>0, <1>3 DEF CountAttempt, OtpRow
<1>4. ASSUME NEW s \in Slots, MarkVerified(s)
      PROVE  /\ otp'[v].phone = otp[v].phone
             /\ otp'[v].age >= otp[v].age /\ otp'[v].attempts >= otp[v].attempts
             /\ otp'[v].verified = otp[v].verified \/ (At(s, "right") /\ job[s].verif = v)
  <2>1. At(s, "right")
    BY <1>4 DEF MarkVerified
  <2>2. CASE job[s].verif = v
    <3>1. otp'[v] = [otp[v] EXCEPT !.verified = TRUE]
      BY <1>0, <1>4, <2>2 DEF MarkVerified
    <3>2. otp[v] \in OtpRow
      BY <1>0
    <3>3. /\ otp'[v].phone = otp[v].phone
          /\ otp'[v].age = otp[v].age /\ otp'[v].attempts = otp[v].attempts
      BY <3>1, <3>2 DEF OtpRow
    <3> QED BY <1>0, <2>1, <2>2, <3>3
  <2>3. CASE job[s].verif # v
    <3>1. otp'[v] = otp[v]
      BY <1>0, <1>4, <2>3 DEF MarkVerified
    <3> QED BY <1>0, <3>1
  <2> QED BY <2>2, <2>3
<1>5. ASSUME NEW s \in Slots, InsertCode(s)
      PROVE  \/ otp'[v] = otp[v]
             \/ otp[v].phone = None /\ At(s, "code") /\ otp'[v].phone = job[s].phone
  BY <1>0, <1>5 DEF InsertCode, NoCode
<1>6. \/ UNCHANGED otp
      \/ \E u \in Verifs : AgeCode(u)
      \/ \E s \in Slots : InsertCode(s) \/ CountAttempt(s) \/ MarkVerified(s)
  BY DEF Next, Codes, Registration, Sessions, Environment, vars, Fail, RequestCode,
         VerifyOTP, MyidVerify, ConsumeMyIDToken, CreateMyIDVerification, ExpirePass,
         CheckApplicant, LookupApplicant, InsertUser, UpdateUser, WriteUser, Login,
         FindUser, AdminLogin, InsertAdmin, Tick, SetVerification,
         RotateRefreshToken, SaveRefreshToken, RevokeRefreshToken
<1> QED BY <1>0, <1>1, <1>2, <1>3, <1>4, <1>5, <1>6

\* Once the codes of a phone fill the window, a request that has passed its count
\* is needed for more, and none passes it.
THEOREM FullWindowsHold == Spec => FullWindowHolds
<1>1. ASSUME AccountsOK, [Next]_vars, NEW p \in Phones, WindowFull(p)
      PROVE  ~Counted(p)' /\ CodesInWindow(p)' \subseteq CodesInWindow(p)
  <2>1. ~Counted(p)'
    <3> SUFFICES ASSUME NEW s \in Slots, job'[s].pc = "code", job'[s].phone = p PROVE FALSE
      BY DEF Counted, At
    <3>1. job'[s] # job[s]
      BY <1>1 DEF WindowFull, Counted, At
    <3>2. ASSUME NEW q \in Phones, RequestCode(s, q) PROVE FALSE
      <4>1. job'[s].phone = q
        BY <1>1, <3>2 DEF RequestCode, Become, Idle, AccountsOK, TypeOK
      <4> QED BY <1>1, <3>2, <4>1 DEF RequestCode, WindowFull, BelowRateLimit
    <3>3. ASSUME NEW v \in Verifs, VerifyOTP(s, v) PROVE FALSE
      BY <1>1, <3>3 DEF VerifyOTP, Become, Idle, AccountsOK, TypeOK
    <3>4. ~LookupApplicant(s)
      BY <1>1, LookupMoves
    <3> QED BY <1>1, <3>1, <3>2, <3>3, <3>4, Arrivals
  <2>2. CodesInWindow(p)' \subseteq CodesInWindow(p)
    <3> SUFFICES ASSUME NEW v \in Verifs, otp'[v].phone = p, otp'[v].age <= 1
                 PROVE  otp[v].phone = p /\ otp[v].age <= 1
      BY DEF CodesInWindow, InRateWindow
    <3>1. otp[v].age \in Int /\ otp'[v].age \in Int
      <4>1. AccountsOK'
        BY <1>1, NextType
      <4> QED BY <1>1, <4>1 DEF AccountsOK, TypeOK, OtpRow, Ages
    <3>2. ~\E s \in Slots : At(s, "code") /\ job[s].phone = p
      BY <1>1 DEF WindowFull, Counted
    <3> QED BY <1>1, <3>1, <3>2, CodeMoves, AccountsAssumption
  <2> QED BY <2>1, <2>2
<1>2. AccountsOK /\ [Next]_vars =>
        [\A p \in Phones : WindowFull(p) =>
           ~Counted(p)' /\ CodesInWindow(p)' \subseteq CodesInWindow(p)]_vars
  BY <1>1
<1> QED BY <1>2, InitType, NextType, PTL DEF Spec, FullWindowHolds

\* A dead code is never confirmed: it could only be by an answer that was judged
\* right while it was alive.
THEOREM DeadCodesStayDead == Spec => DeadCodesStay
<1>1. ASSUME AccountsOK, [Next]_vars, NEW v \in Verifs, Dead(v) PROVE Dead(v)'
  <2>0. /\ otp[v].age \in Nat /\ otp'[v].age \in Nat /\ OTPMaxAttempts \in Nat
        /\ otp[v].attempts \in Nat /\ otp'[v].attempts \in Nat
    <3>1. AccountsOK'
      BY <1>1, NextType
    <3> QED BY <1>1, <3>1, AccountsAssumption DEF AccountsOK, TypeOK, OtpRow, Ages
  <2>1. /\ otp'[v].phone = otp[v].phone /\ otp'[v].verified = otp[v].verified
        /\ otp'[v].age >= otp[v].age /\ otp'[v].attempts >= otp[v].attempts
    BY <1>1, CodeMoves DEF Dead
  <2>2. ASSUME NEW s \in Slots, job'[s].pc = "right", job'[s].verif = v PROVE FALSE
    <3>1. job'[s] # job[s]
      BY <1>1, <2>2 DEF Dead, At
    <3>2. ASSUME NEW q \in Phones, RequestCode(s, q) PROVE FALSE
      BY <1>1, <2>2, <3>2 DEF RequestCode, Become, Idle, AccountsOK, TypeOK
    <3>3. ASSUME NEW u \in Verifs, VerifyOTP(s, u) PROVE FALSE
      <4>1. u = v
        BY <1>1, <2>2, <3>3 DEF VerifyOTP, Become, Idle, AccountsOK, TypeOK
      <4> QED BY <1>1, <2>0, <3>3, <4>1 DEF VerifyOTP, Dead
    <3>4. ~LookupApplicant(s)
      BY <1>1, <2>2, LookupMoves
    <3> QED BY <1>1, <2>2, <3>1, <3>2, <3>3, <3>4, Arrivals
  <2> QED BY <1>1, <2>0, <2>1, <2>2 DEF Dead, InTTL, At
<1>2. AccountsOK /\ [Next]_vars => [\A v \in Verifs : Dead(v) => Dead(v)']_vars
  BY <1>1
<1> QED BY <1>2, InitType, NextType, PTL DEF Spec, DeadCodesStay

\* Whoever finds an approved row leaves it, so nobody comes to overwrite it.
THEOREM TakenPhonesKept == Spec => TakenPhoneKept
<1>1. ASSUME AccountsOK, [Next]_vars, NEW p \in Phones, Taken(p)
      PROVE  users'[p].pass = users[p].pass /\ (users'[p].status = "approved" => Taken(p)')
  <2>0. users \in [Phones -> UserRow]
    BY <1>1 DEF AccountsOK, TypeOK
  <2>1. users'[p].pass = users[p].pass
    <3>1. ASSUME NEW s \in Slots, InsertUser(s) \/ UpdateUser(s)
          PROVE  users'[p].pass = users[p].pass
      <4>1. job[s].phone # p
        BY <1>1, <3>1 DEF InsertUser, UpdateUser, Taken, At
      <4> QED BY <2>0, <3>1, <4>1 DEF InsertUser, UpdateUser, WriteUser
    <3>2. ASSUME NEW s \in Slots, InsertAdmin(s) PROVE users'[p].pass = users[p].pass
      BY <1>1, <2>0, <3>2 DEF InsertAdmin, Taken, UserRow
    <3>3. ASSUME NEW q \in Phones, NEW status \in Verdicts \cup {"pending"},
                 SetVerification(q, status)
          PROVE  users'[p].pass = users[p].pass
      BY <2>0, <3>3 DEF SetVerification, UserRow
    <3> QED BY <1>1, <3>1, <3>2, <3>3, UserSteps
  <2>2. ASSUME NEW s \in Slots, job'[s].pc = "update", job'[s].phone = p PROVE FALSE
    <3>1. job'[s] # job[s]
      BY <1>1, <2>2 DEF Taken, At
    <3>2. ASSUME NEW q \in Phones, RequestCode(s, q) PROVE FALSE
      BY <1>1, <2>2, <3>2 DEF RequestCode, Become, Idle, AccountsOK, TypeOK
    <3>3. ASSUME NEW u \in Verifs, VerifyOTP(s, u) PROVE FALSE
      BY <1>1, <2>2, <3>3 DEF VerifyOTP, Become, Idle, AccountsOK, TypeOK
    <3>4. ~LookupApplicant(s)
      BY <1>1, <2>2, LookupMoves DEF Taken
    <3> QED BY <1>1, <2>2, <3>1, <3>2, <3>3, <3>4, Arrivals
  <2> QED BY <2>1, <2>2 DEF Taken, At
<1>2. AccountsOK /\ [Next]_vars =>
        [\A p \in Phones : Taken(p) =>
           /\ users'[p].pass = users[p].pass
           /\ users'[p].status = "approved" => Taken(p)']_vars
  BY <1>1
<1> QED BY <1>2, InitType, NextType, PTL DEF Spec, TakenPhoneKept
=============================================================================
