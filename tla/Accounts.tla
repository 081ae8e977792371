------------------------------- MODULE Accounts -------------------------------
(***************************************************************************)
(* Accounts of the users service: registration, login with its lockout,    *)
(* upgrade of a device account, change of email and password, deletion,    *)
(* and verification of the email.                                          *)
(*                                                                         *)
(* A request reads its account, hashes or compares a password for as long  *)
(* as that takes, and then writes by id: other requests come in between.   *)
(* Only VerifyEmail is a transaction of several statements; its row locks, *)
(* and those of a delete with its cascade, are held for a while.           *)
(***************************************************************************)
EXTENDS Integers, FiniteSets

CONSTANTS
  Ids,                    \* ids of users, in the order they are issued
  Emails, Passwords, Devices,
  Codes,                  \* ids of email verification tokens, in order
  Slots,                  \* requests the service works on at a time
  LockoutThreshold,
  MaxRequests, MaxFaults  \* bounds

ASSUME AccountsAssumption ==
  /\ Ids \subseteq Nat /\ Codes \subseteq Nat
  /\ LockoutThreshold \in Nat \ {0}
  /\ MaxRequests \in Nat /\ MaxFaults \in Nat
  /\ IsFiniteSet(Slots)

None     == [value |-> "NULL"]

\* No address, password or device is NULL.
ASSUME NullAssumption == None \notin Emails \cup Passwords \cup Devices

Unissued == [state |-> "unissued"]
Gone     == [state |-> "gone"]
Free     == [at |-> "free"]

\* A count at the threshold stands for all above it; locked_until is kept as
\* whether it lies ahead.
User == [email : Emails \cup {None}, password : Passwords \cup {None},
         device : Devices \cup {None}, verified : BOOLEAN,
         failed : 0..LockoutThreshold, locked : BOOLEAN]

\* A code's address is where it was mailed; the table has no column for it.
Code == [user : Ids, email : Emails, expired : BOOLEAN]

VARIABLES
  users,        \* the table users
  refresh,      \* what refresh tokens a user has: live ones, revoked ones
  codes,        \* email_verification_tokens
  held,         \* codes whose rows a transaction has locked
  work,         \* the requests being worked on
  requests, faults,
  guesses,      \* history: wrong passwords since the last success or lock
  unrecorded,   \* history: wrong passwords whose record failed
  upgraded,     \* history: how often an account was upgraded
  together,     \* history: accounts upgraded while another upgrade was as far
  confirmed     \* history: the addresses an account has confirmed

history == <<guesses, unrecorded, upgraded, together, confirmed>>
tables  == <<users, refresh, codes, held>>
vars    == <<tables, work, requests, faults, history>>

Exists(u) == users[u] \notin {Unissued, Gone}
IsCode(k) == codes[k] \notin {Unissued, Gone}
CodesOf(u) == {k \in Codes : IsCode(k) /\ codes[k].user = u}

\* Somebody is or was signed in, and has an access token.
Signed(u) == Exists(u) /\ refresh[u] # {}

First(S) == {x \in S : \A y \in S : x <= y}
NewId    == First({u \in Ids : users[u] = Unissued})
NewCode  == First({k \in Codes : codes[k] = Unissued})

\* Altered: any account with a device.
HasDevice(r) == r.device # None

MobileOnly(r) == r.device # None /\ r.email = None /\ r.password = None

\* The UNIQUE columns.
Unique(u, r) ==
  \A v \in {w \in Ids \ {u} : Exists(w)} :
    /\ r.email = None \/ r.email # users[v].email
    /\ r.device = None \/ r.device # users[v].device

\* check_account_type and check_email_with_password.
Checked(r) ==
  /\ (r.email = None) <=> (r.password = None)
  /\ r.email # None \/ r.device # None

\* A delete in progress has locked the row: writes to it wait.
Writable(u) == \A s \in Slots : work[s].at = "cascade" => work[s].user # u

\* A request comes in, goes on, is answered.
Begin(s, w) ==
  /\ work[s] = Free /\ requests < MaxRequests
  /\ requests' = requests + 1
  /\ work' = [work EXCEPT ![s] = w]

Go(s, w)  == work' = [work EXCEPT ![s] = w] /\ UNCHANGED requests
Answer(s) == Go(s, Free)

-----------------------------------------------------------------------------
(* Registration and login.                                                 *)

Insert(s, r) ==
  \E u \in NewId :
    /\ Unique(u, r)
    /\ users' = [users EXCEPT ![u] = r]
    /\ Begin(s, [at |-> "issue", user |-> u])
    /\ UNCHANGED <<refresh, codes, held, faults, history>>

Blank == [email |-> None, password |-> None, device |-> None,
          verified |-> FALSE, failed |-> 0, locked |-> FALSE]

Register(s, e, p)    == Insert(s, [Blank EXCEPT !.email = e, !.password = p])
RegisterMobile(s, d) == Insert(s, [Blank EXCEPT !.device = d])

\* GetUserByEmail, IsLocked, and the comparison with the hash that was read.
Login(s, u, p) ==
  /\ Exists(u) /\ users[u].email # None /\ ~users[u].locked
  /\ IF users[u].password = p
     THEN Begin(s, [at |-> "reset", user |-> u]) /\ UNCHANGED guesses
     ELSE /\ Begin(s, [at |-> "fail", user |-> u])
          /\ guesses' = [guesses EXCEPT ![u] = @ + 1]
  /\ UNCHANGED <<tables, faults, unrecorded, upgraded, together, confirmed>>

LoginMobile(s, u) ==
  /\ Exists(u) /\ ~users[u].locked /\ MobileOnly(users[u])
  /\ Begin(s, [at |-> "reset", user |-> u])
  /\ UNCHANGED <<tables, faults, history>>

\* Altered: the lock comes one failure late.
RecordTooLate(s) ==
  LET u == work[s].user IN
  /\ work[s].at = "fail" /\ Writable(u)
  /\ IF Exists(u)
     THEN users' = [users EXCEPT
            ![u].failed = IF @ < LockoutThreshold THEN @ + 1 ELSE @,
            ![u].locked = @ \/ users[u].failed + 1 > LockoutThreshold]
     ELSE UNCHANGED users
  /\ Answer(s)
  /\ UNCHANGED <<refresh, codes, held, faults, history>>

\* One statement counts the failure and locks the account.
RecordFailedLogin(s) ==
  LET u == work[s].user IN
  /\ work[s].at = "fail" /\ Writable(u)
  /\ IF Exists(u)
     THEN users' = [users EXCEPT
            ![u].failed = IF @ < LockoutThreshold THEN @ + 1 ELSE @,
            ![u].locked = @ \/ users[u].failed + 1 >= LockoutThreshold]
     ELSE UNCHANGED users
  /\ Answer(s)
  /\ UNCHANGED <<refresh, codes, held, faults, history>>

\* An error is only logged: a user who is gone fails at the token.
ResetFailedLogins(s) ==
  LET u == work[s].user IN
  /\ work[s].at = "reset" /\ Writable(u)
  /\ IF Exists(u)
     THEN /\ users' = [users EXCEPT ![u].failed = 0, ![u].locked = FALSE]
          /\ guesses' = [guesses EXCEPT ![u] = 0]
     ELSE UNCHANGED <<users, guesses>>
  /\ Go(s, [at |-> "issue", user |-> u])
  /\ UNCHANGED <<refresh, codes, held, faults, unrecorded, upgraded, together, confirmed>>

\* Altered: refresh_tokens without its foreign key.
IssueAnyway(s) ==
  LET u == work[s].user IN
  /\ work[s].at = "issue"
  /\ refresh' = [refresh EXCEPT ![u] = @ \cup {"live"}]
  /\ Answer(s)
  /\ UNCHANGED <<users, codes, held, faults, history>>

\* UpdateLastLoginAt and generateAuthResponse; the foreign key needs the user.
Issue(s) ==
  LET u == work[s].user IN
  /\ work[s].at = "issue" /\ Writable(u)
  /\ IF Exists(u) THEN refresh' = [refresh EXCEPT ![u] = @ \cup {"live"}]
     ELSE UNCHANGED refresh
  /\ Answer(s)
  /\ UNCHANGED <<users, codes, held, faults, history>>

LockEnds(u) ==
  /\ Exists(u) /\ users[u].locked
  /\ users' = [users EXCEPT ![u].locked = FALSE]
  /\ guesses' = [guesses EXCEPT ![u] = 0]
  /\ UNCHANGED <<refresh, codes, held, work, requests, faults, unrecorded, upgraded, together, confirmed>>

-----------------------------------------------------------------------------
(* Changes to an account.                                                  *)

\* The service looks, and hashes the password.
UpgradeAccount(s, u, e, p) ==
  /\ Signed(u) /\ MobileOnly(users[u])
  /\ Begin(s, [at |-> "look", user |-> u, email |-> e, password |-> p])
  /\ UNCHANGED <<tables, faults, history>>

\* The repository looks again.
LookAgain(s) ==
  LET u == work[s].user IN
  /\ work[s].at = "look"
  /\ IF Exists(u) /\ MobileOnly(users[u]) THEN Go(s, [work[s] EXCEPT !.at = "upgrade"])
     ELSE Answer(s)
  /\ UNCHANGED <<tables, faults, history>>

\* The UPDATE has no condition but the id.
Upgrade(s) ==
  LET u == work[s].user
      r == [users[u] EXCEPT !.email = work[s].email, !.password = work[s].password] IN
  /\ work[s].at = "upgrade" /\ Writable(u)
  /\ IF Exists(u) /\ Unique(u, r)
     THEN /\ users' = [users EXCEPT ![u] = r]
          /\ upgraded' = [upgraded EXCEPT ![u] = @ + 1]
          /\ together' = IF \E q \in Slots \ {s} : work[q].at = "upgrade" /\ work[q].user = u
                         THEN together \cup {u} ELSE together
     ELSE UNCHANGED <<users, upgraded, together>>
  /\ Answer(s)
  /\ UNCHANGED <<refresh, codes, held, faults, guesses, unrecorded, confirmed>>

UpdateUser(s, u, e) ==
  /\ Signed(u)
  /\ Begin(s, [at |-> "email", user |-> u, email |-> e])
  /\ UNCHANGED <<tables, faults, history>>

\* The address changes, and with it nothing else.
SetEmail(s) ==
  LET u == work[s].user  r == [users[u] EXCEPT !.email = work[s].email] IN
  /\ work[s].at = "email" /\ Writable(u)
  /\ IF Exists(u) /\ Unique(u, r) /\ Checked(r) THEN users' = [users EXCEPT ![u] = r]
     ELSE UNCHANGED users
  /\ Answer(s)
  /\ UNCHANGED <<refresh, codes, held, faults, history>>

\* The current password is right when it is read.  A wrong one is turned away
\* with nothing written: it is not counted, and no lock is looked at.
ChangePassword(s, u, p, q) ==
  /\ Signed(u) /\ users[u].password = p
  /\ Begin(s, [at |-> "password", user |-> u, password |-> q])
  /\ UNCHANGED <<tables, faults, history>>

UpdatePasswordHash(s) ==
  LET u == work[s].user IN
  /\ work[s].at = "password" /\ Writable(u)
  /\ users' = IF Exists(u) THEN [users EXCEPT ![u].password = work[s].password] ELSE users
  /\ Answer(s)
  /\ UNCHANGED <<refresh, codes, held, faults, history>>

\* RevokeAllUserTokens, then the delete with its cascade.
DeleteUser(s, u) ==
  /\ Signed(u)
  /\ refresh' = [refresh EXCEPT ![u] = {"revoked"}]
  /\ Begin(s, [at |-> "delete", user |-> u])
  /\ UNCHANGED <<users, codes, held, faults, history>>

LockRow(s) ==
  LET u == work[s].user IN
  /\ work[s].at = "delete" /\ Writable(u)
  /\ IF Exists(u) THEN Go(s, [at |-> "cascade", user |-> u]) ELSE Answer(s)
  /\ UNCHANGED <<tables, faults, history>>

Cascade(s) ==
  LET u == work[s].user IN
  /\ work[s].at = "cascade" /\ CodesOf(u) \cap held = {}
  /\ users' = [users EXCEPT ![u] = Gone]
  /\ refresh' = [refresh EXCEPT ![u] = {}]
  /\ codes' = [k \in Codes |-> IF k \in CodesOf(u) THEN Gone ELSE codes[k]]
  /\ Answer(s)
  /\ UNCHANGED <<held, faults, history>>

-----------------------------------------------------------------------------
(* Verification of the email.                                              *)

\* Bound: a code is left for every request that will store one.
Spare == Cardinality({k \in Codes : codes[k] = Unissued})
           > Cardinality({s \in Slots : work[s].at \in {"clear", "store"}})

SendVerificationEmail(s, u) ==
  /\ Spare /\ Signed(u) /\ users[u].email # None /\ ~users[u].verified
  /\ Begin(s, [at |-> "clear", user |-> u, email |-> users[u].email])
  /\ UNCHANGED <<tables, faults, history>>

\* Old codes go first, unless a transaction has locked them.
ClearOldCodes(s) ==
  LET u == work[s].user IN
  /\ work[s].at = "clear" /\ CodesOf(u) \cap held = {}
  /\ codes' = [k \in Codes |-> IF k \in CodesOf(u) THEN Gone ELSE codes[k]]
  /\ Go(s, [work[s] EXCEPT !.at = "store"])
  /\ UNCHANGED <<users, refresh, held, faults, history>>

StoreCode(s) ==
  LET u == work[s].user IN
  /\ work[s].at = "store" /\ Writable(u)
  /\ IF Exists(u)
     THEN \E k \in NewCode :
            codes' = [codes EXCEPT ![k] = [user |-> u, email |-> work[s].email, expired |-> FALSE]]
     ELSE UNCHANGED codes
  /\ Answer(s)
  /\ UNCHANGED <<users, refresh, held, faults, history>>

\* The transaction takes the code, and its row's lock.
VerifyEmail(s, k) ==
  /\ IsCode(k) /\ k \notin held
  /\ held' = held \cup {k}
  /\ Begin(s, [at |-> "mark", code |-> k])
  /\ UNCHANGED <<users, refresh, codes, faults, history>>

\* Altered: the transaction of an expired code is left open.
KeepOpen(s) ==
  LET k == work[s].code IN
  /\ work[s].at = "mark" /\ codes[k].expired
  /\ Answer(s)
  /\ UNCHANGED <<tables, faults, history>>

\* An expired code: the transaction is rolled back.
Rollback(s) ==
  LET k == work[s].code IN
  /\ work[s].at = "mark" /\ codes[k].expired
  /\ held' = held \ {k}
  /\ Answer(s)
  /\ UNCHANGED <<users, refresh, codes, faults, history>>

MarkVerified(s) ==
  LET k == work[s].code  u == codes[k].user IN
  /\ work[s].at = "mark" /\ ~codes[k].expired /\ Writable(u)
  /\ users' = [users EXCEPT ![u].verified = TRUE]
  /\ codes' = [codes EXCEPT ![k] = Gone]
  /\ held' = held \ {k}
  /\ confirmed' = [confirmed EXCEPT ![u] = @ \cup {codes[k].email}]
  /\ Answer(s)
  /\ UNCHANGED <<refresh, faults, guesses, unrecorded, upgraded, together>>

\* A verification waits for the user's row, a delete for the code's: the
\* database ends one of them.
DeadlockDetected(s) ==
  \E q \in Slots :
    LET wait == {s, q} IN
    /\ \E a, b \in wait : /\ work[a].at = "mark" /\ ~codes[work[a].code].expired
                          /\ work[b].at = "cascade" /\ work[b].user = codes[work[a].code].user
    /\ held' = IF work[s].at = "mark" THEN held \ {work[s].code} ELSE held
    /\ Answer(s)
    /\ UNCHANGED <<users, refresh, codes, faults, history>>

ExpireCode(k) ==
  /\ IsCode(k) /\ ~codes[k].expired /\ faults < MaxFaults /\ faults' = faults + 1
  /\ codes' = [codes EXCEPT ![k].expired = TRUE]
  /\ UNCHANGED <<users, refresh, held, work, requests, history>>

-----------------------------------------------------------------------------
\* A statement fails: some errors are only logged, the others end the request.
StatementFails(s) ==
  LET w == work[s] IN
  /\ w # Free /\ faults < MaxFaults /\ faults' = faults + 1
  /\ CASE w.at = "reset" -> Go(s, [w EXCEPT !.at = "issue"])
       [] OTHER          -> Answer(s)
  /\ held' = IF w.at = "mark" THEN held \ {w.code} ELSE held
  /\ unrecorded' = IF w.at = "fail" THEN [unrecorded EXCEPT ![w.user] = @ + 1] ELSE unrecorded
  /\ UNCHANGED <<users, refresh, codes, guesses, upgraded, together, confirmed>>

Init ==
  /\ users = [u \in Ids |-> Unissued]
  /\ refresh = [u \in Ids |-> {}]
  /\ codes = [k \in Codes |-> Unissued] /\ held = {}
  /\ work = [s \in Slots |-> Free]
  /\ requests = 0 /\ faults = 0
  /\ guesses = [u \in Ids |-> 0] /\ unrecorded = guesses /\ upgraded = guesses
  /\ together = {} /\ confirmed = [u \in Ids |-> {}]

Serve(s) ==
  \/ RecordFailedLogin(s) \/ ResetFailedLogins(s) \/ Issue(s)
  \/ LookAgain(s) \/ Upgrade(s) \/ SetEmail(s) \/ UpdatePasswordHash(s)
  \/ LockRow(s) \/ Cascade(s)
  \/ ClearOldCodes(s) \/ StoreCode(s) \/ Rollback(s) \/ MarkVerified(s)
  \/ DeadlockDetected(s)

Arrive(s) ==
  \/ \E e \in Emails, p \in Passwords : Register(s, e, p)
  \/ \E d \in Devices : RegisterMobile(s, d)
  \/ \E u \in Ids :
       \/ LoginMobile(s, u) \/ DeleteUser(s, u) \/ SendVerificationEmail(s, u)
       \/ \E p \in Passwords : Login(s, u, p) \/ \E q \in Passwords : ChangePassword(s, u, p, q)
       \/ \E e \in Emails : UpdateUser(s, u, e) \/ \E p \in Passwords : UpgradeAccount(s, u, e, p)
  \/ \E k \in Codes : VerifyEmail(s, k)

Next ==
  \/ \E s \in Slots : Arrive(s) \/ Serve(s) \/ StatementFails(s)
  \/ \E u \in Ids : LockEnds(u)
  \/ \E k \in Codes : ExpireCode(k)

\* Every request is worked on.
Spec == Init /\ [][Next]_vars /\ \A s \in Slots : WF_vars(Serve(s))
-----------------------------------------------------------------------------
(* Properties.                                                             *)

Requested ==
  {Free}
    \cup [at : {"issue", "reset", "fail", "delete", "cascade"}, user : Ids]
    \cup [at : {"look", "upgrade"}, user : Ids, email : Emails, password : Passwords]
    \cup [at : {"email", "clear", "store"}, user : Ids, email : Emails]
    \cup [at : {"password"}, user : Ids, password : Passwords]
    \cup [at : {"mark"}, code : Codes]

\* Every row and request has its shape.
TypeOK ==
  /\ users \in [Ids -> User \cup {Unissued, Gone}]
  /\ refresh \in [Ids -> SUBSET {"live", "revoked"}]
  /\ codes \in [Codes -> Code \cup {Unissued, Gone}]
  /\ held \subseteq Codes
  /\ work \in [Slots -> Requested]
  /\ requests \in 0..MaxRequests /\ faults \in 0..MaxFaults

\* Whatever changes run into each other, an account keeps a way in that the
\* two login handlers accept: an address with a password, or a device alone.
AlwaysAWayIn ==
  \A u \in Ids : Exists(u) =>
    \/ users[u].email # None /\ users[u].password # None
    \/ MobileOnly(users[u])

\* Between two successful logins, or since the last lock ran out, logins compare
\* no more wrong passwords than the threshold allows, but for those under way
\* when it is reached and those whose record failed.  (ChangePassword compares
\* the current password outside of this count.)
GuessesAreBounded ==
  \A u \in Ids :
    guesses[u] <= LockoutThreshold + Cardinality(Slots) - 1 + unrecorded[u]

\* No two accounts share an address or a device.
Unshared ==
  \A u \in Ids : Exists(u) =>
    \A v \in Ids \ {u} : Exists(v) =>
      /\ users[u].email # None => users[u].email # users[v].email
      /\ users[u].device # None => users[u].device # users[v].device

\* A user who is gone has no refresh token and no verification code, also
\* when a login or a mail was under way.
DeletedLeavesNothing ==
  \A u \in Ids : ~Exists(u) => refresh[u] = {} /\ CodesOf(u) = {}

\* An account is there as a whole, its owner's alone, or not at all.
AccountsAreWhole == TypeOK /\ Unshared /\ AlwaysAWayIn /\ DeletedLeavesNothing

\* A device account becomes a full account once, unless two upgrades have
\* both looked at it before either wrote.
UpgradedOnce == \A u \in Ids : upgraded[u] <= 1 \/ u \in together

\* Every request is answered, also when a delete and a verification wait for
\* each other's rows.
RequestsEnd == \A s \in Slots : work[s] # Free ~> work[s] = Free

\* "EmailVerified indicates whether the user has verified their email
\* address": the address of a verified account is one it has confirmed.
VerifiedMeansConfirmed ==
  \A u \in Ids : Exists(u) /\ users[u].verified => users[u].email \in confirmed[u]
=============================================================================
