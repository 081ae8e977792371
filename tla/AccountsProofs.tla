---------------------------- MODULE AccountsProofs ----------------------------
(* Proofs about Accounts, for any number of accounts, requests at a time,   *)
(* codes and faults, and any threshold.                                     *)
EXTENDS Accounts, FiniteSetTheorems, TLAPS

USE AccountsAssumption, NullAssumption

-----------------------------------------------------------------------------
(* An account is there as a whole.  A request writes by id long after it    *)
(* has looked: what it may rely on is that an address, once there, stays,   *)
(* and that a code it has locked stays its own, with the account it is for. *)

HeldInv ==
  /\ \A s \in Slots : work[s].at = "mark" => work[s].code \in held /\ IsCode(work[s].code)
  /\ \A s, q \in Slots :
       work[s].at = "mark" /\ work[q].at = "mark" /\ work[s].code = work[q].code => s = q

HasAddress(u) == users[u] # Unissued /\ (Exists(u) => users[u].email # None)

SettingInv == \A s \in Slots : work[s].at = "password" => HasAddress(work[s].user)

WholeInv == AccountsAreWhole /\ HeldInv /\ SettingInv

\* What kind of record everything is.
LEMMA Shapes ==
  /\ \A r \in User : r # Unissued /\ r # Gone
  /\ \A c \in Code : c # Unissued /\ c # Gone
  /\ Unissued # Gone
BY DEF User, Code, Unissued, Gone

\* What a request carries along, by its stage.
LEMMA RequestShapes ==
  ASSUME NEW w \in Requested
  PROVE  /\ w.at \in {"issue", "reset", "fail", "delete", "cascade", "look", "upgrade", "email",
                      "clear", "store", "password"} => w.user \in Ids
         /\ w.at \in {"look", "upgrade"} => w.email \in Emails /\ w.password \in Passwords
         /\ w.at \in {"email", "clear", "store"} => w.email \in Emails
         /\ w.at = "password" => w.password \in Passwords
         /\ w.at = "mark" => w.code \in Codes
BY DEF Requested, Free

WayIn(r) == (r.email # None /\ r.password # None) \/ MobileOnly(r)

\* What a row may become by a write to it: never one without a way in, one
\* that shares, or one that has lost its address.
Becomes(u, r) ==
  /\ r \in User /\ Unique(u, r) /\ WayIn(r) /\ users[u] # Gone
  /\ Exists(u) /\ users[u].email # None => r.email # None

\* The address and the device a row keeps stay unique.
LEMMA SameIsUnique ==
  ASSUME WholeInv, NEW u \in Ids, Exists(u), NEW r \in User,
         r.email = users[u].email, r.device = users[u].device
  PROVE  Unique(u, r)
BY DEF WholeInv, AccountsAreWhole, Unshared, Unique

\* A write that leaves address, password and device alone.
LEMMA TouchedUp ==
  ASSUME WholeInv, NEW u \in Ids, Exists(u), NEW r \in User,
         r.email = users[u].email, r.password = users[u].password, r.device = users[u].device
  PROVE  Becomes(u, r)
<1>1. Unique(u, r) BY SameIsUnique
<1>2. WayIn(r) BY DEF WholeInv, AccountsAreWhole, AlwaysAWayIn, WayIn, MobileOnly
<1> QED BY <1>1, <1>2 DEF Becomes, Exists

\* The writes to users: one row, by its id.
LEMMA UsersStep ==
  ASSUME WholeInv, Next
  PROVE  \/ UNCHANGED users
         \/ \E s \in Slots : Cascade(s)
         \/ \E u \in Ids, r \in User : users' = [users EXCEPT ![u] = r] /\ Becomes(u, r)
<1> DEFINE Written == \E u \in Ids, r \in User : users' = [users EXCEPT ![u] = r] /\ Becomes(u, r)
<1>0. /\ users \in [Ids -> User \cup {Unissued, Gone}] /\ work \in [Slots -> Requested]
      /\ codes \in [Codes -> Code \cup {Unissued, Gone}]
      /\ \A u \in Ids : Exists(u) => users[u] \in User
  BY DEF WholeInv, AccountsAreWhole, TypeOK, Exists
<1>1. ASSUME NEW s \in Slots, NEW r \in User, Insert(s, r), WayIn(r) PROVE Written
  <2>1. PICK u \in NewId : Unique(u, r) /\ users' = [users EXCEPT ![u] = r]
    BY <1>1 DEF Insert
  <2>2. u \in Ids /\ users[u] = Unissued BY DEF NewId, First
  <2>3. Becomes(u, r) BY <1>1, <2>1, <2>2, Shapes DEF Becomes, Exists
  <2> QED BY <2>1, <2>2, <2>3
<1>2. ASSUME NEW s \in Slots, NEW e \in Emails, NEW p \in Passwords, Register(s, e, p) PROVE Written
  <2> DEFINE r == [Blank EXCEPT !.email = e, !.password = p]
  <2>1. Blank \in User BY DEF Blank, User
  <2>2. r \in User /\ r.email = e /\ r.password = p BY <2>1 DEF User
  <2> HIDE DEF r
  <2>3. WayIn(r) BY <2>2 DEF WayIn
  <2> QED BY <1>1, <1>2, <2>2, <2>3 DEF Register, r
<1>3. ASSUME NEW s \in Slots, NEW d \in Devices, RegisterMobile(s, d) PROVE Written
  <2> DEFINE r == [Blank EXCEPT !.device = d]
  <2>1. Blank \in User /\ Blank.email = None /\ Blank.password = None BY DEF Blank, User
  <2>2. r \in User /\ r.email = None /\ r.password = None /\ r.device = d BY <2>1 DEF User
  <2> HIDE DEF r
  <2>3. WayIn(r) BY <2>2 DEF WayIn, MobileOnly
  <2> QED BY <1>1, <1>3, <2>2, <2>3 DEF RegisterMobile, r
<1>4. ASSUME NEW u \in Ids, Exists(u), NEW f \in 0..LockoutThreshold, NEW l \in BOOLEAN, NEW v \in BOOLEAN,
             users' = [users EXCEPT ![u] = [users[u] EXCEPT !.failed = f, !.locked = l, !.verified = v]]
      PROVE  Written
  <2> DEFINE r == [users[u] EXCEPT !.failed = f, !.locked = l, !.verified = v]
  <2>1. r \in User /\ r.email = users[u].email /\ r.password = users[u].password
        /\ r.device = users[u].device
    BY <1>0, <1>4 DEF User
  <2> HIDE DEF r
  <2> QED BY <1>4, <2>1, TouchedUp DEF r
<1>5. ASSUME NEW s \in Slots, RecordFailedLogin(s) PROVE UNCHANGED users \/ Written
  <2> DEFINE u == work[s].user
             f == IF users[u].failed < LockoutThreshold THEN users[u].failed + 1 ELSE users[u].failed
             l == users[u].locked \/ users[u].failed + 1 >= LockoutThreshold
  <2>1. u \in Ids BY <1>0, <1>5, RequestShapes DEF RecordFailedLogin
  <2>2. CASE Exists(u)
    <3>1. users[u] \in User BY <1>0, <2>1, <2>2
    <3>2. f \in 0..LockoutThreshold /\ l \in BOOLEAN /\ users[u].verified \in BOOLEAN
      BY <3>1 DEF User
    <3>3. users' = [users EXCEPT ![u].failed = f, ![u].locked = l]
      BY <1>5, <2>2 DEF RecordFailedLogin
    <3> HIDE DEF f, l
    <3>4. [users[u] EXCEPT !.failed = f, !.locked = l]
            = [users[u] EXCEPT !.failed = f, !.locked = l, !.verified = users[u].verified]
      BY <3>1 DEF User
    <3>5. users' = [users EXCEPT ![u] = [users[u] EXCEPT !.failed = f, !.locked = l]]
      BY <1>0, <2>1, <3>3
    <3> QED BY <1>4, <2>1, <2>2, <3>2, <3>4, <3>5
  <2>3. CASE ~Exists(u) BY <1>5, <2>3 DEF RecordFailedLogin
  <2> QED BY <2>2, <2>3
<1>6. ASSUME NEW u \in Ids, Exists(u),
             \/ users' = [users EXCEPT ![u].failed = 0, ![u].locked = FALSE]
             \/ users' = [users EXCEPT ![u].locked = FALSE]
             \/ users' = [users EXCEPT ![u].verified = TRUE]
      PROVE  Written
  <2>1. users[u] \in User BY <1>0, <1>6
  <2>2. /\ users[u].failed \in 0..LockoutThreshold /\ 0 \in 0..LockoutThreshold
        /\ users[u].locked \in BOOLEAN /\ users[u].verified \in BOOLEAN
    BY <2>1 DEF User
  <2>3. CASE users' = [users EXCEPT ![u].failed = 0, ![u].locked = FALSE]
    <3>1. [users[u] EXCEPT !.failed = 0, !.locked = FALSE]
            = [users[u] EXCEPT !.failed = 0, !.locked = FALSE, !.verified = users[u].verified]
      BY <2>1 DEF User
    <3>2. users' = [users EXCEPT ![u] = [users[u] EXCEPT !.failed = 0, !.locked = FALSE]]
      BY <1>0, <2>3
    <3> QED BY <1>4, <1>6, <2>2, <3>1, <3>2
  <2>4. CASE users' = [users EXCEPT ![u].locked = FALSE]
    <3>1. [users[u] EXCEPT !.locked = FALSE]
            = [users[u] EXCEPT !.failed = users[u].failed, !.locked = FALSE, !.verified = users[u].verified]
      BY <2>1 DEF User
    <3>2. users' = [users EXCEPT ![u] = [users[u] EXCEPT !.locked = FALSE]] BY <1>0, <2>4
    <3> QED BY <1>4, <1>6, <2>2, <3>1, <3>2
  <2>5. CASE users' = [users EXCEPT ![u].verified = TRUE]
    <3>1. [users[u] EXCEPT !.verified = TRUE]
            = [users[u] EXCEPT !.failed = users[u].failed, !.locked = users[u].locked, !.verified = TRUE]
      BY <2>1 DEF User
    <3>2. users' = [users EXCEPT ![u] = [users[u] EXCEPT !.verified = TRUE]] BY <1>0, <2>5
    <3> QED BY <1>4, <1>6, <2>2, <3>1, <3>2
  <2> QED BY <1>6, <2>3, <2>4, <2>5
<1>7. ASSUME NEW s \in Slots, ResetFailedLogins(s) PROVE UNCHANGED users \/ Written
  <2>1. work[s].user \in Ids BY <1>0, <1>7, RequestShapes DEF ResetFailedLogins
  <2> QED BY <1>6, <1>7, <2>1 DEF ResetFailedLogins
<1>8. ASSUME NEW u \in Ids, LockEnds(u) PROVE Written
  BY <1>6, <1>8 DEF LockEnds
<1>9. ASSUME NEW s \in Slots, MarkVerified(s) PROVE Written
  <2> DEFINE k == work[s].code
  <2>1. k \in Codes /\ IsCode(k)
    BY <1>0, <1>9, RequestShapes DEF MarkVerified, WholeInv, HeldInv
  <2>2. codes[k].user \in Ids BY <1>0, <2>1 DEF IsCode, Code
  <2>3. k \in CodesOf(codes[k].user) BY <2>1 DEF CodesOf
  <2>4. Exists(codes[k].user)
    BY <2>2, <2>3 DEF WholeInv, AccountsAreWhole, DeletedLeavesNothing
  <2>5. users' = [users EXCEPT ![codes[k].user].verified = TRUE] BY <1>9 DEF MarkVerified
  <2> QED BY <1>6, <2>2, <2>4, <2>5
<1>10. ASSUME NEW s \in Slots, Upgrade(s) PROVE UNCHANGED users \/ Written
  <2> DEFINE u == work[s].user
             r == [users[u] EXCEPT !.email = work[s].email, !.password = work[s].password]
  <2>1. u \in Ids /\ work[s].email \in Emails /\ work[s].password \in Passwords
    BY <1>0, <1>10, RequestShapes DEF Upgrade
  <2>2. CASE Exists(u) /\ Unique(u, r)
    <3>1. users' = [users EXCEPT ![u] = r] BY <1>10, <2>2 DEF Upgrade
    <3>2. users[u] \in User BY <1>0, <2>1, <2>2
    <3>3. r \in User /\ r.email # None /\ r.password # None BY <2>1, <3>2 DEF User
    <3> HIDE DEF r
    <3>4. Becomes(u, r) BY <2>2, <3>2, <3>3, Shapes DEF Becomes, WayIn
    <3> QED BY <2>1, <3>1, <3>3, <3>4
  <2>3. CASE ~(Exists(u) /\ Unique(u, r)) BY <1>10, <2>3 DEF Upgrade
  <2> QED BY <2>2, <2>3
<1>11. ASSUME NEW s \in Slots, SetEmail(s) PROVE UNCHANGED users \/ Written
  <2> DEFINE u == work[s].user
             r == [users[u] EXCEPT !.email = work[s].email]
  <2>1. u \in Ids /\ work[s].email \in Emails BY <1>0, <1>11, RequestShapes DEF SetEmail
  <2>2. CASE Exists(u) /\ Unique(u, r) /\ Checked(r)
    <3>1. users' = [users EXCEPT ![u] = r] BY <1>11, <2>2 DEF SetEmail
    <3>2. users[u] \in User BY <1>0, <2>1, <2>2
    <3>3. r \in User /\ r.email # None BY <2>1, <3>2 DEF User
    <3> HIDE DEF r
    <3>4. Becomes(u, r) BY <2>2, <3>2, <3>3, Shapes DEF Becomes, WayIn, Checked
    <3> QED BY <2>1, <3>1, <3>3, <3>4
  <2>3. CASE ~(Exists(u) /\ Unique(u, r) /\ Checked(r)) BY <1>11, <2>3 DEF SetEmail
  <2> QED BY <2>2, <2>3
<1>12. ASSUME NEW s \in Slots, UpdatePasswordHash(s) PROVE UNCHANGED users \/ Written
  <2> DEFINE u == work[s].user
             r == [users[u] EXCEPT !.password = work[s].password]
  <2>1. u \in Ids /\ work[s].password \in Passwords /\ HasAddress(u)
    BY <1>0, <1>12, RequestShapes DEF UpdatePasswordHash, WholeInv, SettingInv
  <2>2. CASE Exists(u)
    <3>1. users' = [users EXCEPT ![u] = r]
      BY <1>0, <1>12, <2>1, <2>2 DEF UpdatePasswordHash
    <3>2. users[u] \in User BY <1>0, <2>1, <2>2
    <3>3. r \in User /\ r.email = users[u].email /\ r.device = users[u].device
          /\ r.email # None /\ r.password # None
      BY <2>1, <2>2, <3>2 DEF User, HasAddress
    <3> HIDE DEF r
    <3>4. Unique(u, r) BY <2>1, <2>2, <3>3, SameIsUnique
    <3>5. Becomes(u, r) BY <3>2, <3>3, <3>4, Shapes DEF Becomes, WayIn
    <3> QED BY <2>1, <3>1, <3>3, <3>5
  <2>3. CASE ~Exists(u) BY <1>12, <2>3 DEF UpdatePasswordHash
  <2> QED BY <2>2, <2>3
<1>13. ASSUME NEW s \in Slots,
              \/ Issue(s) \/ LookAgain(s) \/ LockRow(s) \/ ClearOldCodes(s) \/ StoreCode(s)
              \/ Rollback(s) \/ DeadlockDetected(s) \/ StatementFails(s)
       PROVE  UNCHANGED users
  BY <1>13 DEF Issue, LookAgain, LockRow, ClearOldCodes, StoreCode, Rollback, DeadlockDetected,
     StatementFails, tables
<1>14. ASSUME NEW s \in Slots, NEW u \in Ids,
              \/ LoginMobile(s, u) \/ DeleteUser(s, u) \/ SendVerificationEmail(s, u)
              \/ \E p \in Passwords : Login(s, u, p) \/ \E q \in Passwords : ChangePassword(s, u, p, q)
              \/ \E e \in Emails : UpdateUser(s, u, e) \/ \E p \in Passwords : UpgradeAccount(s, u, e, p)
       PROVE  UNCHANGED users
  BY <1>14 DEF Login, LoginMobile, DeleteUser, SendVerificationEmail, ChangePassword, UpdateUser,
     UpgradeAccount, tables
<1>15. ASSUME NEW s \in Slots, \E k \in Codes : VerifyEmail(s, k) PROVE UNCHANGED users
  BY <1>15 DEF VerifyEmail
<1>16. ASSUME NEW k \in Codes, ExpireCode(k) PROVE UNCHANGED users
  BY <1>16 DEF ExpireCode
<1> QED
  BY <1>2, <1>3, <1>5, <1>7, <1>8, <1>9, <1>10, <1>11, <1>12, <1>13, <1>14, <1>15, <1>16
  DEF Next, Arrive, Serve

\* After a write the accounts are still distinct, each with a way in; an
\* address that is there stays; and only a delete makes an account go.
LEMMA UsersKeep ==
  ASSUME WholeInv, Next
  PROVE  /\ users' \in [Ids -> User \cup {Unissued, Gone}]
         /\ Unshared' /\ AlwaysAWayIn'
         /\ \A u \in Ids : HasAddress(u) => HasAddress(u)'
         /\ \A u \in Ids : Exists(u) /\ ~Exists(u)' => \E s \in Slots : Cascade(s) /\ work[s].user = u
         /\ \A u \in Ids : users'[u] = Unissued => users[u] = Unissued
<1>0. /\ users \in [Ids -> User \cup {Unissued, Gone}] /\ work \in [Slots -> Requested]
      /\ \A u \in Ids : Exists(u) <=> users[u] \in User
      /\ Unshared /\ AlwaysAWayIn
  BY Shapes DEF WholeInv, AccountsAreWhole, TypeOK, Exists
<1>1. CASE UNCHANGED users
  BY <1>0, <1>1 DEF Unshared, AlwaysAWayIn, Exists, HasAddress
<1>2. ASSUME NEW s \in Slots, Cascade(s)
      PROVE  /\ users' \in [Ids -> User \cup {Unissued, Gone}]
             /\ Unshared' /\ AlwaysAWayIn'
             /\ \A u \in Ids : HasAddress(u) => HasAddress(u)'
             /\ \A u \in Ids : Exists(u) /\ ~Exists(u)' => work[s].user = u
             /\ \A u \in Ids : users'[u] = Unissued => users[u] = Unissued
  <2>1. users' = [users EXCEPT ![work[s].user] = Gone] BY <1>2 DEF Cascade
  <2>2. \A u \in Ids : users'[u] = Gone \/ users'[u] = users[u] BY <1>0, <2>1
  <2>3. users' \in [Ids -> User \cup {Unissued, Gone}] BY <1>0, <2>1
  <2>4. \A u \in Ids : Exists(u)' => Exists(u) /\ users'[u] = users[u] BY <2>2 DEF Exists
  <2>5. Unshared' BY <1>0, <2>4 DEF Unshared
  <2>6. AlwaysAWayIn' BY <1>0, <2>4 DEF AlwaysAWayIn
  <2>7. \A u \in Ids : HasAddress(u) => HasAddress(u)' BY <2>2, <2>4, Shapes DEF HasAddress
  <2>8. \A u \in Ids : Exists(u) /\ ~Exists(u)' => work[s].user = u BY <1>0, <2>1 DEF Exists
  <2>9. \A u \in Ids : users'[u] = Unissued => users[u] = Unissued BY <2>2, Shapes
  <2> QED BY <2>3, <2>5, <2>6, <2>7, <2>8, <2>9
<1>3. ASSUME NEW u \in Ids, NEW r \in User, users' = [users EXCEPT ![u] = r], Becomes(u, r)
      PROVE  /\ users' \in [Ids -> User \cup {Unissued, Gone}]
             /\ Unshared' /\ AlwaysAWayIn'
             /\ \A v \in Ids : HasAddress(v) => HasAddress(v)'
             /\ \A v \in Ids : Exists(v) => Exists(v)'
             /\ \A v \in Ids : users'[v] = Unissued => users[v] = Unissued
  <2>1. \A v \in Ids : users'[v] = IF v = u THEN r ELSE users[v] BY <1>0, <1>3
  <2>2. users' \in [Ids -> User \cup {Unissued, Gone}] BY <1>0, <1>3
  <2>3. r # Unissued /\ r # Gone BY Shapes
  <2>4. \A v \in Ids \ {u} : Exists(v)' <=> Exists(v) BY <2>1 DEF Exists
  <2>5. Unshared'
    <3>1. \A v \in Ids \ {u} : Exists(v) =>
            /\ r.email # None => r.email # users[v].email
            /\ r.device # None => r.device # users[v].device
      BY <1>3 DEF Becomes, Unique
    <3> QED BY <1>0, <2>1, <2>4, <3>1 DEF Unshared
  <2>6. AlwaysAWayIn'
    BY <1>0, <1>3, <2>1, <2>4 DEF AlwaysAWayIn, Becomes, WayIn
  <2>7. \A v \in Ids : HasAddress(v) => HasAddress(v)'
    BY <1>3, <2>1, <2>3, <2>4 DEF HasAddress, Becomes, Exists
  <2>8. \A v \in Ids : Exists(v) => Exists(v)' BY <2>1, <2>3 DEF Exists
  <2>9. \A v \in Ids : users'[v] = Unissued => users[v] = Unissued BY <2>1, <2>3
  <2> QED BY <2>2, <2>5, <2>6, <2>7, <2>8, <2>9
<1> QED BY <1>1, <1>2, <1>3, UsersStep

\* Refresh tokens come and change only for an account that is there.
LEMMA RefreshStep ==
  ASSUME WholeInv, Next
  PROVE  /\ refresh' \in [Ids -> SUBSET {"live", "revoked"}]
         /\ \A u \in Ids : refresh'[u] = refresh[u] \/ Exists(u)
                           \/ \E s \in Slots : Cascade(s) /\ work[s].user = u
<1>0. /\ refresh \in [Ids -> SUBSET {"live", "revoked"}] /\ work \in [Slots -> Requested]
  BY DEF WholeInv, AccountsAreWhole, TypeOK
<1>1. CASE UNCHANGED refresh BY <1>0, <1>1
<1>2. ASSUME NEW s \in Slots, Issue(s)
      PROVE  UNCHANGED refresh \/ \E u \in Ids, x \in SUBSET {"live", "revoked"} :
                                    Exists(u) /\ refresh' = [refresh EXCEPT ![u] = x]
  <2>1. work[s].user \in Ids BY <1>0, <1>2, RequestShapes DEF Issue
  <2>2. refresh[work[s].user] \cup {"live"} \in SUBSET {"live", "revoked"} BY <1>0, <2>1
  <2> QED BY <1>2, <2>1, <2>2 DEF Issue
<1>3. ASSUME NEW s \in Slots, NEW u \in Ids, DeleteUser(s, u)
      PROVE  Exists(u) /\ refresh' = [refresh EXCEPT ![u] = {"revoked"}]
  BY <1>3 DEF DeleteUser, Signed
<1>4. ASSUME NEW s \in Slots, Cascade(s)
      PROVE  work[s].user \in Ids /\ refresh' = [refresh EXCEPT ![work[s].user] = {}]
  BY <1>0, <1>4, RequestShapes DEF Cascade
<1>5. ASSUME NEW s \in Slots,
             \/ RecordFailedLogin(s) \/ ResetFailedLogins(s) \/ LookAgain(s) \/ Upgrade(s)
             \/ SetEmail(s) \/ UpdatePasswordHash(s) \/ LockRow(s) \/ ClearOldCodes(s)
             \/ StoreCode(s) \/ Rollback(s) \/ MarkVerified(s) \/ DeadlockDetected(s)
             \/ StatementFails(s)
      PROVE  UNCHANGED refresh
  BY <1>5 DEF RecordFailedLogin, ResetFailedLogins, LookAgain, Upgrade, SetEmail, UpdatePasswordHash,
     LockRow, ClearOldCodes, StoreCode, Rollback, MarkVerified, DeadlockDetected, StatementFails, tables
<1>6. ASSUME NEW s \in Slots, Arrive(s)
      PROVE  UNCHANGED refresh \/ \E u \in Ids : DeleteUser(s, u)
  BY <1>6 DEF Arrive, Register, RegisterMobile, Insert, LoginMobile, SendVerificationEmail, Login,
     ChangePassword, UpdateUser, UpgradeAccount, VerifyEmail, tables
<1>7. ASSUME (\E u \in Ids : LockEnds(u)) \/ \E k \in Codes : ExpireCode(k)
      PROVE  UNCHANGED refresh
  BY <1>7 DEF LockEnds, ExpireCode
<1>8. ASSUME NEW u \in Ids, NEW x \in SUBSET {"live", "revoked"},
             refresh' = [refresh EXCEPT ![u] = x]
      PROVE  /\ refresh' \in [Ids -> SUBSET {"live", "revoked"}]
             /\ \A v \in Ids : refresh'[v] = refresh[v] \/ v = u
  BY <1>0, <1>8
<1>9. {"revoked"} \in SUBSET {"live", "revoked"} /\ {} \in SUBSET {"live", "revoked"} OBVIOUS
<1>10. \/ UNCHANGED refresh
       \/ \E u \in Ids, x \in SUBSET {"live", "revoked"} :
            /\ Exists(u) \/ \E s \in Slots : Cascade(s) /\ work[s].user = u
            /\ refresh' = [refresh EXCEPT ![u] = x]
  <2>1. CASE \E s \in Slots : Cascade(s) BY <1>4, <1>9, <2>1
  <2>2. CASE \E s \in Slots : Issue(s) BY <1>2, <2>2
  <2>3. CASE \E s \in Slots : Arrive(s) BY <1>3, <1>6, <1>9, <2>3
  <2> QED BY <2>1, <2>2, <2>3, <1>5, <1>7 DEF Next, Serve
<1> QED BY <1>1, <1>8, <1>10

\* A code comes for an account that is there, keeps it, and goes only when
\* nobody has locked it, or by its own verification.
LEMMA CodesStep ==
  ASSUME WholeInv, Next
  PROVE  /\ codes' \in [Codes -> Code \cup {Unissued, Gone}]
         /\ \A k \in Codes :
              /\ IsCode(k) /\ IsCode(k)' => codes'[k].user = codes[k].user
              /\ IsCode(k)' /\ ~IsCode(k) => Exists(codes'[k].user) /\ UNCHANGED users
              /\ IsCode(k) /\ ~IsCode(k)' =>
                   k \notin held \/ \E s \in Slots : MarkVerified(s) /\ work[s].code = k
<1>0. /\ codes \in [Codes -> Code \cup {Unissued, Gone}] /\ work \in [Slots -> Requested]
      /\ \A k \in Codes : IsCode(k) <=> codes[k] \in Code
  BY Shapes DEF WholeInv, AccountsAreWhole, TypeOK, IsCode
<1> DEFINE Fine ==
      /\ codes' \in [Codes -> Code \cup {Unissued, Gone}]
      /\ \A k \in Codes :
           /\ IsCode(k) /\ IsCode(k)' => codes'[k].user = codes[k].user
           /\ IsCode(k)' /\ ~IsCode(k) => Exists(codes'[k].user) /\ UNCHANGED users
           /\ IsCode(k) /\ ~IsCode(k)' =>
                k \notin held \/ \E s \in Slots : MarkVerified(s) /\ work[s].code = k
<1>1. ASSUME UNCHANGED codes PROVE Fine BY <1>0, <1>1 DEF IsCode
<1>2. ASSUME NEW u, CodesOf(u) \cap held = {},
             codes' = [k \in Codes |-> IF k \in CodesOf(u) THEN Gone ELSE codes[k]]
      PROVE  Fine
  <2>1. codes' \in [Codes -> Code \cup {Unissued, Gone}] BY <1>0, <1>2
  <2>2. \A k \in Codes : codes'[k] = codes[k] \/ (codes'[k] = Gone /\ k \notin held) BY <1>2
  <2> QED BY <2>1, <2>2 DEF IsCode
<1>3. ASSUME NEW s \in Slots, Cascade(s) \/ ClearOldCodes(s) PROVE Fine
  BY <1>2, <1>3 DEF Cascade, ClearOldCodes
<1>4. ASSUME NEW s \in Slots, StoreCode(s) PROVE Fine
  <2>1. CASE Exists(work[s].user)
    <3> DEFINE c == [user |-> work[s].user, email |-> work[s].email, expired |-> FALSE]
    <3>1. PICK k \in NewCode : codes' = [codes EXCEPT ![k] = c] BY <1>4, <2>1 DEF StoreCode
    <3>2. k \in Codes /\ codes[k] = Unissued BY DEF NewCode, First
    <3>3. c \in Code /\ c.user = work[s].user
      BY <1>0, <1>4, RequestShapes DEF StoreCode, Code
    <3>4. UNCHANGED users BY <1>4 DEF StoreCode
    <3> HIDE DEF c
    <3>5. codes' \in [Codes -> Code \cup {Unissued, Gone}] BY <1>0, <3>1, <3>2, <3>3
    <3>6. \A j \in Codes : codes'[j] = IF j = k THEN c ELSE codes[j] BY <1>0, <3>1
    <3> QED BY <2>1, <3>2, <3>3, <3>4, <3>5, <3>6, Shapes DEF IsCode
  <2>2. CASE ~Exists(work[s].user) BY <1>1, <1>4, <2>2 DEF StoreCode
  <2> QED BY <2>1, <2>2
<1>5. ASSUME NEW s \in Slots, MarkVerified(s) PROVE Fine
  <2>1. codes' = [codes EXCEPT ![work[s].code] = Gone] BY <1>5 DEF MarkVerified
  <2>2. \A k \in Codes : codes'[k] = codes[k] \/ (codes'[k] = Gone /\ k = work[s].code)
    BY <1>0, <2>1
  <2>3. codes' \in [Codes -> Code \cup {Unissued, Gone}] BY <1>0, <2>1
  <2> QED BY <1>5, <2>2, <2>3 DEF IsCode
<1>6. ASSUME NEW k \in Codes, ExpireCode(k) PROVE Fine
  <2> DEFINE c == [codes[k] EXCEPT !.expired = TRUE]
  <2>1. codes' = [codes EXCEPT ![k] = c] /\ codes[k] \in Code BY <1>0, <1>6 DEF ExpireCode
  <2>2. c \in Code /\ c.user = codes[k].user BY <2>1 DEF Code
  <2> HIDE DEF c
  <2>3. codes' \in [Codes -> Code \cup {Unissued, Gone}] BY <1>0, <2>1, <2>2
  <2>4. \A j \in Codes : codes'[j] = IF j = k THEN c ELSE codes[j] BY <1>0, <2>1
  <2> QED BY <1>0, <2>1, <2>2, <2>3, <2>4, Shapes DEF IsCode
<1>7. ASSUME NEW s \in Slots,
             \/ RecordFailedLogin(s) \/ ResetFailedLogins(s) \/ Issue(s) \/ LookAgain(s) \/ Upgrade(s)
             \/ SetEmail(s) \/ UpdatePasswordHash(s) \/ LockRow(s) \/ Rollback(s)
             \/ DeadlockDetected(s) \/ StatementFails(s) \/ Arrive(s)
      PROVE  UNCHANGED codes
  BY <1>7 DEF RecordFailedLogin, ResetFailedLogins, Issue, LookAgain, Upgrade, SetEmail,
     UpdatePasswordHash, LockRow, Rollback, DeadlockDetected, StatementFails, tables,
     Arrive, Register, RegisterMobile, Insert, LoginMobile, DeleteUser, SendVerificationEmail, Login,
     ChangePassword, UpdateUser, UpgradeAccount, VerifyEmail
<1>8. ASSUME NEW u \in Ids, LockEnds(u) PROVE UNCHANGED codes BY <1>8 DEF LockEnds
<1> QED BY <1>1, <1>3, <1>4, <1>5, <1>6, <1>7, <1>8 DEF Next, Serve

\* The codes held after a request has left its stage.
Left(s) == IF work[s].at = "mark" THEN held \ {work[s].code} ELSE held

\* How a request may get to its next stage, and leave the one it is in.
Allowed(s, w) ==
  /\ w.at \notin {"mark", "password"}
  /\ w.at = "upgrade" => Exists(w.user) /\ MobileOnly(users[w.user])
  /\ w.at = "fail" => \E u \in Ids, p \in Passwords : Login(s, u, p)
  /\ work[s].at = "fail" => RecordFailedLogin(s) \/ StatementFails(s)

\* One request at a time goes on, and lets go of the code it held.
Moves(s, w) ==
  /\ w \in Requested /\ Allowed(s, w)
  /\ work' = [work EXCEPT ![s] = w] /\ held' = Left(s)

\* One request moves at a time: of those whose next stage matters here, a
\* verification and a change of password begin as their actions say.
LEMMA WorkStep ==
  ASSUME WholeInv, Next
  PROVE  \/ UNCHANGED <<work, held>>
         \/ \E s \in Slots, w \in Requested : Moves(s, w)
         \/ \E s \in Slots, k \in Codes : VerifyEmail(s, k)
         \/ \E s \in Slots, u \in Ids, p, q \in Passwords : ChangePassword(s, u, p, q)
<1>0. work \in [Slots -> Requested]
  BY DEF WholeInv, AccountsAreWhole, TypeOK
<1>1. /\ Free \in Requested /\ Free.at = "free"
      /\ \A u \in Ids, a \in {"issue", "reset", "fail", "delete", "cascade"} :
           [at |-> a, user |-> u] \in Requested
      /\ \A u \in Ids, e \in Emails, a \in {"email", "clear", "store"} :
           [at |-> a, user |-> u, email |-> e] \in Requested
      /\ \A u \in Ids, e \in Emails, p \in Passwords :
           [at |-> "look", user |-> u, email |-> e, password |-> p] \in Requested
  BY DEF Requested, Free
<1>2. ASSUME NEW s \in Slots, NEW w, Begin(s, w), UNCHANGED held, w \in Requested,
             w.at \notin {"mark", "password", "upgrade"},
             w.at = "fail" => \E u \in Ids, p \in Passwords : Login(s, u, p)
      PROVE  Moves(s, w)
  <2>1. Left(s) = held /\ work[s].at # "fail" BY <1>1, <1>2 DEF Begin, Left
  <2> QED BY <1>2, <2>1 DEF Begin, Moves, Allowed
<1>3. ASSUME NEW s \in Slots, NEW w, Go(s, w), held' = Left(s), w \in Requested, Allowed(s, w)
      PROVE  Moves(s, w)
  BY <1>3 DEF Go, Moves
<1>4. ASSUME NEW s \in Slots, Answer(s), held' = Left(s),
             work[s].at = "fail" => RecordFailedLogin(s) \/ StatementFails(s)
      PROVE  Moves(s, Free)
  BY <1>1, <1>3, <1>4 DEF Answer, Allowed
<1>5. ASSUME NEW s \in Slots, NEW u \in Ids,
             \/ LoginMobile(s, u) \/ DeleteUser(s, u)
             \/ \E p \in Passwords : Login(s, u, p)
      PROVE  \E w \in Requested : Moves(s, w)
  <2>1. UNCHANGED held BY <1>5 DEF LoginMobile, DeleteUser, Login, tables
  <2>2. \E a \in {"reset", "fail", "delete"} :
          /\ Begin(s, [at |-> a, user |-> u])
          /\ a = "fail" => \E p \in Passwords : Login(s, u, p)
    BY <1>5 DEF LoginMobile, DeleteUser, Login
  <2> QED BY <1>1, <1>2, <2>1, <2>2
<1>6. ASSUME NEW s \in Slots, NEW u \in Ids, SendVerificationEmail(s, u)
      PROVE  \E w \in Requested : Moves(s, w)
  <2>1. users[u].email \in Emails
    BY <1>6 DEF SendVerificationEmail, Signed, Exists, WholeInv, AccountsAreWhole, TypeOK, User
  <2>2. UNCHANGED held /\ Begin(s, [at |-> "clear", user |-> u, email |-> users[u].email])
    BY <1>6 DEF SendVerificationEmail, tables
  <2> QED BY <1>1, <1>2, <2>1, <2>2
<1>7. ASSUME NEW s \in Slots, NEW u \in Ids, NEW e \in Emails,
             UpdateUser(s, u, e) \/ \E p \in Passwords : UpgradeAccount(s, u, e, p)
      PROVE  \E w \in Requested : Moves(s, w)
  <2>1. UNCHANGED held BY <1>7 DEF UpdateUser, UpgradeAccount, tables
  <2>2. \/ Begin(s, [at |-> "email", user |-> u, email |-> e])
        \/ \E p \in Passwords : Begin(s, [at |-> "look", user |-> u, email |-> e, password |-> p])
    BY <1>7 DEF UpdateUser, UpgradeAccount
  <2> QED BY <1>1, <1>2, <2>1, <2>2
<1>8. ASSUME NEW s \in Slots, NEW r, Insert(s, r)
      PROVE  \E w \in Requested : Moves(s, w)
  <2>1. PICK u \in NewId : Begin(s, [at |-> "issue", user |-> u]) /\ UNCHANGED held
    BY <1>8 DEF Insert
  <2>2. u \in Ids BY DEF NewId, First
  <2> QED BY <1>1, <1>2, <2>1, <2>2
<1>9. ASSUME NEW s \in Slots,
             \/ RecordFailedLogin(s) \/ Issue(s) \/ Upgrade(s) \/ SetEmail(s)
             \/ UpdatePasswordHash(s) \/ Cascade(s) \/ StoreCode(s) \/ Rollback(s)
             \/ MarkVerified(s) \/ DeadlockDetected(s)
      PROVE  Moves(s, Free)
  <2>1. Answer(s)
    BY <1>9 DEF RecordFailedLogin, Issue, Upgrade, SetEmail, UpdatePasswordHash, Cascade, StoreCode,
       Rollback, MarkVerified, DeadlockDetected
  <2>2. held' = Left(s)
    BY <1>9 DEF RecordFailedLogin, Issue, Upgrade, SetEmail, UpdatePasswordHash, Cascade, StoreCode,
       Rollback, MarkVerified, DeadlockDetected, Left, tables
  <2>3. DeadlockDetected(s) => work[s].at \in {"mark", "cascade"} BY DEF DeadlockDetected
  <2>4. work[s].at # "fail" \/ RecordFailedLogin(s)
    BY <1>9, <2>3 DEF Issue, Upgrade, SetEmail, UpdatePasswordHash, Cascade, StoreCode, Rollback,
       MarkVerified
  <2> QED BY <1>4, <2>1, <2>2, <2>4
<1>10. ASSUME NEW s \in Slots, ResetFailedLogins(s)
       PROVE  \E w \in Requested : Moves(s, w)
  <2>1. work[s].user \in Ids /\ held' = Left(s)
    BY <1>0, <1>10, RequestShapes DEF ResetFailedLogins, Left
  <2>2. Go(s, [at |-> "issue", user |-> work[s].user]) /\ work[s].at # "fail"
    BY <1>10 DEF ResetFailedLogins
  <2> QED BY <1>1, <1>3, <2>1, <2>2 DEF Allowed
<1>11. ASSUME NEW s \in Slots, LookAgain(s)
       PROVE  \E w \in Requested : Moves(s, w)
  <2> DEFINE w == [work[s] EXCEPT !.at = "upgrade"]
  <2>1. held' = Left(s) BY <1>11 DEF LookAgain, Left, tables
  <2>2. work[s] \in [at : {"look", "upgrade"}, user : Ids, email : Emails, password : Passwords]
    BY <1>0, <1>11 DEF LookAgain, Requested, Free
  <2>3. w \in Requested /\ w.at = "upgrade" /\ w.user = work[s].user BY <2>2 DEF Requested
  <2>4. /\ Answer(s) \/ (Go(s, w) /\ Exists(work[s].user) /\ MobileOnly(users[work[s].user]))
        /\ work[s].at # "fail"
    BY <1>11 DEF LookAgain
  <2> HIDE DEF w
  <2> QED BY <1>1, <1>3, <1>4, <2>1, <2>3, <2>4 DEF Allowed
<1>12. ASSUME NEW s \in Slots, LockRow(s)
       PROVE  \E w \in Requested : Moves(s, w)
  <2>1. work[s].user \in Ids /\ held' = Left(s)
    BY <1>0, <1>12, RequestShapes DEF LockRow, Left, tables
  <2>2. Go(s, [at |-> "cascade", user |-> work[s].user]) \/ Answer(s) BY <1>12 DEF LockRow
  <2>3. work[s].at # "fail" BY <1>12 DEF LockRow
  <2> QED BY <1>1, <1>3, <1>4, <2>1, <2>2, <2>3 DEF Allowed
<1>13. ASSUME NEW s \in Slots, ClearOldCodes(s)
       PROVE  \E w \in Requested : Moves(s, w)
  <2> DEFINE w == [work[s] EXCEPT !.at = "store"]
  <2>1. held' = Left(s) BY <1>13 DEF ClearOldCodes, Left
  <2>2. work[s] \in [at : {"email", "clear", "store"}, user : Ids, email : Emails]
    BY <1>0, <1>13 DEF ClearOldCodes, Requested, Free
  <2>3. w \in Requested /\ w.at = "store" BY <2>2 DEF Requested
  <2>4. Go(s, w) /\ work[s].at # "fail" BY <1>13 DEF ClearOldCodes
  <2> HIDE DEF w
  <2> QED BY <1>3, <2>1, <2>3, <2>4 DEF Allowed
<1>14. ASSUME NEW s \in Slots, StatementFails(s)
       PROVE  \E w \in Requested : Moves(s, w)
  <2>1. held' = Left(s) BY <1>14 DEF StatementFails, Left
  <2>2. CASE work[s].at # "reset" BY <1>1, <1>4, <1>14, <2>1, <2>2 DEF StatementFails
  <2>3. CASE work[s].at = "reset"
    <3> DEFINE w == [work[s] EXCEPT !.at = "issue"]
    <3>1. work[s] \in [at : {"issue", "reset", "fail", "delete", "cascade"}, user : Ids]
      BY <1>0, <2>3 DEF Requested, Free
    <3>2. w \in Requested /\ w.at = "issue" BY <3>1 DEF Requested
    <3>3. Go(s, w) BY <1>14, <2>3 DEF StatementFails
    <3> HIDE DEF w
    <3> QED BY <1>3, <2>1, <2>3, <3>2, <3>3 DEF Allowed
  <2> QED BY <2>2, <2>3
<1>15. ASSUME (\E u \in Ids : LockEnds(u)) \/ \E k \in Codes : ExpireCode(k)
       PROVE  UNCHANGED <<work, held>>
  BY <1>15 DEF LockEnds, ExpireCode
<1>16. ASSUME NEW s \in Slots, Serve(s) PROVE \E w \in Requested : Moves(s, w)
  BY <1>1, <1>9, <1>10, <1>11, <1>12, <1>13, <1>16 DEF Serve
<1>17. ASSUME NEW s \in Slots, Arrive(s)
       PROVE  \/ \E w \in Requested : Moves(s, w)
              \/ \E k \in Codes : VerifyEmail(s, k)
              \/ \E u \in Ids, p, q \in Passwords : ChangePassword(s, u, p, q)
  BY <1>5, <1>6, <1>7, <1>8, <1>17 DEF Arrive, Register, RegisterMobile
<1> QED BY <1>14, <1>15, <1>16, <1>17 DEF Next

\* A code that is being marked is the request's alone, and there.
LEMMA HeldKeeps ==
  ASSUME WholeInv, Next
  PROVE  work' \in [Slots -> Requested] /\ held' \subseteq Codes /\ HeldInv'
<1>0. /\ work \in [Slots -> Requested] /\ held \subseteq Codes /\ HeldInv
      /\ \A s \in Slots : work[s].at = "mark" => work[s].code \in Codes
  BY RequestShapes DEF WholeInv, AccountsAreWhole, TypeOK
<1>1. ASSUME NEW s \in Slots, NEW k \in Codes, work[s].at = "mark", work[s].code = k,
             work'[s].at = "mark"
      PROVE  IsCode(k)'
  <2>1. k \in held /\ IsCode(k)
    BY <1>0, <1>1 DEF HeldInv
  <2>2. ~ \E q \in Slots : MarkVerified(q) /\ work[q].code = k
    <3>1. SUFFICES ASSUME NEW q \in Slots, MarkVerified(q), work[q].code = k PROVE FALSE
      OBVIOUS
    <3>2. q = s BY <1>0, <1>1, <3>1 DEF HeldInv, MarkVerified
    <3>3. work'[s] = Free BY <1>0, <3>1, <3>2 DEF MarkVerified, Answer, Go
    <3> QED BY <1>1, <3>3 DEF Free
  <2> QED BY <2>1, <2>2, CodesStep
<1>2. CASE UNCHANGED <<work, held>>
  <2>1. \A s \in Slots : work[s].at = "mark" => IsCode(work[s].code)' BY <1>0, <1>1, <1>2
  <2> QED BY <1>0, <1>2, <2>1 DEF HeldInv
<1>3. ASSUME NEW s \in Slots, NEW w \in Requested, Moves(s, w)
      PROVE  work' \in [Slots -> Requested] /\ held' \subseteq Codes /\ HeldInv'
  <2>1. \A q \in Slots : work'[q] = IF q = s THEN w ELSE work[q] BY <1>0, <1>3 DEF Moves
  <2>2. work' \in [Slots -> Requested] BY <1>0, <1>3 DEF Moves
  <2>3. held' \subseteq held BY <1>3 DEF Moves, Left
  <2>4. ASSUME NEW q \in Slots, work'[q].at = "mark"
        PROVE  q # s /\ work'[q] = work[q] /\ work[q].code \in held' /\ IsCode(work[q].code)'
    <3>1. q # s /\ work'[q] = work[q] BY <1>3, <2>1, <2>4 DEF Moves, Allowed
    <3>2. work[q].code \in held' BY <1>0, <1>3, <2>4, <3>1 DEF HeldInv, Moves, Left
    <3> QED BY <1>0, <1>1, <2>4, <3>1, <3>2
  <2>5. HeldInv' BY <1>0, <2>4 DEF HeldInv
  <2> QED BY <1>0, <2>2, <2>3, <2>5
<1>4. ASSUME NEW s \in Slots, NEW k \in Codes, VerifyEmail(s, k)
      PROVE  work' \in [Slots -> Requested] /\ held' \subseteq Codes /\ HeldInv'
  <2> DEFINE w == [at |-> "mark", code |-> k]
  <2>1. /\ work' = [work EXCEPT ![s] = w] /\ held' = held \cup {k} /\ k \notin held /\ IsCode(k)
        /\ UNCHANGED codes
    BY <1>4 DEF VerifyEmail, Begin
  <2>2. w \in Requested /\ w.at = "mark" /\ w.code = k BY DEF Requested
  <2> HIDE DEF w
  <2>3. \A q \in Slots : work'[q] = IF q = s THEN w ELSE work[q] BY <1>0, <2>1
  <2>4. work' \in [Slots -> Requested] BY <1>0, <2>1, <2>2
  <2>5. \A j \in Codes : IsCode(j)' <=> IsCode(j) BY <2>1 DEF IsCode
  <2>6. HeldInv' BY <1>0, <2>1, <2>2, <2>3, <2>5 DEF HeldInv
  <2> QED BY <1>0, <2>1, <2>4, <2>6
<1>5. ASSUME NEW s \in Slots, NEW u \in Ids, NEW p \in Passwords, NEW q \in Passwords,
             ChangePassword(s, u, p, q)
      PROVE  work' \in [Slots -> Requested] /\ held' \subseteq Codes /\ HeldInv'
  <2> DEFINE w == [at |-> "password", user |-> u, password |-> q]
  <2>1. work' = [work EXCEPT ![s] = w] /\ UNCHANGED <<held, codes>>
    BY <1>5 DEF ChangePassword, Begin, tables
  <2>2. w \in Requested /\ w.at # "mark" BY DEF Requested
  <2> HIDE DEF w
  <2>3. \A t \in Slots : work'[t] = IF t = s THEN w ELSE work[t] BY <1>0, <2>1
  <2>4. work' \in [Slots -> Requested] BY <1>0, <2>1, <2>2
  <2>5. \A j \in Codes : IsCode(j)' <=> IsCode(j) BY <2>1 DEF IsCode
  <2>6. HeldInv' BY <1>0, <2>1, <2>2, <2>3, <2>5 DEF HeldInv
  <2> QED BY <1>0, <2>1, <2>4, <2>6
<1> QED BY <1>2, <1>3, <1>4, <1>5, WorkStep

\* Who sets a password has an address.
LEMMA SettingKeeps ==
  ASSUME WholeInv, Next
  PROVE  SettingInv'
<1>0. /\ work \in [Slots -> Requested] /\ SettingInv
      /\ \A s \in Slots : work[s].at = "password" => work[s].user \in Ids
  BY RequestShapes DEF WholeInv, AccountsAreWhole, TypeOK
<1>1. \A s \in Slots, u \in Ids : work[s].at = "password" /\ work[s].user = u => HasAddress(u)'
  BY <1>0, UsersKeep DEF SettingInv
<1>2. CASE UNCHANGED <<work, held>>
  BY <1>0, <1>1, <1>2 DEF SettingInv
<1>3. ASSUME NEW s \in Slots, NEW w \in Requested, Moves(s, w) PROVE SettingInv'
  <2>1. \A q \in Slots : work'[q].at = "password" => work'[q] = work[q] BY <1>0, <1>3 DEF Moves, Allowed
  <2> QED BY <1>0, <1>1, <2>1 DEF SettingInv
<1>4. ASSUME NEW s \in Slots, NEW k \in Codes, VerifyEmail(s, k) PROVE SettingInv'
  <2>1. \A q \in Slots : work'[q].at = "password" => work'[q] = work[q]
    BY <1>0, <1>4 DEF VerifyEmail, Begin
  <2> QED BY <1>0, <1>1, <2>1 DEF SettingInv
<1>5. ASSUME NEW s \in Slots, NEW u \in Ids, NEW p \in Passwords, NEW q \in Passwords,
             ChangePassword(s, u, p, q)
      PROVE  SettingInv'
  <2>1. Exists(u) /\ users[u].password # None /\ UNCHANGED users
    BY <1>5 DEF ChangePassword, Signed, tables
  <2>2. HasAddress(u)'
    BY <2>1 DEF WholeInv, AccountsAreWhole, AlwaysAWayIn, MobileOnly, HasAddress, Exists
  <2>3. \A t \in Slots : work'[t].at = "password" => work'[t] = work[t] \/ work'[t].user = u
    BY <1>0, <1>5 DEF ChangePassword, Begin
  <2> QED BY <1>0, <1>1, <2>2, <2>3 DEF SettingInv
<1> QED BY <1>2, <1>3, <1>4, <1>5, WorkStep

\* A delete leaves nothing, and nothing comes after it.
LEMMA DeletedKeeps ==
  ASSUME WholeInv, Next
  PROVE  DeletedLeavesNothing'
<1>0. /\ codes \in [Codes -> Code \cup {Unissued, Gone}] /\ refresh \in [Ids -> SUBSET {"live", "revoked"}]
      /\ work \in [Slots -> Requested] /\ DeletedLeavesNothing
  BY DEF WholeInv, AccountsAreWhole, TypeOK
<1> SUFFICES ASSUME NEW u \in Ids, ~Exists(u)' PROVE refresh'[u] = {} /\ CodesOf(u)' = {}
  BY DEF DeletedLeavesNothing
<1>1. CASE \E s \in Slots : Cascade(s) /\ work[s].user = u
  <2>1. /\ refresh' = [refresh EXCEPT ![u] = {}]
        /\ codes' = [k \in Codes |-> IF k \in CodesOf(u) THEN Gone ELSE codes[k]]
    BY <1>1 DEF Cascade
  <2>2. \A k \in Codes : codes'[k] \in {Unissued, Gone} \/ codes'[k].user # u
    BY <2>1 DEF CodesOf, IsCode
  <2> QED BY <1>0, <2>1, <2>2 DEF CodesOf, IsCode
<1>2. CASE ~ \E s \in Slots : Cascade(s) /\ work[s].user = u
  <2>1. ~Exists(u) BY <1>2, UsersKeep
  <2>2. refresh[u] = {} /\ CodesOf(u) = {} BY <1>0, <2>1 DEF DeletedLeavesNothing
  <2>3. refresh'[u] = {} BY <1>2, <2>1, <2>2, RefreshStep
  <2>4. ASSUME NEW k \in Codes, IsCode(k)', codes'[k].user = u PROVE FALSE
    <3>1. CASE IsCode(k) BY <2>2, <2>4, <3>1, CodesStep DEF CodesOf
    <3>2. CASE ~IsCode(k) BY <2>1, <2>4, <3>2, CodesStep
    <3> QED BY <3>1, <3>2
  <2> QED BY <2>3, <2>4 DEF CodesOf
<1> QED BY <1>1, <1>2

\* The bounds of the counters.
LEMMA CountersKeep ==
  ASSUME requests \in 0..MaxRequests, faults \in 0..MaxFaults, Next
  PROVE  requests' \in 0..MaxRequests /\ faults' \in 0..MaxFaults
<1>1. ASSUME NEW s \in Slots, NEW w, Begin(s, w) PROVE requests' \in 0..MaxRequests
  BY <1>1 DEF Begin
<1>2. ASSUME NEW s \in Slots, NEW w, Go(s, w) PROVE requests' \in 0..MaxRequests
  BY <1>2 DEF Go
<1>3. ASSUME NEW s \in Slots, Arrive(s) PROVE requests' \in 0..MaxRequests /\ UNCHANGED faults
  <2>1. requests' \in 0..MaxRequests
    BY <1>1, <1>3 DEF Arrive, Register, RegisterMobile, Insert, LoginMobile, DeleteUser,
       SendVerificationEmail, Login, ChangePassword, UpdateUser, UpgradeAccount, VerifyEmail
  <2>2. UNCHANGED faults
    BY <1>3 DEF Arrive, Register, RegisterMobile, Insert, LoginMobile, DeleteUser,
       SendVerificationEmail, Login, ChangePassword, UpdateUser, UpgradeAccount, VerifyEmail
  <2> QED BY <2>1, <2>2
<1>4. ASSUME NEW s \in Slots, Serve(s) PROVE requests' \in 0..MaxRequests /\ UNCHANGED faults
  <2>1. requests' \in 0..MaxRequests
    BY <1>2, <1>4 DEF Serve, Answer, RecordFailedLogin, ResetFailedLogins, Issue, LookAgain, Upgrade,
       SetEmail, UpdatePasswordHash, LockRow, Cascade, ClearOldCodes, StoreCode, Rollback,
       MarkVerified, DeadlockDetected
  <2>2. UNCHANGED faults
    BY <1>4 DEF Serve, RecordFailedLogin, ResetFailedLogins, Issue, LookAgain, Upgrade,
       SetEmail, UpdatePasswordHash, LockRow, Cascade, ClearOldCodes, StoreCode, Rollback,
       MarkVerified, DeadlockDetected
  <2> QED BY <2>1, <2>2
<1>5. ASSUME NEW s \in Slots, StatementFails(s)
      PROVE  requests' \in 0..MaxRequests /\ faults' \in 0..MaxFaults
  BY <1>2, <1>5 DEF StatementFails, Answer
<1>6. ASSUME (\E u \in Ids : LockEnds(u)) \/ \E k \in Codes : ExpireCode(k)
      PROVE  requests' \in 0..MaxRequests /\ faults' \in 0..MaxFaults
  BY <1>6 DEF LockEnds, ExpireCode
<1> QED BY <1>3, <1>4, <1>5, <1>6 DEF Next

\* What is known of accounts and requests in every reachable state.
LEMMA WholeInvariant == Spec => []WholeInv
<1>1. Init => WholeInv
  BY DEF Init, WholeInv, AccountsAreWhole, TypeOK, Unshared, AlwaysAWayIn, DeletedLeavesNothing,
     HeldInv, SettingInv, Exists, CodesOf, IsCode, Requested, Free
<1>2. WholeInv /\ [Next]_vars => WholeInv'
  <2>1. ASSUME WholeInv, UNCHANGED vars PROVE WholeInv'
    BY <2>1 DEF vars, tables, WholeInv, AccountsAreWhole, TypeOK, Unshared, AlwaysAWayIn,
       DeletedLeavesNothing, HeldInv, SettingInv, HasAddress, Exists, CodesOf, IsCode, MobileOnly
  <2>2. ASSUME WholeInv, Next PROVE WholeInv'
    <3>1. requests \in 0..MaxRequests /\ faults \in 0..MaxFaults
      BY <2>2 DEF WholeInv, AccountsAreWhole, TypeOK
    <3>2. TypeOK' BY <2>2, <3>1, UsersKeep, RefreshStep, CodesStep, HeldKeeps, CountersKeep DEF TypeOK
    <3> QED BY <2>2, <3>2, UsersKeep, HeldKeeps, SettingKeeps, DeletedKeeps DEF WholeInv, AccountsAreWhole
  <2> QED BY <2>1, <2>2
<1> QED BY <1>1, <1>2, PTL DEF Spec

-----------------------------------------------------------------------------
(* A device account is upgraded once.  Of the two looks at the account, the *)
(* second is behind every write but those it ran into: an account that has  *)
(* been upgraded alone has an address, and no upgrade of it is under way.   *)

UpgradeInv ==
  /\ upgraded \in [Ids -> Nat]
  /\ \A u \in Ids \ together :
       /\ upgraded[u] <= 1
       /\ upgraded[u] = 1 =>
            /\ HasAddress(u)
            /\ \A s \in Slots : ~(work[s].at = "upgrade" /\ work[s].user = u)

\* An upgrade comes to its write only for a device account.
LEMMA UpgradeStage ==
  ASSUME WholeInv, Next, NEW s \in Slots, work'[s].at = "upgrade"
  PROVE  \/ work'[s] = work[s]
         \/ Exists(work'[s].user) /\ users[work'[s].user].email = None
<1>0. work \in [Slots -> Requested] BY DEF WholeInv, AccountsAreWhole, TypeOK
<1>1. CASE UNCHANGED <<work, held>> BY <1>1
<1>2. ASSUME NEW q \in Slots, NEW w \in Requested, Moves(q, w)
      PROVE  work'[s] = work[s] \/ (Exists(work'[s].user) /\ users[work'[s].user].email = None)
  <2>1. work'[s] = IF s = q THEN w ELSE work[s] BY <1>0, <1>2 DEF Moves
  <2> QED BY <1>2, <2>1 DEF Moves, Allowed, MobileOnly
<1>3. ASSUME NEW q \in Slots, NEW k \in Codes, VerifyEmail(q, k) PROVE work'[s] = work[s]
  BY <1>0, <1>3 DEF VerifyEmail, Begin
<1>4. ASSUME NEW q \in Slots, NEW u \in Ids, NEW p \in Passwords, NEW p2 \in Passwords,
             ChangePassword(q, u, p, p2)
      PROVE  work'[s] = work[s]
  BY <1>0, <1>4 DEF ChangePassword, Begin
<1> QED BY <1>1, <1>2, <1>3, <1>4, WorkStep

\* Every step keeps what is known of upgrades.
LEMMA UpgradeKeeps ==
  ASSUME WholeInv, UpgradeInv, Next
  PROVE  UpgradeInv'
<1>0. /\ work \in [Slots -> Requested] /\ users \in [Ids -> User \cup {Unissued, Gone}]
      /\ upgraded \in [Ids -> Nat]
      /\ \A u \in Ids : HasAddress(u) => HasAddress(u)'
  BY UsersKeep DEF WholeInv, AccountsAreWhole, TypeOK, UpgradeInv
<1>1. CASE UNCHANGED <<upgraded, together>>
  <2> SUFFICES ASSUME NEW u \in Ids \ together, upgraded[u] = 1
               PROVE  /\ HasAddress(u)'
                      /\ \A s \in Slots : ~(work'[s].at = "upgrade" /\ work'[s].user = u)
    BY <1>0, <1>1 DEF UpgradeInv
  <2>1. HasAddress(u) /\ \A s \in Slots : ~(work[s].at = "upgrade" /\ work[s].user = u)
    BY DEF UpgradeInv
  <2>2. HasAddress(u)' BY <1>0, <2>1
  <2>3. ASSUME NEW s \in Slots, work'[s].at = "upgrade", work'[s].user = u PROVE FALSE
    BY <2>1, <2>3, UpgradeStage DEF HasAddress
  <2> QED BY <2>2, <2>3
<1>2. ASSUME NEW s \in Slots, Upgrade(s), ~UNCHANGED <<upgraded, together>> PROVE UpgradeInv'
  <2>0. work[s].user \in Ids /\ work[s].email \in Emails
    BY <1>0, <1>2, RequestShapes DEF Upgrade
  <2>1. PICK u \in Ids : u = work[s].user BY <2>0
  <2> DEFINE r == [users[u] EXCEPT !.email = work[s].email, !.password = work[s].password]
  <2>2. /\ Exists(u) /\ users' = [users EXCEPT ![u] = r]
        /\ upgraded' = [upgraded EXCEPT ![u] = upgraded[u] + 1]
        /\ together' = IF \E q \in Slots \ {s} : work[q].at = "upgrade" /\ work[q].user = u
                       THEN together \cup {u} ELSE together
        /\ work' = [work EXCEPT ![s] = Free]
        /\ work[s].at = "upgrade"
    BY <1>2, <2>1 DEF Upgrade, Answer, Go
  <2>3. users[u] \in User BY <1>0, <2>1, <2>2 DEF Exists
  <2>4. r.email # None BY <2>0, <2>3, NullAssumption DEF User
  <2> HIDE DEF r
  <2>5. HasAddress(u)'
    <3>1. HasAddress(u) \/ users'[u] = r BY <1>0, <2>1, <2>2
    <3>2. users'[u] # Unissued BY <2>1, <2>3, Shapes, UsersKeep
    <3> QED BY <1>0, <2>1, <2>4, <3>1, <3>2 DEF HasAddress
  <2>6. upgraded' \in [Ids -> Nat] /\ upgraded[u] \in Nat /\ upgraded'[u] = upgraded[u] + 1
        /\ \A v \in Ids \ {u} : upgraded'[v] = upgraded[v]
    BY <1>0, <2>1, <2>2
  <2>7. \A q \in Slots : work'[q].at = "upgrade" => q # s /\ work'[q] = work[q]
    BY <1>0, <2>2 DEF Free
  <2>8. ASSUME NEW v \in Ids \ together'
        PROVE  /\ upgraded'[v] <= 1
               /\ upgraded'[v] = 1 =>
                    /\ HasAddress(v)'
                    /\ \A q \in Slots : ~(work'[q].at = "upgrade" /\ work'[q].user = v)
    <3>1. v \in Ids \ together BY <2>2
    <3>2. CASE v = u
      <4>1. \A q \in Slots \ {s} : ~(work[q].at = "upgrade" /\ work[q].user = u)
        BY <2>1, <2>2, <2>8, <3>2
      <4>2. upgraded[u] # 1 /\ upgraded[u] <= 1 BY <2>1, <2>2, <3>1, <3>2 DEF UpgradeInv
      <4>3. upgraded'[u] = 1 BY <2>6, <4>2
      <4> QED BY <2>5, <2>7, <3>2, <4>1, <4>3
    <3>3. CASE v # u
      <4>1. upgraded'[v] = upgraded[v] BY <2>6, <3>3
      <4> QED BY <1>0, <2>7, <3>1, <4>1 DEF UpgradeInv
    <3> QED BY <3>2, <3>3
  <2> QED BY <2>6, <2>8 DEF UpgradeInv
<1>3. ASSUME NEW s \in Slots, Arrive(s) \/ StatementFails(s) PROVE UNCHANGED <<upgraded, together>>
  BY <1>3 DEF Arrive, Register, RegisterMobile, Insert, LoginMobile, DeleteUser, SendVerificationEmail,
     Login, ChangePassword, UpdateUser, UpgradeAccount, VerifyEmail, StatementFails, history
<1>4. ASSUME NEW s \in Slots, Serve(s), ~Upgrade(s) PROVE UNCHANGED <<upgraded, together>>
  BY <1>4 DEF Serve, RecordFailedLogin, ResetFailedLogins, Issue, LookAgain, SetEmail,
     UpdatePasswordHash, LockRow, Cascade, ClearOldCodes, StoreCode, Rollback, MarkVerified,
     DeadlockDetected, history
<1>5. ASSUME (\E u \in Ids : LockEnds(u)) \/ \E k \in Codes : ExpireCode(k)
      PROVE  UNCHANGED <<upgraded, together>>
  BY <1>5 DEF LockEnds, ExpireCode, history
<1> QED BY <1>1, <1>2, <1>3, <1>4, <1>5 DEF Next

\* What is known of upgrades in every reachable state.
LEMMA UpgradeInvariant == Spec => []UpgradeInv
<1>1. Init => UpgradeInv
  BY DEF Init, UpgradeInv
<1>2. WholeInv /\ UpgradeInv /\ [Next]_vars => UpgradeInv'
  <2>1. ASSUME UpgradeInv, UNCHANGED vars PROVE UpgradeInv'
    BY <2>1 DEF vars, tables, history, UpgradeInv, HasAddress, Exists
  <2> QED BY <2>1, UpgradeKeeps
<1> QED BY <1>1, <1>2, WholeInvariant, PTL DEF Spec

\* An account is there as a whole, its owner's alone, or not at all: no
\* order of registrations, upgrades, changes, verifications, deletes and
\* failed statements makes two accounts share an address, takes an account
\* its last way in, or leaves a token or a code of a user who is gone.
THEOREM AccountsHold == Spec => []AccountsAreWhole
BY WholeInvariant, PTL DEF WholeInv

\* A device account is upgraded once, unless two upgrades had both looked.
THEOREM OneUpgrade == Spec => []UpgradedOnce
<1>1. UpgradeInv => UpgradedOnce BY DEF UpgradeInv, UpgradedOnce
<1> QED BY <1>1, UpgradeInvariant, PTL

-----------------------------------------------------------------------------
(* The lockout.  While an account is open, every wrong password compared    *)
(* since the last success or lock is in the counter, is about to be, or     *)
(* could not be recorded; and the counter is below the threshold.           *)

Failing(u) == {s \in Slots : work[s].at = "fail" /\ work[s].user = u}

Counted(u) == IF users[u].failed < LockoutThreshold THEN users[u].failed ELSE 0

Bounded(u) ==
  /\ guesses[u] <= LockoutThreshold + Cardinality(Slots) - 1 + unrecorded[u]
  /\ Exists(u) /\ ~users[u].locked =>
       guesses[u] <= Counted(u) + Cardinality(Failing(u)) + unrecorded[u]
  /\ users[u] = Unissued => guesses[u] = 0

GuessInv ==
  /\ guesses \in [Ids -> Nat] /\ unrecorded \in [Ids -> Nat]
  /\ \A u \in Ids : Bounded(u)

\* No more requests are about to record a failure than there are requests.
LEMMA FailingCount ==
  ASSUME NEW u
  PROVE  /\ IsFiniteSet(Failing(u)) /\ Cardinality(Failing(u)) \in Nat
         /\ Cardinality(Slots) \in Nat /\ Cardinality(Failing(u)) <= Cardinality(Slots)
<1>1. Failing(u) \in SUBSET Slots BY DEF Failing
<1>2. IsFiniteSet(Failing(u)) /\ Cardinality(Failing(u)) <= Cardinality(Slots)
  BY <1>1, FS_Subset
<1> QED BY <1>2, FS_CardinalityType

\* Only a wrong password brings a request there, and only its record, or the
\* failure of the record, takes it away.
LEMMA FailingSame ==
  ASSUME WholeInv, Next,
         ~ \E s \in Slots, u \in Ids, p \in Passwords : Login(s, u, p),
         ~ \E s \in Slots : RecordFailedLogin(s) \/ StatementFails(s)
  PROVE  \A u \in Ids : Failing(u)' = Failing(u)
<1>0. work \in [Slots -> Requested] BY DEF WholeInv, AccountsAreWhole, TypeOK
<1>1. CASE UNCHANGED <<work, held>> BY <1>1 DEF Failing
<1>2. ASSUME NEW s \in Slots, NEW w, w.at # "fail", work[s].at # "fail",
             work' = [work EXCEPT ![s] = w]
      PROVE  \A u \in Ids : Failing(u)' = Failing(u)
  <2>1. \A q \in Slots : work'[q] = IF q = s THEN w ELSE work[q] BY <1>0, <1>2
  <2> QED BY <1>2, <2>1 DEF Failing
<1>3. ASSUME NEW s \in Slots, NEW w \in Requested, Moves(s, w)
      PROVE  \A u \in Ids : Failing(u)' = Failing(u)
  BY <1>2, <1>3 DEF Moves, Allowed
<1>4. ASSUME NEW s \in Slots, NEW k \in Codes, VerifyEmail(s, k)
      PROVE  \A u \in Ids : Failing(u)' = Failing(u)
  <2>1. work[s].at # "fail" /\ work' = [work EXCEPT ![s] = [at |-> "mark", code |-> k]]
    BY <1>4 DEF VerifyEmail, Begin, Free
  <2> QED BY <1>2, <2>1
<1>5. ASSUME NEW s \in Slots, NEW u \in Ids, NEW p \in Passwords, NEW q \in Passwords,
             ChangePassword(s, u, p, q)
      PROVE  \A v \in Ids : Failing(v)' = Failing(v)
  <2>1. work[s].at # "fail" /\ work' = [work EXCEPT ![s] = [at |-> "password", user |-> u, password |-> q]]
    BY <1>5 DEF ChangePassword, Begin, Free
  <2> QED BY <1>2, <2>1
<1> QED BY <1>1, <1>3, <1>4, <1>5, WorkStep

\* The counter and the lock of an account change with a login alone, or
\* when the lock ends.
LEMMA CountKept ==
  ASSUME WholeInv, Next,
         ~ \E s \in Slots : RecordFailedLogin(s) \/ ResetFailedLogins(s),
         ~ \E u \in Ids : LockEnds(u),
         NEW v \in Ids, Exists(v)'
  PROVE  \/ users[v] = Unissued
         \/ /\ Exists(v)
            /\ users'[v].failed = users[v].failed /\ users'[v].locked = users[v].locked
<1> DEFINE Kept == \/ users[v] = Unissued
                  \/ /\ Exists(v)
                     /\ users'[v].failed = users[v].failed /\ users'[v].locked = users[v].locked
<1>0. /\ users \in [Ids -> User \cup {Unissued, Gone}] /\ work \in [Slots -> Requested]
      /\ \A u \in Ids : Exists(u) => users[u] \in User
  BY DEF WholeInv, AccountsAreWhole, TypeOK, Exists
<1>1. CASE UNCHANGED users BY <1>1 DEF Exists
<1>2. ASSUME NEW u \in Ids, NEW r, users' = [users EXCEPT ![u] = r],
             \/ users[u] = Unissued \/ r = Gone
             \/ Exists(u) /\ r.failed = users[u].failed /\ r.locked = users[u].locked
      PROVE  Kept
  <2>1. users'[v] = IF v = u THEN r ELSE users[v] BY <1>0, <1>2
  <2> QED BY <1>2, <2>1 DEF Exists
<1>3. ASSUME NEW s \in Slots, NEW r, Insert(s, r)
      PROVE  Kept
  <2>1. PICK u \in NewId : users' = [users EXCEPT ![u] = r] BY <1>3 DEF Insert
  <2>2. u \in Ids /\ users[u] = Unissued BY DEF NewId, First
  <2> QED BY <1>2, <2>1, <2>2
<1>4. ASSUME NEW s \in Slots, MarkVerified(s)
      PROVE  Kept
  <2> DEFINE k == work[s].code
  <2>1. k \in Codes /\ IsCode(k)
    BY <1>0, <1>4, RequestShapes DEF MarkVerified, WholeInv, HeldInv
  <2>2. codes[k].user \in Ids
    BY <2>1 DEF WholeInv, AccountsAreWhole, TypeOK, IsCode, Code
  <2>3. k \in CodesOf(codes[k].user) BY <2>1 DEF CodesOf
  <2>4. Exists(codes[k].user)
    BY <2>2, <2>3 DEF WholeInv, AccountsAreWhole, DeletedLeavesNothing
  <2>5. PICK u \in Ids : u = codes[k].user BY <2>2
  <2> DEFINE r == [users[u] EXCEPT !.verified = TRUE]
  <2>6. users' = [users EXCEPT ![u] = r] BY <1>0, <1>4, <2>5 DEF MarkVerified
  <2>7. Exists(u) /\ r.failed = users[u].failed /\ r.locked = users[u].locked
    BY <1>0, <2>4, <2>5 DEF User
  <2> HIDE DEF r
  <2> QED BY <1>2, <2>6, <2>7
<1>5. ASSUME NEW s \in Slots, Upgrade(s) PROVE Kept
  <2> DEFINE u == work[s].user
             r == [users[u] EXCEPT !.email = work[s].email, !.password = work[s].password]
  <2>1. u \in Ids BY <1>0, <1>5, RequestShapes DEF Upgrade
  <2>2. UNCHANGED users \/ (Exists(u) /\ users' = [users EXCEPT ![u] = r])
    BY <1>0, <1>5, <2>1 DEF Upgrade
  <2>3. Exists(u) => r.failed = users[u].failed /\ r.locked = users[u].locked
    BY <1>0, <2>1 DEF User
  <2> HIDE DEF r
  <2> QED BY <1>1, <1>2, <2>1, <2>2, <2>3
<1>6. ASSUME NEW s \in Slots, SetEmail(s) PROVE Kept
  <2> DEFINE u == work[s].user
             r == [users[u] EXCEPT !.email = work[s].email]
  <2>1. u \in Ids BY <1>0, <1>6, RequestShapes DEF SetEmail
  <2>2. UNCHANGED users \/ (Exists(u) /\ users' = [users EXCEPT ![u] = r])
    BY <1>0, <1>6, <2>1 DEF SetEmail
  <2>3. Exists(u) => r.failed = users[u].failed /\ r.locked = users[u].locked
    BY <1>0, <2>1 DEF User
  <2> HIDE DEF r
  <2> QED BY <1>1, <1>2, <2>1, <2>2, <2>3
<1>7. ASSUME NEW s \in Slots, UpdatePasswordHash(s) PROVE Kept
  <2> DEFINE u == work[s].user
             r == [users[u] EXCEPT !.password = work[s].password]
  <2>1. u \in Ids BY <1>0, <1>7, RequestShapes DEF UpdatePasswordHash
  <2>2. UNCHANGED users \/ (Exists(u) /\ users' = [users EXCEPT ![u] = r])
    BY <1>0, <1>7, <2>1 DEF UpdatePasswordHash
  <2>3. Exists(u) => r.failed = users[u].failed /\ r.locked = users[u].locked
    BY <1>0, <2>1 DEF User
  <2> HIDE DEF r
  <2> QED BY <1>1, <1>2, <2>1, <2>2, <2>3
<1>8. ASSUME NEW s \in Slots, Cascade(s) PROVE Kept
  <2>1. work[s].user \in Ids BY <1>0, <1>8, RequestShapes DEF Cascade
  <2> QED BY <1>2, <1>8, <2>1 DEF Cascade
<1>9. ASSUME NEW s \in Slots,
             \/ Issue(s) \/ LookAgain(s) \/ LockRow(s) \/ ClearOldCodes(s) \/ StoreCode(s)
             \/ Rollback(s) \/ DeadlockDetected(s) \/ StatementFails(s)
      PROVE  UNCHANGED users
  BY <1>9 DEF Issue, LookAgain, LockRow, ClearOldCodes, StoreCode, Rollback, DeadlockDetected,
     StatementFails, tables
<1>10. ASSUME NEW s \in Slots, Arrive(s)
       PROVE  UNCHANGED users \/ \E r : Insert(s, r)
  BY <1>10 DEF Arrive, Register, RegisterMobile, LoginMobile, DeleteUser, SendVerificationEmail,
     Login, ChangePassword, UpdateUser, UpgradeAccount, VerifyEmail, tables
<1>11. ASSUME NEW k \in Codes, ExpireCode(k) PROVE UNCHANGED users
  BY <1>11 DEF ExpireCode
<1> QED
  BY <1>1, <1>3, <1>4, <1>5, <1>6, <1>7, <1>8, <1>9, <1>10, <1>11 DEF Next, Serve

\* A wrong password: one more, and one more to record.
LEMMA WrongPassword ==
  ASSUME WholeInv, GuessInv, NEW s \in Slots, NEW u \in Ids, NEW p \in Passwords,
         Login(s, u, p), users[u].password # p
  PROVE  GuessInv'
<1>0. /\ work \in [Slots -> Requested] /\ users[u] \in User
      /\ guesses \in [Ids -> Nat] /\ unrecorded \in [Ids -> Nat]
      /\ LockoutThreshold \in Nat \ {0}
  BY DEF WholeInv, AccountsAreWhole, TypeOK, GuessInv, Login, Exists
<1>1. /\ Exists(u) /\ ~users[u].locked /\ UNCHANGED <<users, unrecorded>>
      /\ work[s] = Free /\ work' = [work EXCEPT ![s] = [at |-> "fail", user |-> u]]
      /\ guesses' = [guesses EXCEPT ![u] = guesses[u] + 1]
  BY DEF Login, Begin, tables
<1>2. \A q \in Slots : work'[q] = IF q = s THEN [at |-> "fail", user |-> u] ELSE work[q]
  BY <1>0, <1>1
<1>3. s \notin Failing(u) /\ Failing(u)' = Failing(u) \cup {s}
  BY <1>1, <1>2 DEF Failing, Free
<1>4. \A v \in Ids \ {u} : Failing(v)' = Failing(v)
  BY <1>1, <1>2 DEF Failing, Free
<1>5. Cardinality(Failing(u))' = Cardinality(Failing(u)) + 1
  BY <1>3, FailingCount, FS_AddElement
<1>6. \A v \in Ids : Counted(v)' = Counted(v) BY <1>1 DEF Counted
<1>7. Bounded(u)'
  <2>1. Counted(u) \in 0..(LockoutThreshold - 1) BY <1>0 DEF Counted, User
  <2>2. guesses[u] <= Counted(u) + Cardinality(Failing(u)) + unrecorded[u]
    BY <1>1 DEF GuessInv, Bounded
  <2>3. Cardinality(Failing(u)) \in Nat /\ Cardinality(Slots) \in Nat
        /\ Cardinality(Failing(u)) + 1 <= Cardinality(Slots)
    <3>1. Failing(u)' \in SUBSET Slots BY DEF Failing
    <3>2. Cardinality(Failing(u)') <= Cardinality(Slots) BY <3>1, FS_Subset
    <3> QED BY <1>5, <3>2, FailingCount
  <2>4. guesses'[u] = guesses[u] + 1 BY <1>0, <1>1
  <2>5. guesses[u] \in Nat /\ unrecorded[u] \in Nat BY <1>0
  <2>6. users'[u] # Unissued BY <1>1 DEF Exists
  <2>7. /\ guesses'[u] <= Counted(u)' + Cardinality(Failing(u))' + unrecorded'[u]
        /\ guesses'[u] <= LockoutThreshold + Cardinality(Slots) - 1 + unrecorded'[u]
    BY <1>0, <1>1, <1>5, <1>6, <2>1, <2>2, <2>3, <2>4, <2>5
  <2> QED BY <2>6, <2>7 DEF Bounded
<1>8. ASSUME NEW v \in Ids \ {u} PROVE Bounded(v)'
  <2>1. guesses'[v] = guesses[v] BY <1>0, <1>1
  <2> QED BY <1>1, <1>4, <1>6, <2>1 DEF GuessInv, Bounded, Exists
<1>9. guesses' \in [Ids -> Nat] /\ unrecorded' \in [Ids -> Nat] BY <1>0, <1>1
<1> QED BY <1>7, <1>8, <1>9 DEF GuessInv

\* The record is made, or fails: the request has one less to record.
LEMMA OneLess ==
  ASSUME WholeInv, NEW s \in Slots, work[s].at = "fail", Answer(s)
  PROVE  /\ work[s].user \in Ids
         /\ Cardinality(Failing(work[s].user)) \in Nat \ {0}
         /\ \A v \in Ids :
              Cardinality(Failing(v))' =
                IF v = work[s].user THEN Cardinality(Failing(v)) - 1 ELSE Cardinality(Failing(v))
<1>0. work \in [Slots -> Requested] BY DEF WholeInv, AccountsAreWhole, TypeOK
<1>1. PICK u \in Ids : u = work[s].user BY <1>0, RequestShapes
<1>2. \A q \in Slots : work'[q] = IF q = s THEN Free ELSE work[q] BY <1>0 DEF Answer, Go
<1>3. s \in Failing(u) /\ Failing(u)' = Failing(u) \ {s} BY <1>1, <1>2 DEF Failing, Free
<1>4. \A v \in Ids \ {u} : Failing(v)' = Failing(v) BY <1>1, <1>2 DEF Failing, Free
<1>5. Cardinality(Failing(u))' = Cardinality(Failing(u)) - 1
  <2>1. IsFiniteSet(Failing(u)) BY FailingCount
  <2>2. Cardinality(Failing(u) \ {s}) = Cardinality(Failing(u)) - 1
    BY <1>3, <2>1, FS_RemoveElement
  <2> QED BY <1>3, <2>2
<1>6. Cardinality(Failing(u)) # 0
  <2>1. IsFiniteSet(Failing(u)) BY FailingCount
  <2>2. Failing(u) # {} BY <1>3
  <2> QED BY <2>1, <2>2, FS_EmptySet
<1> QED BY <1>1, <1>4, <1>5, <1>6, FailingCount

\* A failure is recorded: the counter has one more, and at the threshold the
\* account is locked.
LEMMA Recorded ==
  ASSUME WholeInv, GuessInv, NEW s \in Slots, RecordFailedLogin(s)
  PROVE  GuessInv'
<1>0. /\ users \in [Ids -> User \cup {Unissued, Gone}]
      /\ guesses \in [Ids -> Nat] /\ unrecorded \in [Ids -> Nat]
      /\ LockoutThreshold \in Nat \ {0}
  BY DEF WholeInv, AccountsAreWhole, TypeOK, GuessInv
<1>1. /\ work[s].at = "fail" /\ Answer(s) /\ UNCHANGED <<guesses, unrecorded>>
  BY DEF RecordFailedLogin, history
<1>2. PICK u \in Ids : u = work[s].user BY <1>1, OneLess
<1>3. /\ Cardinality(Failing(u)) \in Nat /\ Cardinality(Failing(u))' = Cardinality(Failing(u)) - 1
      /\ \A v \in Ids \ {u} : Cardinality(Failing(v))' = Cardinality(Failing(v))
  BY <1>1, <1>2, OneLess
<1>4. ASSUME NEW v \in Ids, users'[v] = users[v], v # u \/ ~Exists(v) PROVE Bounded(v)'
  <2>1. Counted(v)' = Counted(v) /\ (Exists(v)' <=> Exists(v)) BY <1>4 DEF Counted, Exists
  <2> QED BY <1>1, <1>3, <1>4, <2>1 DEF GuessInv, Bounded
<1>5. CASE ~Exists(u)
  BY <1>2, <1>4, <1>0, <1>1, <1>5 DEF RecordFailedLogin, GuessInv
<1>6. CASE Exists(u)
  <2> DEFINE f == IF users[u].failed < LockoutThreshold THEN users[u].failed + 1 ELSE users[u].failed
             l == users[u].locked \/ users[u].failed + 1 >= LockoutThreshold
             r == [users[u] EXCEPT !.failed = f, !.locked = l]
  <2>1. users[u] \in User BY <1>0, <1>6 DEF Exists
  <2>2. users' = [users EXCEPT ![u].failed = f, ![u].locked = l]
    BY <1>2, <1>6 DEF RecordFailedLogin
  <2>3. users[u].failed \in 0..LockoutThreshold /\ users[u].locked \in BOOLEAN
        /\ r.failed = f /\ r.locked = l
    BY <2>1 DEF User
  <2>4. users' = [users EXCEPT ![u] = r]
    <3> HIDE DEF f, l
    <3> QED BY <1>0, <2>2
  <2>5. ~r.locked => ~users[u].locked /\ r.failed = users[u].failed + 1 /\ r.failed < LockoutThreshold
    <3> SUFFICES ASSUME ~r.locked
                 PROVE  ~users[u].locked /\ r.failed = users[u].failed + 1 /\ r.failed < LockoutThreshold
      OBVIOUS
    <3> HIDE DEF r
    <3>1. ~l BY <2>3
    <3>2. ~users[u].locked /\ ~(users[u].failed + 1 >= LockoutThreshold) BY <3>1
    <3>3. users[u].failed + 1 < LockoutThreshold BY <1>0, <2>3, <3>2
    <3>4. users[u].failed < LockoutThreshold BY <1>0, <2>3, <3>3
    <3>5. f = users[u].failed + 1 BY <3>4
    <3> QED BY <2>3, <3>2, <3>3, <3>5
  <2> HIDE DEF r
  <2>6. users'[u] = r /\ \A v \in Ids \ {u} : users'[v] = users[v] BY <1>0, <2>4
  <2>7. Bounded(u)'
    <3>1. users[u] # Unissued BY <1>6 DEF Exists
    <3>2. users'[u] # Unissued
      <4>1. f \in 0..LockoutThreshold /\ l \in BOOLEAN BY <1>0, <2>3
      <4>2. r \in User
        <5> HIDE DEF f, l
        <5> QED BY <2>1, <4>1 DEF User, r
      <4> QED BY <2>6, <4>2, Shapes
    <3>3. ASSUME ~r.locked
          PROVE  guesses[u] <= r.failed + (Cardinality(Failing(u)) - 1) + unrecorded[u]
      <4>1. guesses[u] <= Counted(u) + Cardinality(Failing(u)) + unrecorded[u]
        BY <1>6, <2>5, <3>3 DEF GuessInv, Bounded
      <4>2. Counted(u) = users[u].failed /\ r.failed = users[u].failed + 1
        BY <1>0, <2>3, <2>5, <3>3 DEF Counted
      <4>3. guesses[u] \in Nat /\ unrecorded[u] \in Nat BY <1>0
      <4> QED BY <1>3, <2>3, <4>1, <4>2, <4>3
    <3>4. ~r.locked => Counted(u)' = r.failed BY <2>5, <2>6 DEF Counted
    <3> QED BY <1>1, <1>3, <2>6, <3>2, <3>3, <3>4 DEF GuessInv, Bounded
  <2>8. \A v \in Ids \ {u} : Bounded(v)' BY <1>4, <2>6
  <2> QED BY <1>0, <1>1, <2>7, <2>8 DEF GuessInv
<1> QED BY <1>5, <1>6

\* A statement fails: a failure is not recorded, and is known not to be.
LEMMA NotRecorded ==
  ASSUME WholeInv, GuessInv, NEW s \in Slots, StatementFails(s)
  PROVE  GuessInv'
<1>0. /\ work \in [Slots -> Requested]
      /\ guesses \in [Ids -> Nat] /\ unrecorded \in [Ids -> Nat]
      /\ LockoutThreshold \in Nat \ {0}
  BY DEF WholeInv, AccountsAreWhole, TypeOK, GuessInv
<1>1. UNCHANGED <<users, guesses>> BY DEF StatementFails
<1>2. \A v \in Ids : Counted(v)' = Counted(v) /\ (Exists(v)' <=> Exists(v))
  BY <1>1 DEF Counted, Exists
<1>3. CASE work[s].at = "fail"
  <2>1. Answer(s) BY <1>3 DEF StatementFails
  <2>2. PICK u \in Ids : u = work[s].user BY <1>3, <2>1, OneLess
  <2>3. /\ Cardinality(Failing(u)) \in Nat /\ Cardinality(Failing(u))' = Cardinality(Failing(u)) - 1
        /\ \A v \in Ids \ {u} : Cardinality(Failing(v))' = Cardinality(Failing(v))
    BY <1>3, <2>1, <2>2, OneLess
  <2>4. unrecorded' = [unrecorded EXCEPT ![u] = unrecorded[u] + 1]
    BY <1>3, <2>2 DEF StatementFails
  <2>5. unrecorded' \in [Ids -> Nat] /\ unrecorded'[u] = unrecorded[u] + 1
        /\ \A v \in Ids \ {u} : unrecorded'[v] = unrecorded[v]
    BY <1>0, <2>4
  <2>6. Bounded(u)'
    <3>1. guesses[u] \in Nat /\ unrecorded[u] \in Nat BY <1>0
    <3>2. Cardinality(Slots) \in Nat BY FailingCount
    <3>3. guesses[u] <= LockoutThreshold + Cardinality(Slots) - 1 + unrecorded'[u]
      BY <1>0, <2>5, <3>1, <3>2 DEF GuessInv, Bounded
    <3>4. ASSUME Exists(u), ~users[u].locked
          PROVE  guesses[u] <= Counted(u) + (Cardinality(Failing(u)) - 1) + (unrecorded[u] + 1)
      <4>1. guesses[u] <= Counted(u) + Cardinality(Failing(u)) + unrecorded[u]
        BY <3>4 DEF GuessInv, Bounded
      <4>2. Counted(u) \in Nat BY <3>4 DEF Counted, WholeInv, AccountsAreWhole, TypeOK, Exists, User
      <4> QED BY <2>3, <3>1, <4>1, <4>2
    <3>5. users[u] = Unissued => guesses[u] = 0 BY DEF GuessInv, Bounded
    <3> QED BY <1>1, <1>2, <2>3, <2>5, <3>3, <3>4, <3>5 DEF Bounded
  <2>7. \A v \in Ids \ {u} : Bounded(v)' BY <1>1, <1>2, <2>3, <2>5 DEF GuessInv, Bounded
  <2> QED BY <1>0, <1>1, <2>5, <2>6, <2>7 DEF GuessInv
<1>4. CASE work[s].at # "fail"
  <2>1. UNCHANGED unrecorded BY <1>4 DEF StatementFails
  <2>2. PICK w : w.at # "fail" /\ work' = [work EXCEPT ![s] = w]
    <3>1. CASE work[s].at = "reset"
      <4>1. work[s] \in [at : {"issue", "reset", "fail", "delete", "cascade"}, user : Ids]
        BY <1>0, <3>1 DEF Requested, Free
      <4>2. work' = [work EXCEPT ![s] = [work[s] EXCEPT !.at = "issue"]]
        BY <3>1 DEF StatementFails, Go
      <4>3. [work[s] EXCEPT !.at = "issue"].at = "issue" BY <4>1
      <4> QED BY <4>2, <4>3
    <3>2. CASE work[s].at # "reset"
      <4>1. Free.at # "fail" BY DEF Free
      <4>2. work' = [work EXCEPT ![s] = Free] BY <3>2 DEF StatementFails, Go, Answer
      <4> QED BY <4>1, <4>2
    <3> QED BY <3>1, <3>2
  <2>3. \A q \in Slots : work'[q] = IF q = s THEN w ELSE work[q] BY <1>0, <2>2
  <2>4. \A v \in Ids : Failing(v)' = Failing(v) BY <1>4, <2>2, <2>3 DEF Failing
  <2> QED BY <1>0, <1>1, <1>2, <2>1, <2>4 DEF GuessInv, Bounded
<1> QED BY <1>3, <1>4

\* Steps that neither count nor record a wrong password.
LEMMA GuessSame ==
  ASSUME WholeInv, Next, GuessInv, UNCHANGED <<guesses, unrecorded>>,
         \A v \in Ids : Failing(v)' = Failing(v),
         \A v \in Ids : Exists(v)' =>
            \/ users[v] = Unissued
            \/ /\ Exists(v)
               /\ users'[v].failed = users[v].failed /\ users'[v].locked = users[v].locked
  PROVE  GuessInv'
<1>0. guesses \in [Ids -> Nat] /\ unrecorded \in [Ids -> Nat] BY DEF GuessInv
<1>1. ASSUME NEW v \in Ids PROVE Bounded(v)'
  <2>1. users'[v] = Unissued => users[v] = Unissued BY UsersKeep
  <2>2. ASSUME Exists(v)', ~users'[v].locked
        PROVE  guesses[v] <= Counted(v)' + Cardinality(Failing(v)) + unrecorded[v]
    <3>1. CASE users[v] = Unissued
      <4>1. guesses[v] = 0 BY <3>1 DEF GuessInv, Bounded
      <4>2. users'[v] \in User BY <2>2, UsersKeep DEF Exists
      <4>3. Counted(v)' \in Nat BY <4>2 DEF Counted, User
      <4>4. Cardinality(Failing(v)) \in Nat BY FailingCount
      <4>5. unrecorded[v] \in Nat BY <1>0
      <4> QED BY <4>1, <4>3, <4>4, <4>5
    <3>2. CASE /\ Exists(v)
               /\ users'[v].failed = users[v].failed /\ users'[v].locked = users[v].locked
      <4>1. Counted(v)' = Counted(v) BY <3>2 DEF Counted
      <4> QED BY <2>2, <3>2, <4>1 DEF GuessInv, Bounded
    <3> QED BY <2>2, <3>1, <3>2
  <2> QED BY <2>1, <2>2 DEF GuessInv, Bounded
<1> QED BY <1>0, <1>1 DEF GuessInv

\* A success, or the end of a lock, starts the count again.
LEMMA GuessAgain ==
  ASSUME WholeInv, Next, GuessInv, UNCHANGED unrecorded,
         \A v \in Ids : Failing(v)' = Failing(v),
         NEW u \in Ids, users[u] # Unissued, guesses' = [guesses EXCEPT ![u] = 0],
         \A v \in Ids \ {u} : users'[v] = users[v]
  PROVE  GuessInv'
<1>0. guesses \in [Ids -> Nat] /\ unrecorded \in [Ids -> Nat] /\ LockoutThreshold \in Nat \ {0}
  BY DEF GuessInv
<1>1. guesses' \in [Ids -> Nat] /\ guesses'[u] = 0 /\ \A v \in Ids \ {u} : guesses'[v] = guesses[v]
  BY <1>0
<1>2. Bounded(u)'
  <2>1. Cardinality(Slots) \in Nat /\ Cardinality(Failing(u)) \in Nat BY FailingCount
  <2>2. Exists(u)' => Counted(u)' \in Nat
    <3>1. Exists(u)' => users'[u] \in User BY UsersKeep DEF Exists
    <3> QED BY <3>1 DEF Counted, User
  <2>3. unrecorded[u] \in Nat BY <1>0
  <2>4. 0 <= LockoutThreshold + Cardinality(Slots) - 1 + unrecorded[u] BY <1>0, <2>1, <2>3
  <2>5. Exists(u)' => 0 <= Counted(u)' + Cardinality(Failing(u)) + unrecorded[u]
    BY <2>1, <2>2, <2>3
  <2> QED BY <1>1, <2>4, <2>5 DEF Bounded
<1>3. ASSUME NEW v \in Ids \ {u} PROVE Bounded(v)'
  <2>1. Counted(v)' = Counted(v) /\ (Exists(v)' <=> Exists(v)) BY DEF Counted, Exists
  <2> QED BY <1>1, <2>1 DEF GuessInv, Bounded
<1> QED BY <1>0, <1>1, <1>2, <1>3 DEF GuessInv

\* Every step keeps the count of wrong passwords.
LEMMA GuessKeeps ==
  ASSUME WholeInv, GuessInv, Next
  PROVE  GuessInv'
<1>0. /\ work \in [Slots -> Requested] /\ users \in [Ids -> User \cup {Unissued, Gone}]
  BY DEF WholeInv, AccountsAreWhole, TypeOK
<1>1. ASSUME NEW s \in Slots, NEW u \in Ids, NEW p \in Passwords, Login(s, u, p) PROVE GuessInv'
  <2>1. CASE users[u].password = p
    <3>1. /\ UNCHANGED <<guesses, unrecorded, users>> /\ work[s] = Free
          /\ work' = [work EXCEPT ![s] = [at |-> "reset", user |-> u]]
      BY <1>1, <2>1 DEF Login, Begin, tables
    <3>2. \A q \in Slots : work'[q] = IF q = s THEN [at |-> "reset", user |-> u] ELSE work[q]
      BY <1>0, <3>1
    <3>3. \A v \in Ids : Failing(v)' = Failing(v) BY <3>1, <3>2 DEF Failing, Free
    <3>4. \A v \in Ids : Exists(v)' => Exists(v) /\ users'[v] = users[v] BY <3>1 DEF Exists
    <3> QED BY <3>1, <3>3, <3>4, GuessSame
  <2> QED BY <1>1, <2>1, WrongPassword
<1>2. ASSUME NEW s \in Slots, RecordFailedLogin(s) PROVE GuessInv' BY <1>2, Recorded
<1>3. ASSUME NEW s \in Slots, StatementFails(s) PROVE GuessInv' BY <1>3, NotRecorded
<1>4. CASE /\ ~ \E s \in Slots, u \in Ids, p \in Passwords : Login(s, u, p)
           /\ ~ \E s \in Slots : RecordFailedLogin(s) \/ StatementFails(s)
  <2>1. \A v \in Ids : Failing(v)' = Failing(v) BY <1>4, FailingSame
  <2>2. ASSUME NEW s \in Slots, ResetFailedLogins(s) PROVE GuessInv'
    <3>1. PICK u \in Ids : u = work[s].user
      BY <1>0, <2>2, RequestShapes DEF ResetFailedLogins
    <3>2. UNCHANGED unrecorded BY <2>2 DEF ResetFailedLogins
    <3>3. CASE Exists(u)
      <4>1. guesses' = [guesses EXCEPT ![u] = 0] BY <2>2, <3>1, <3>3 DEF ResetFailedLogins
      <4>2. users' = [users EXCEPT ![u].failed = 0, ![u].locked = FALSE]
        BY <2>2, <3>1, <3>3 DEF ResetFailedLogins
      <4>3. \A v \in Ids \ {u} : users'[v] = users[v] BY <1>0, <4>2
      <4>4. users[u] # Unissued BY <3>3 DEF Exists
      <4> QED BY <2>1, <3>2, <4>1, <4>3, <4>4, GuessAgain
    <3>4. CASE ~Exists(u)
      <4>1. UNCHANGED <<guesses, users>> BY <2>2, <3>1, <3>4 DEF ResetFailedLogins
      <4>2. \A v \in Ids : Exists(v)' => Exists(v) /\ users'[v] = users[v] BY <4>1 DEF Exists
      <4> QED BY <2>1, <3>2, <4>1, <4>2, GuessSame
    <3> QED BY <3>3, <3>4
  <2>3. ASSUME NEW u \in Ids, LockEnds(u) PROVE GuessInv'
    <3>1. /\ UNCHANGED unrecorded /\ users[u] # Unissued /\ guesses' = [guesses EXCEPT ![u] = 0]
          /\ users' = [users EXCEPT ![u].locked = FALSE]
      BY <2>3 DEF LockEnds, Exists
    <3>2. \A v \in Ids \ {u} : users'[v] = users[v] BY <1>0, <3>1
    <3> QED BY <2>1, <3>1, <3>2, GuessAgain
  <2>4. CASE /\ ~ \E s \in Slots : ResetFailedLogins(s)
             /\ ~ \E u \in Ids : LockEnds(u)
    <3>1. UNCHANGED <<guesses, unrecorded>>
      <4>1. ASSUME NEW s \in Slots, Arrive(s), ~ \E u \in Ids, p \in Passwords : Login(s, u, p)
            PROVE  UNCHANGED <<guesses, unrecorded>>
        BY <4>1 DEF Arrive, Register, RegisterMobile, Insert, LoginMobile, DeleteUser,
           SendVerificationEmail, ChangePassword, UpdateUser, UpgradeAccount, VerifyEmail, history
      <4>2. ASSUME NEW s \in Slots, Serve(s), ~RecordFailedLogin(s), ~ResetFailedLogins(s)
            PROVE  UNCHANGED <<guesses, unrecorded>>
        BY <4>2 DEF Serve, Issue, LookAgain, Upgrade, SetEmail, UpdatePasswordHash, LockRow, Cascade,
           ClearOldCodes, StoreCode, Rollback, MarkVerified, DeadlockDetected, history
      <4>3. ASSUME NEW k \in Codes, ExpireCode(k) PROVE UNCHANGED <<guesses, unrecorded>>
        BY <4>3 DEF ExpireCode, history
      <4> QED BY <1>4, <2>4, <4>1, <4>2, <4>3 DEF Next
    <3>2. \A v \in Ids : Exists(v)' =>
            \/ users[v] = Unissued
            \/ /\ Exists(v)
               /\ users'[v].failed = users[v].failed /\ users'[v].locked = users[v].locked
      BY <1>4, <2>4, CountKept
    <3> QED BY <2>1, <3>1, <3>2, GuessSame
  <2> QED BY <2>2, <2>3, <2>4
<1> QED BY <1>1, <1>2, <1>3, <1>4

\* However many logins, resets and expiring locks run into each other, logins
\* do not guess at an account more often than the threshold, the logins under
\* way when it is reached, and the failures the database did not record.
THEOREM LockoutHolds == Spec => []GuessesAreBounded
<1>1. Init => GuessInv
  <2>1. ASSUME Init PROVE GuessInv
    <3>1. /\ guesses = [u \in Ids |-> 0] /\ unrecorded = [u \in Ids |-> 0]
          /\ users = [u \in Ids |-> Unissued]
      BY <2>1 DEF Init
    <3>2. Cardinality(Slots) \in Nat /\ LockoutThreshold \in Nat \ {0} BY FailingCount
    <3>3. \A u \in Ids : ~Exists(u) BY <3>1 DEF Exists
    <3> QED BY <3>1, <3>2, <3>3 DEF GuessInv, Bounded
  <2> QED BY <2>1
<1>2. WholeInv /\ GuessInv /\ [Next]_vars => GuessInv'
  <2>1. ASSUME GuessInv, UNCHANGED vars PROVE GuessInv'
    <3>1. UNCHANGED <<users, work, guesses, unrecorded>> BY <2>1 DEF vars, tables, history
    <3>2. \A u \in Ids : Bounded(u)' <=> Bounded(u)
      BY <3>1 DEF Bounded, Counted, Failing, Exists
    <3> QED BY <2>1, <3>1, <3>2 DEF GuessInv
  <2> QED BY <2>1, GuessKeeps
<1>3. GuessInv => GuessesAreBounded BY DEF GuessInv, Bounded, GuessesAreBounded
<1> QED BY <1>1, <1>2, <1>3, WholeInvariant, PTL DEF Spec
=============================================================================
