------------------------------- MODULE Sessions -------------------------------
(***************************************************************************)
(* Sessions: the refresh tokens of the users service, rotated at every     *)
(* use, and the apps that hold them.  An app keeps a pair of tokens in     *)
(* memory and in its storage, shares one refresh among its calls, and      *)
(* throws the pair away when the server rejects it.  Access tokens are     *)
(* signed and verified by SigningKeys.                                     *)
(*                                                                         *)
(* The statements of a rotation are not a transaction.  An answer can be   *)
(* lost after the server has done the work, an app can be killed, and a    *)
(* statement can fail.                                                     *)
(***************************************************************************)
EXTENDS SigningKeys, FiniteSets

CONSTANTS
  Apps,           \* JavaScript runtimes: a phone, or the tabs of a browser
  CallsOf,        \* calls of fetchWithAuth an app makes at a time
  Tokens,         \* ids of refresh tokens, in the order they are issued
  Requests,       \* ids of requests to /auth/refresh
  MaxCalls, MaxFaults \* bounds

ASSUME SessionsAssumption ==
  /\ Tokens \subseteq Nat \ {0} /\ Requests \subseteq Nat
  /\ IsFiniteSet(Tokens) /\ IsFiniteSet(Requests)
  /\ MaxCalls \in Nat /\ MaxFaults \in Nat

Unissued == [state |-> "unissued"]
Purged   == [state |-> "purged"]
Row      == [state : {"live", "revoked"}, expired : BOOLEAN, family : Tokens]

\* accessToken, refreshToken, and whether expiresAt is further than the buffer.
Pair  == [access : Keys \cup {None}, token : Tokens \cup {None}, fresh : BOOLEAN]
Empty == [access |-> None, token |-> None, fresh |-> FALSE]

Idle   == [at |-> "idle"]
Unused == [at |-> "unused"]
Calls  == Apps \X CallsOf

VARIABLES
  rows,           \* refresh_tokens
  work,           \* the requests to /auth/refresh, on the server
  mem, disk,      \* the app's variables, and its storage
  flight,         \* the refresh an app shares (refreshPromise)
  call,           \* calls of fetchWithAuth
  leaving,        \* logout() in progress
  calls, faults,  \* how many so far
  causes,         \* history: what has happened that may end the session
  shared,         \* history: families some token of which was rotated twice
  ended           \* history: families revoked with no rotation under way

clientVars  == <<mem, disk, flight, call, leaving, calls>>
serverVars  == <<rows, work>>
history     == <<causes, shared, ended>>
sessionVars == <<rows, work, mem, disk, flight, call, leaving, calls, faults, causes, shared, ended>>
vars        == <<keyVars, sessionVars>>

Family(t)  == rows[t].family
IsRow(t)   == rows[t] \notin {Unissued, Purged}
Live(t)    == rows[t].state = "live"
Fresh      == {t \in Tokens : rows[t] = Unissued /\ \A u \in Tokens : u < t => rows[u] # Unissued}

\* Requests that have seen a token live and will issue its successor.
Rotating(f) == {r \in Requests : work[r].at = "rotate" /\ IsRow(work[r].token)
                                   /\ Family(work[r].token) = f}

\* Another request is rotating the same token.
Contested(r) == \E q \in Requests \ {r} :
  work[q].at \in {"rotate", "revoke"} /\ work[q].token = work[r].token

Blame(a, c) == causes' = [causes EXCEPT ![a] = @ \cup {c}]
BlameAll(c) == causes' = [a \in Apps |-> causes[a] \cup {c}]

-----------------------------------------------------------------------------
(* The server: refresh_tokens, statement by statement.                     *)

Create(t, f) ==
  rows' = [rows EXCEPT ![t] = [state |-> "live", expired |-> FALSE, family |-> f]]

RevokeRows(S) ==
  rows' = [t \in Tokens |-> IF t \in S /\ IsRow(t) THEN [rows[t] EXCEPT !.state = "revoked"]
                            ELSE rows[t]]

RevokeToken(t) == RevokeRows({t})

\* Altered: only the replayed token.
RevokeReplayed(f, t) == RevokeRows({t})

RevokeTokenFamily(f, t) == RevokeRows({u \in Tokens : IsRow(u) /\ Family(u) = f})

Answer(r, status, t) ==
  work' = [work EXCEPT ![r] = [at |-> "answer", status |-> status, token |-> t, key |-> signer]]

\* A family with no rotation under way stays revoked: see EndedFamiliesStayDead.
End(families) == ended' = ended \cup {f \in families : Rotating(f) = {}}

\* GetRefreshTokenByHash, and what ValidateAndRotateToken makes of the row.
ReadToken(r) ==
  LET t == work[r].token IN
  /\ work[r].at = "read"
  /\ CASE ~IsRow(t) -> /\ Answer(r, "refused", t) /\ UNCHANGED rows
       [] IsRow(t) /\ rows[t].expired -> /\ RevokeToken(t) /\ Answer(r, "refused", t)
       [] IsRow(t) /\ ~rows[t].expired ->
            /\ work' = [work EXCEPT ![r].at = IF Live(t) THEN "rotate" ELSE "replay"]
            /\ UNCHANGED rows
  /\ UNCHANGED <<keyVars, clientVars, faults, history>>

\* Reuse: the family is revoked.
Replay(r) ==
  LET t == work[r].token IN
  /\ work[r].at = "replay"
  /\ IF IsRow(t) THEN RevokeTokenFamily(Family(t), t) /\ End({Family(t)})
     ELSE UNCHANGED <<rows, ended>>
  /\ Answer(r, "refused", t)
  /\ UNCHANGED <<keyVars, clientVars, faults, causes, shared>>

\* UpdateLastUsedAt, then CreateRefreshToken in the same family.
Rotate(r) ==
  LET t == work[r].token IN
  /\ work[r].at = "rotate"
  /\ IF ~IsRow(t)
     THEN Answer(r, "error", t) /\ UNCHANGED <<rows, shared>>
     ELSE \E u \in Fresh :
            /\ Create(u, Family(t))
            /\ work' = [work EXCEPT ![r] = [at |-> "revoke", token |-> t, next |-> u]]
            /\ shared' = IF Live(t) /\ ~Contested(r) THEN shared ELSE shared \cup {Family(t)}
  /\ UNCHANGED <<keyVars, clientVars, faults, causes, ended>>

\* The old token, if it is still live; then the access token.
RevokeOldToken(r) ==
  /\ work[r].at = "revoke"
  /\ RevokeToken(work[r].token)
  /\ Answer(r, "ok", work[r].next)
  /\ UNCHANGED <<keyVars, clientVars, faults, history>>

\* A statement fails: before the insert nothing has happened, after it only
\* a failed GetUserByID or signature is an error, a failed revoke is logged.
StatementFails(r) ==
  LET t == work[r].token IN
  /\ faults < MaxFaults /\ faults' = faults + 1
  /\ \/ work[r].at \in {"read", "rotate"} /\ Answer(r, "error", t) /\ UNCHANGED <<rows, shared>>
     \/ work[r].at = "replay" /\ Answer(r, "refused", t) /\ UNCHANGED <<rows, shared>>
     \/ /\ work[r].at = "revoke" /\ IsRow(t)
        /\ \/ RevokeToken(t) /\ Answer(r, "error", t) /\ UNCHANGED shared
           \/ /\ Answer(r, "ok", work[r].next) /\ UNCHANGED rows
              /\ shared' = shared \cup {Family(t)}
  /\ BlameAll("fault")
  /\ UNCHANGED <<keyVars, clientVars, ended>>

\* RevokeAllUserTokens.
LogoutAll ==
  LET S == {t \in Tokens : IsRow(t)} IN
  /\ S # {} /\ faults < MaxFaults /\ faults' = faults + 1
  /\ RevokeRows(S)
  /\ End({Family(t) : t \in S})
  /\ BlameAll("logout")
  /\ UNCHANGED <<keyVars, work, clientVars, shared>>

ExpireToken(t) ==
  /\ IsRow(t) /\ ~rows[t].expired /\ faults < MaxFaults /\ faults' = faults + 1
  /\ rows' = [rows EXCEPT ![t].expired = TRUE]
  /\ BlameAll("expired")
  /\ UNCHANGED <<keyVars, work, clientVars, shared, ended>>

CleanupExpiredTokens ==
  /\ \E t \in Tokens : IsRow(t) /\ rows[t].expired
  /\ rows' = [t \in Tokens |-> IF IsRow(t) /\ rows[t].expired THEN Purged ELSE rows[t]]
  /\ UNCHANGED <<keyVars, work, clientVars, faults, history>>

Serve == \E r \in Requests : ReadToken(r) \/ Replay(r) \/ Rotate(r) \/ RevokeOldToken(r)

-----------------------------------------------------------------------------
(* The app's tokens.                                                       *)

\* A variable that is null is read from storage.
Loaded(a) ==
  [access |-> IF mem[a].access = None THEN disk[a].access ELSE mem[a].access,
   token  |-> IF mem[a].token = None THEN disk[a].token ELSE mem[a].token,
   fresh  |-> mem[a].fresh \/ (mem[a].access = None /\ disk[a].fresh)]

\* Altered: the refresh token is left in storage.
ClearMemory(a) ==
  /\ mem' = [mem EXCEPT ![a] = Empty]
  /\ disk' = [disk EXCEPT ![a] = [Empty EXCEPT !.token = disk[a].token]]

\* clearTokens: the variables at once, then the keys of the storage one by
\* one, which only a kill in between tells apart (KilledClearing).
ClearTokens(a) ==
  /\ mem' = [mem EXCEPT ![a] = Empty]
  /\ disk' = [disk EXCEPT ![a] = Empty]

\* Bound: tokens are left for the refreshes to come.
Spare == Cardinality({t \in Tokens : rows[t] = Unissued})
           > Cardinality({r \in Requests : work[r].at \in {"unused", "read", "rotate"}})

\* The user logs in: a new family, kept in memory and storage.
Login(a) ==
  /\ Loaded(a).access = None /\ leaving[a] = Idle /\ Spare
  /\ \E t \in Fresh :
       LET pair == [access |-> signer, token |-> t, fresh |-> TRUE] IN
       /\ Create(t, t)
       /\ mem' = [mem EXCEPT ![a] = pair] /\ disk' = [disk EXCEPT ![a] = pair]
  /\ causes' = [causes EXCEPT ![a] = IF flight[a] = Idle THEN {} ELSE {"overlap"}]
  /\ UNCHANGED <<keyVars, work, flight, call, leaving, calls, faults, shared, ended>>

\* The access token comes within the buffer of its end.
Age(a) ==
  /\ Loaded(a).fresh /\ flight[a].at # "saving"
  /\ mem' = [mem EXCEPT ![a].fresh = FALSE]
  /\ disk' = [disk EXCEPT ![a].fresh = FALSE]
  /\ UNCHANGED <<keyVars, serverVars, flight, call, leaving, calls, faults, history>>

-----------------------------------------------------------------------------
(* The shared refresh: refreshAccessToken and doRefreshAccessToken.        *)

NextRequest == {r \in Requests : work[r] = Unused /\ \A q \in Requests : q < r => work[q] # Unused}

Post(a, t) ==
  \E r \in NextRequest :
    /\ work' = [work EXCEPT ![r] = [at |-> "read", token |-> t]]
    /\ flight' = [flight EXCEPT ![a] = [at |-> "asking", req |-> r]]

\* Altered: every caller sends a request of its own.
RefreshAlone(a) == Post(a, Loaded(a).token)

\* A refresh under way is waited for.
RefreshAccessToken(a) ==
  IF flight[a] # Idle THEN UNCHANGED <<work, flight>> ELSE Post(a, Loaded(a).token)

Waiting(a) == {n \in CallsOf : call[<<a, n>>].at = "wait"}

\* What a call does when the refresh it waits for has succeeded with pair m:
\* it sends its request, with an empty bearer if it is a retry and the
\* token has been cleared since.
Resumed(c, m) ==
  IF m.access = None /\ ~c.retry THEN Idle
  ELSE [at |-> "sent", retry |-> c.retry, key |-> m.access, to |-> c.to]

Resume(a, m) ==
  call' = [p \in Calls |-> IF p[1] = a /\ p[2] \in Waiting(a) THEN Resumed(call[p], m) ELSE call[p]]

GiveUp(a) == call' = [p \in Calls |-> IF p[1] = a /\ p[2] \in Waiting(a) THEN Idle ELSE call[p]]

Received(a, status) ==
  /\ flight[a].at = "asking"
  /\ work[flight[a].req].at = "answer" /\ work[flight[a].req].status = status

\* 200: saveTokens sets the variables and writes the first key.
RefreshSucceeds(a) ==
  LET w == work[flight[a].req]
      pair == [access |-> w.key, token |-> w.token, fresh |-> TRUE] IN
  /\ Received(a, "ok")
  /\ mem' = [mem EXCEPT ![a] = pair]
  /\ disk' = [disk EXCEPT ![a].access = w.key]
  /\ flight' = [flight EXCEPT ![a] = [at |-> "saving", pair |-> pair]]
  /\ work' = [work EXCEPT ![flight[a].req] = [at |-> "over"]]
  /\ UNCHANGED <<keyVars, rows, call, leaving, calls, faults, history>>

\* Altered: the shared refresh is never given up.
SaveTokensHeld(a) ==
  /\ flight[a].at = "saving"
  /\ disk' = [disk EXCEPT ![a].token = flight[a].pair.token, ![a].fresh = TRUE]
  /\ flight' = [flight EXCEPT ![a] = [at |-> "held"]]
  /\ Resume(a, [access |-> IF mem[a].access = None THEN disk[a].access ELSE mem[a].access])
  /\ UNCHANGED <<keyVars, serverVars, mem, leaving, calls, faults, history>>

\* The other keys; then the calls that wait go on.
SaveTokens(a) ==
  /\ flight[a].at = "saving"
  /\ disk' = [disk EXCEPT ![a].token = flight[a].pair.token, ![a].fresh = TRUE]
  /\ flight' = [flight EXCEPT ![a] = Idle]
  /\ Resume(a, [access |-> IF mem[a].access = None THEN disk[a].access ELSE mem[a].access])
  /\ UNCHANGED <<keyVars, serverVars, mem, leaving, calls, faults, history>>

\* 401: the server has rejected the refresh token.
RefreshRefused(a) ==
  /\ Received(a, "refused")
  /\ ClearTokens(a)
  /\ flight' = [flight EXCEPT ![a] = Idle]
  /\ work' = [work EXCEPT ![flight[a].req] = [at |-> "over"]]
  /\ GiveUp(a)
  /\ UNCHANGED <<keyVars, rows, leaving, calls, faults, history>>

\* Any other answer leaves the tokens alone.
RefreshErrs(a) ==
  /\ Received(a, "error")
  /\ flight' = [flight EXCEPT ![a] = Idle]
  /\ work' = [work EXCEPT ![flight[a].req] = [at |-> "over"]]
  /\ GiveUp(a)
  /\ UNCHANGED <<keyVars, rows, mem, disk, leaving, calls, faults, history>>

\* The request or its answer is lost; the server goes on with what it has.
RefreshLost(a) ==
  /\ flight[a].at = "asking" /\ faults < MaxFaults /\ faults' = faults + 1
  /\ flight' = [flight EXCEPT ![a] = Idle]
  /\ GiveUp(a)
  /\ Blame(a, "lost")
  /\ UNCHANGED <<keyVars, serverVars, mem, disk, leaving, calls, shared, ended>>

-----------------------------------------------------------------------------
(* fetchWithAuth, against a service that validates the bearer.             *)

StartCall(p, v) ==
  LET a == p[1]  m == Loaded(a) IN
  /\ call[p] = Idle /\ m.access # None /\ calls < MaxCalls
  /\ calls' = calls + 1
  /\ \/ /\ m.fresh
        /\ mem' = [mem EXCEPT ![a] = m]
        /\ call' = [call EXCEPT ![p] = [at |-> "sent", retry |-> FALSE, key |-> m.access, to |-> v]]
        /\ UNCHANGED <<disk, flight, work>>
     \/ /\ ~m.fresh /\ m.token = None
        /\ ClearTokens(a)
        /\ UNCHANGED <<call, flight, work>>
     \/ /\ ~m.fresh /\ m.token # None
        /\ mem' = [mem EXCEPT ![a] = m]
        /\ call' = [call EXCEPT ![p] = [at |-> "wait", retry |-> FALSE, to |-> v]]
        /\ RefreshAccessToken(a)
        /\ UNCHANGED disk
  /\ UNCHANGED <<keyVars, rows, leaving, faults, history>>

Accepted(p) == call' = [call EXCEPT ![p] = Idle] \* 200: the answer is the caller's

\* RequireAuth: a signature that does not verify may fetch the key once.
Validate(p) ==
  /\ call[p].at = "sent"
  /\ \/ Verifies(call[p].to, call[p].key) /\ Accepted(p) /\ UNCHANGED recent
     \/ /\ ~Verifies(call[p].to, call[p].key)
        /\ IF MayFetch(call[p].to) /\ call[p].key # None
           THEN call' = [call EXCEPT ![p].at = "hook"] /\ recent' = recent \cup {call[p].to}
           ELSE call' = [call EXCEPT ![p].at = "refused"] /\ UNCHANGED recent
  /\ UNCHANGED <<vault, rotator, signer, publicKey, polled, serverVars, mem, disk, flight, leaving, calls, faults, history>>

\* refreshOnDemand: the key is read, or the read fails and the key stays.
FetchKey(p) ==
  /\ call[p].at = "hook"
  /\ \/ call' = [call EXCEPT ![p] = [at |-> "fetched", retry |-> call[p].retry, key |-> call[p].key,
                                     to |-> call[p].to, found |-> vault["public"]]]
     \/ call' = [call EXCEPT ![p].at = "again"]
  /\ UNCHANGED <<keyVars, serverVars, mem, disk, flight, leaving, calls, faults, history>>

\* The key may have been replaced, or the poll been faster, since it was read.
HandKeyOn(p) ==
  /\ call[p].at = "fetched"
  /\ UpdatePublicKey(call[p].to, call[p].found)
  /\ call' = [call EXCEPT ![p] = [at |-> "again", retry |-> call[p].retry, key |-> call[p].key,
                                  to |-> call[p].to]]
  /\ UNCHANGED <<vault, rotator, signer, polled, recent, serverVars, mem, disk, flight, leaving, calls, faults, history>>

\* The second attempt, "with whatever key is current now".
RetryValidation(p) ==
  /\ call[p].at = "again"
  /\ IF Verifies(call[p].to, call[p].key) THEN Accepted(p)
     ELSE call' = [call EXCEPT ![p].at = "refused"]
  /\ UNCHANGED <<keyVars, serverVars, mem, disk, flight, leaving, calls, faults, history>>

\* A second 401, or one with no refresh token left.
Hopeless(p) ==
  /\ call[p].at = "refused"
  /\ call[p].retry \/ (Loaded(p[1]).token = None /\ flight[p[1]] = Idle)

\* 401: refresh and try once more; a second 401 ends the session.
Unauthorized(p) ==
  LET a == p[1]  m == Loaded(a) IN
  /\ call[p].at = "refused"
  /\ IF Hopeless(p)
     THEN /\ ClearTokens(a)
          /\ call' = [call EXCEPT ![p] = Idle]
          /\ UNCHANGED <<flight, work>>
     ELSE /\ RefreshAccessToken(a)
          /\ mem' = [mem EXCEPT ![a].token = m.token]
          /\ call' = [call EXCEPT ![p] = [at |-> "wait", retry |-> TRUE, to |-> call[p].to]]
          /\ UNCHANGED disk
  /\ UNCHANGED <<keyVars, rows, leaving, calls, faults, history>>

\* No answer, or the abort of withRetry: a NetworkError, the tokens stay.
CallLost(p) ==
  /\ call[p].at \in {"sent", "hook", "fetched", "again", "refused"} /\ faults < MaxFaults /\ faults' = faults + 1
  /\ call' = [call EXCEPT ![p] = Idle]
  /\ UNCHANGED <<keyVars, serverVars, mem, disk, flight, leaving, calls, history>>

-----------------------------------------------------------------------------
(* logout(), and the death of the app.                                     *)

StartLogout(a) ==
  /\ leaving[a] = Idle /\ Loaded(a).access # None /\ faults < MaxFaults /\ faults' = faults + 1
  /\ leaving' = [leaving EXCEPT ![a] = IF mem[a].token = None THEN [at |-> "revoked"]
                                       ELSE [at |-> "posted", token |-> mem[a].token]]
  /\ Blame(a, "logout")
  /\ UNCHANGED <<keyVars, serverVars, mem, disk, flight, call, calls, shared, ended>>

\* RevokeToken; a token that is gone or revoked is as good.
RevokeOnLogout(a) ==
  LET t == leaving[a].token IN
  /\ leaving[a].at = "posted"
  /\ RevokeToken(t)
  /\ leaving' = [leaving EXCEPT ![a] = [at |-> "revoked"]]
  /\ UNCHANGED <<keyVars, work, mem, disk, flight, call, calls, faults, history>>

\* The answer, or the error, and clearTokens.
FinishLogout(a) ==
  /\ leaving[a] # Idle
  /\ ClearTokens(a)
  /\ leaving' = [leaving EXCEPT ![a] = Idle]
  /\ causes' = [causes EXCEPT ![a] = IF flight[a] = Idle THEN {"out"} ELSE @ \cup {"overlap"}]
  /\ UNCHANGED <<keyVars, serverVars, flight, call, calls, faults, shared, ended>>

\* The app is killed, and what it was doing is lost.
Killed(a) ==
  /\ flight' = [flight EXCEPT ![a] = Idle]
  /\ leaving' = [leaving EXCEPT ![a] = Idle]
  /\ call' = [p \in Calls |-> IF p[1] = a THEN Idle ELSE call[p]]
  /\ UNCHANGED <<keyVars, serverVars, calls, shared, ended>>

\* It is started again: initialize() reads the storage.
Restart(a) ==
  /\ faults < MaxFaults /\ faults' = faults + 1
  /\ Killed(a)
  /\ mem' = [mem EXCEPT ![a] = disk[a]]
  /\ IF flight[a] = Idle THEN UNCHANGED causes ELSE Blame(a, "lost")
  /\ UNCHANGED disk

\* clearTokens is next: of logout, of a refresh, or of a call.
Clearing(a) ==
  \/ leaving[a] # Idle
  \/ Received(a, "refused")
  \/ \E p \in Calls : p[1] = a /\ Hopeless(p)

\* The kill comes when clearTokens has removed the first key, the access
\* token.  Bound: what calls for clearTokens has been one of the faults.
KilledClearing(a) ==
  LET left == [disk[a] EXCEPT !.access = None] IN
  /\ Clearing(a) /\ Killed(a)
  /\ mem' = [mem EXCEPT ![a] = left] /\ disk' = [disk EXCEPT ![a] = left]
  /\ causes' = [causes EXCEPT ![a] = {"cleared"}]
  /\ UNCHANGED faults

\* Bound: a new pair in the Vault is one of the faults.
Replace ==
  /\ faults < MaxFaults /\ faults' = faults + 1
  /\ \E h \in Halves : PutFirst(h)
  /\ UNCHANGED <<serverVars, clientVars, history>>

-----------------------------------------------------------------------------
Init ==
  /\ KeysInit
  /\ rows = [t \in Tokens |-> Unissued]
  /\ work = [r \in Requests |-> Unused]
  /\ mem = [a \in Apps |-> Empty] /\ disk = mem
  /\ flight = [a \in Apps |-> Idle] /\ leaving = flight
  /\ call = [p \in Calls |-> Idle]
  /\ calls = 0 /\ faults = 0
  /\ causes = [a \in Apps |-> {"out"}] /\ shared = {} /\ ended = {}

Deliver == \E a \in Apps : RefreshSucceeds(a) \/ SaveTokens(a) \/ RefreshRefused(a) \/ RefreshErrs(a)
OnDemand(p) == FetchKey(p) \/ HandKeyOn(p) \/ RetryValidation(p)
Fetch   == \E p \in Calls : Validate(p) \/ OnDemand(p) \/ Unauthorized(p)
Leave   == \E a \in Apps : RevokeOnLogout(a) \/ FinishLogout(a)

\* What goes on by itself once it has begun.
Progress == Serve \/ Deliver \/ Fetch \/ Leave

Next ==
  \/ KeysNext /\ UNCHANGED sessionVars
  \/ Replace
  \/ Progress
  \/ \E r \in Requests : StatementFails(r)
  \/ LogoutAll \/ CleanupExpiredTokens \/ \E t \in Tokens : ExpireToken(t)
  \/ \E a \in Apps : Login(a) \/ Age(a) \/ RefreshLost(a) \/ StartLogout(a)
  \/ \E a \in Apps : Restart(a) \/ KilledClearing(a)
  \/ \E p \in Calls : CallLost(p) \/ \E v \in Validators : StartCall(p, v)

\* The server answers, the event loop runs, and the timers of the keys go on.
Spec == Init /\ [][Next]_vars /\ WF_vars(Progress) /\ KeysFairness
-----------------------------------------------------------------------------
(* Properties.                                                             *)

Requested ==
  {Unused, [at |-> "over"]}
    \cup [at : {"read", "rotate", "replay"}, token : Tokens]
    \cup [at : {"revoke"}, token : Tokens, next : Tokens]
    \cup [at : {"answer"}, status : {"ok", "refused", "error"}, token : Tokens, key : Keys]

\* Every row, request and pair of tokens has the shape the code gives it.
TypeOK ==
  /\ KeysTypeOK
  /\ \A t \in Tokens : rows[t] \in {Unissued, Purged} \cup Row
  /\ \A r \in Requests : work[r] \in Requested
  /\ \A a \in Apps : mem[a] \in Pair /\ disk[a] \in Pair
  /\ calls \in 0..MaxCalls /\ faults \in 0..MaxFaults
  /\ shared \subseteq Tokens /\ ended \subseteq Tokens

\* While nothing has gone wrong and no refresh is under way, the pair in
\* memory is the one in storage and the server still takes its refresh
\* token, however the calls of the app have shared their refreshes.
SessionAlive ==
  \A a \in Apps :
    causes[a] = {} /\ flight[a] = Idle /\ (\A h \in Halves : vault[h] = 0)
      => /\ mem[a] = disk[a]
         /\ mem[a].token # None /\ IsRow(mem[a].token) /\ Live(mem[a].token)

\* Rotation leaves one live token in a family, unless the same token was
\* rotated by two requests at once or its revocation failed.
OneLiveTokenPerFamily ==
  \A f \in Tokens \ shared :
    Cardinality({t \in Tokens : IsRow(t) /\ Family(t) = f /\ Live(t)})
      <= 1 + Cardinality({r \in Requests : work[r].at = "revoke"})

\* A family revoked for reuse, or by a logout from all devices, while none
\* of its tokens was being rotated never has a live token again.
EndedFamiliesStayDead ==
  \A t \in Tokens : IsRow(t) /\ Family(t) \in ended => ~Live(t)

\* The server's side: what overlapping rotations, reuse detection and logouts
\* leave of a family of tokens.
FamiliesAreSound == TypeOK /\ OneLiveTokenPerFamily /\ EndedFamiliesStayDead

\* After a logout with no refresh under way the app has no token, in memory
\* or storage, until the next login, whatever its other calls still do; and a
\* session is over when the app is killed while it is thrown away, though a
\* refresh token the server may still take is left behind.
LogoutSticks ==
  \A a \in Apps :
    /\ "out" \in causes[a] => Loaded(a) = Empty
    /\ "cleared" \in causes[a] => Loaded(a).access = None /\ flight[a] = Idle

\* A call that has begun ends: no refresh is waited for in vain.
CallsEnd == \A p \in Calls : call[p] # Idle ~> call[p] = Idle

\* When the operator has stopped, the users service signs with the pair of
\* the Vault and every validator has its public key, for good.
KeysSettle ==
  <>[](/\ signer = vault["private"]
       /\ \A v \in Validators : publicKey[v] = vault["public"])

\* "Losing a refresh to an unrecognized failure mode must never look like a
\* rejected credential": an answer that is lost does not end the session.
LostAnswerKeepsSession ==
  \A a \in Apps : causes[a] = {"lost"} /\ flight[a] = Idle => Loaded(a) # Empty

\* "Old tokens remain valid until expiration": no service refuses a token
\* that has not expired.
OldTokensStayValid ==
  \A p \in Calls : call[p].at = "refused" => call[p].key = None
=============================================================================
