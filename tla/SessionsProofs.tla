---------------------------- MODULE SessionsProofs ----------------------------
(* Proofs about Sessions, for any number of apps, calls, tokens, requests,  *)
(* keys, services and faults.                                               *)
EXTENDS Sessions, FiniteSetTheorems, TLAPS

USE SessionsAssumption, SigningKeysAssumption

-----------------------------------------------------------------------------
(* Types.                                                                   *)

Flights  == {Idle} \cup [at : {"asking"}, req : Requests] \cup [at : {"saving"}, pair : Pair]
Leavings == {Idle} \cup [at : {"revoked"}] \cup [at : {"posted"}, token : Tokens]
CallStates ==
  {Idle} \cup [at : {"wait"}, retry : BOOLEAN, to : Validators]
         \cup [at : {"sent", "hook", "again", "refused"}, retry : BOOLEAN, key : Keys \cup {None}, to : Validators]
         \cup [at : {"fetched"}, retry : BOOLEAN, key : Keys \cup {None}, to : Validators, found : Keys]

RowTypes    == rows \in [Tokens -> {Unissued, Purged} \cup Row]
WorkTypes   == work \in [Requests -> Requested]
TokenTypes  == mem \in [Apps -> Pair] /\ disk \in [Apps -> Pair]
FlightTypes == flight \in [Apps -> Flights] /\ leaving \in [Apps -> Leavings]
CallTypes   == call \in [Calls -> CallStates]
Counts      == calls \in 0..MaxCalls /\ faults \in 0..MaxFaults
Histories   == DOMAIN causes = Apps /\ shared \subseteq Tokens /\ ended \subseteq Tokens

Types ==
  /\ KeysTypeOK /\ RowTypes /\ WorkTypes /\ TokenTypes
  /\ FlightTypes /\ CallTypes /\ Counts /\ Histories

-----------------------------------------------------------------------------
(* Families.                                                                *)

\* The tokens whose successor is issued and whose revocation is to come.
Olds == {work[r].token : r \in {q \in Requests : work[q].at = "revoke"}}

\* What is left of an unshared family, without those, is one token.
OneHeir ==
  \A f \in Tokens \ shared : \A t, u \in Tokens \ Olds :
    IsRow(t) /\ IsRow(u) /\ Family(t) = f /\ Family(u) = f /\ Live(t) /\ Live(u) => t = u

\* A family is named for a token that has been issued.
FamiliesIssued ==
  /\ \A t \in Tokens : IsRow(t) => rows[Family(t)] # Unissued
  /\ \A f \in ended : rows[f] # Unissued /\ Rotating(f) = {}

FamilyInv == OneHeir /\ FamiliesIssued /\ EndedFamiliesStayDead

-----------------------------------------------------------------------------
(* Logout.                                                                  *)

LogoutInv == \A a \in Apps :
  "out" \in causes[a] => mem[a] = Empty /\ disk[a] = Empty /\ flight[a] = Idle

\* An app without an access token that does nothing.
Over(a) ==
  /\ mem[a].access = None /\ disk[a].access = None /\ flight[a] = Idle
  /\ \A p \in Calls : p[1] = a => call[p] = Idle

ClearedInv == \A a \in Apps : "cleared" \in causes[a] => Over(a)

-----------------------------------------------------------------------------
(* A session that nothing has disturbed.                                    *)

Stable == \A h \in Halves : vault[h] = 0
Zero   == {0, None}

\* Before the first replacement of the keys no signature fails.
KeysAtZero ==
  /\ signer = 0 /\ (rotator # Resting => rotator.private = 0)
  /\ (rotator.at \in {"swap", "push"} => rotator.public = 0)
  /\ \A v \in Validators : publicKey[v] = 0
  /\ \A s \in Services : polled[s] \in Zero
AppAtZero(a) ==
  /\ mem[a].access \in Zero /\ disk[a].access \in Zero
  /\ flight[a].at = "saving" => flight[a].pair.access = 0
CallAtZero(p) ==
  \/ call[p] = Idle
  \/ call[p].at = "wait" /\ call[p].retry = FALSE
  \/ call[p].at = "sent" /\ call[p].retry = FALSE /\ call[p].key = 0

NoRefusal ==
  /\ KeysAtZero
  /\ \A r \in Requests : work[r].at = "answer" => work[r].key = 0
  /\ \A a \in Apps : AppAtZero(a)
  /\ \A p \in Calls : CallAtZero(p)

Issued(t) == t = None \/ rows[t] # Unissued

\* What requests and apps refer to has been issued.
RequestRefs(r) ==
  /\ work[r].at \in {"read", "rotate", "replay", "revoke", "answer"} => Issued(work[r].token)
  /\ work[r].at = "revoke" => Issued(work[r].next)
AppRefs(a) ==
  /\ Issued(mem[a].token) /\ Issued(disk[a].token)
  /\ flight[a].at = "saving" => Issued(flight[a].pair.token)
  /\ leaving[a].at = "posted" => Issued(leaving[a].token)
  /\ flight[a].at = "asking" => work[flight[a].req].at # "unused"

ReferencesIssued == (\A r \in Requests : RequestRefs(r)) /\ (\A a \in Apps : AppRefs(a))

Good(t) == t \in Tokens /\ IsRow(t) /\ Live(t) /\ ~rows[t].expired

\* A token of family f.
Of(t, f) == t \in Tokens /\ IsRow(t) /\ Family(t) = f

\* A request, or an app, that has to do with family f.
Serves(r, f) ==
  \/ work[r].at \in {"read", "rotate", "replay", "revoke", "answer"} /\ Of(work[r].token, f)
  \/ work[r].at = "revoke" /\ Of(work[r].next, f)
Holds(b, f) ==
  \/ Of(mem[b].token, f) \/ Of(disk[b].token, f)
  \/ flight[b].at = "saving" /\ Of(flight[b].pair.token, f)
  \/ leaving[b].at = "posted" /\ Of(leaving[b].token, f)
  \/ flight[b].at = "asking" /\ Serves(flight[b].req, f)

\* Nobody but app a, and the request it waits for, has to do with its family.
Alone(a, f) ==
  /\ \A b \in Apps \ {a} : ~Holds(b, f)
  /\ \A r \in Requests : Serves(r, f) => flight[a].at = "asking" /\ flight[a].req = r

AtRest(a) == mem[a] = disk[a] /\ mem[a].access = 0 /\ Good(mem[a].token)

AliveInv(a) ==
  /\ leaving[a] = Idle
  /\ \/ /\ flight[a] = Idle /\ AtRest(a)
     \/ /\ flight[a].at = "asking" /\ mem[a] = disk[a] /\ mem[a].access = 0 /\ ~mem[a].fresh
        /\ mem[a].token \in Tokens
        /\ LET w == work[flight[a].req] IN
           \/ w.at \in {"read", "rotate"} /\ w.token = mem[a].token /\ Good(w.token)
           \/ w.at = "revoke" /\ Good(w.next) /\ w.next # w.token
           \/ w.at = "answer" /\ w.status = "ok" /\ Good(w.token)
     \/ /\ flight[a].at = "saving" /\ mem[a] = flight[a].pair /\ mem[a].access = 0
        /\ disk[a].access = 0 /\ mem[a].fresh /\ Good(mem[a].token)

\* The token that matters.
Heir(a) ==
  IF flight[a].at # "asking" THEN mem[a].token
  ELSE IF work[flight[a].req].at = "revoke" THEN work[flight[a].req].next
  ELSE work[flight[a].req].token

SessionInv ==
  Stable => /\ NoRefusal
            /\ \A a \in Apps : causes[a] = {} => AliveInv(a) /\ Alone(a, Family(Heir(a)))

-----------------------------------------------------------------------------
(* Types are kept.                                                          *)

\* What the types have to do with fields.
LEMMA Shapes ==
  /\ \A t \in Tokens : RowTypes /\ IsRow(t) => rows[t] \in Row
  /\ Empty \in Pair /\ Unissued \notin Row /\ Purged \notin Row /\ Unissued # Purged
  /\ \A w \in Requested :
       /\ w.at \in {"read", "rotate", "replay", "revoke", "answer"} => w.token \in Tokens
       /\ w.at = "revoke" => w.next \in Tokens
       /\ w.at = "answer" => w.key \in Keys
BY DEF RowTypes, IsRow, Row, Empty, Pair, Unissued, Purged, Requested, Unused

\* A statement of the server on its own table.
LEMMA RowsStep ==
  ASSUME RowTypes, Histories
  PROVE  /\ \A t \in Tokens, f \in Tokens : Create(t, f) => RowTypes'
         /\ \A S : RevokeRows(S) => RowTypes'
         /\ \A S : S \subseteq {Family(t) : t \in {u \in Tokens : IsRow(u)}} /\ End(S) => ended' \subseteq Tokens
<1>1. ASSUME NEW t \in Tokens, NEW f \in Tokens, Create(t, f) PROVE RowTypes'
  BY <1>1 DEF RowTypes, Create, Row
<1>2. ASSUME NEW S, RevokeRows(S) PROVE RowTypes'
  <2>1. \A t \in Tokens : rows'[t] \in {Unissued, Purged} \cup Row
    BY <1>2, Shapes DEF RevokeRows, RowTypes, Row
  <2> QED BY <2>1, <1>2 DEF RevokeRows, RowTypes
<1>3. ASSUME NEW S, S \subseteq {Family(t) : t \in {u \in Tokens : IsRow(u)}}, End(S)
      PROVE  ended' \subseteq Tokens
  <2>1. \A t \in Tokens : IsRow(t) => Family(t) \in Tokens BY Shapes DEF Family, Row
  <2> QED BY <2>1, <1>3 DEF End, Histories
<1> QED BY <1>1, <1>2, <1>3

\* The keys.
LEMMA KeysTypes ==
  ASSUME KeysTypeOK
  PROVE  /\ KeysNext => KeysTypeOK'
         /\ \A h \in Halves : PutFirst(h) => KeysTypeOK'
         /\ UNCHANGED keyVars => KeysTypeOK'
<1> USE DEF KeysTypeOK
<1>1. ASSUME NEW h \in Halves, NEW o \in Halves, vault[h] < MaxKey \/ vault[h] < vault[o], Put(h)
      PROVE KeysTypeOK'
  <2>1. vault[h] + 1 \in Keys BY <1>1 DEF Keys
  <2>2. polled' \in [Services -> Keys \cup {None}]
    BY <1>1 DEF Put, Overtake, Halves
  <2> QED BY <2>1, <2>2, <1>1 DEF Put
<1>2. ASSUME RotateKeys \/ RotationFails PROVE KeysTypeOK'
  <2>1. CASE ReadPrivateKey BY <2>1 DEF ReadPrivateKey, Rotations, Halves
  <2>2. CASE ReadPublicKey BY <2>2 DEF ReadPublicKey, Rotations, Halves, Resting
  <2>3. CASE UpdateKeys BY <2>3 DEF UpdateKeys, Rotations, Resting
  <2>4. CASE PushPublicKey
    <3>1. rotator.public \in Keys BY <2>4 DEF PushPublicKey, Rotations, Resting
    <3> QED BY <2>4, <3>1 DEF PushPublicKey, Rotations, Resting
  <2>5. CASE RotationFails BY <2>5 DEF RotationFails, Rotations
  <2> QED BY <2>1, <2>2, <2>3, <2>4, <2>5, <1>2 DEF RotateKeys
<1>3. ASSUME NEW s \in Services, Poll(s) \/ GapOver(s) PROVE KeysTypeOK'
  <2>1. CASE PollInTime(s) BY <2>1 DEF PollInTime, UpdatePublicKey, Halves, Validators
  <2>2. CASE PollOvertaken(s) BY <2>2 DEF PollOvertaken, UpdatePublicKey, Validators
  <2>3. CASE GapOver(s) BY <2>3 DEF GapOver
  <2> QED BY <1>3, <2>1, <2>2, <2>3 DEF Poll
<1>4. UNCHANGED keyVars => KeysTypeOK' BY DEF keyVars
<1> QED BY <1>1, <1>2, <1>3, <1>4 DEF KeysNext, PutFirst, PutSecond

USE DEF Counts

\* The server.
LEMMA ServerTypes ==
  ASSUME Types,
         \/ Serve \/ LogoutAll \/ CleanupExpiredTokens
         \/ (\E r \in Requests : StatementFails(r)) \/ (\E t \in Tokens : ExpireToken(t))
  PROVE  Types'
<1> USE DEF Types
<1> DEFINE Kept == KeysTypeOK' /\ TokenTypes' /\ FlightTypes' /\ CallTypes' /\ Counts'
<1>k. UNCHANGED <<keyVars, clientVars>> /\ (UNCHANGED faults \/ (faults < MaxFaults /\ faults' = faults + 1))
        => Kept
  BY KeysTypes DEF clientVars, TokenTypes, FlightTypes, CallTypes
<1> HIDE DEF Kept
<1>1. ASSUME NEW r \in Requests, NEW status \in {"ok", "refused", "error"}, NEW t \in Tokens,
             Answer(r, status, t)
      PROVE  WorkTypes'
  <2>1. [at |-> "answer", status |-> status, token |-> t, key |-> signer] \in Requested
    BY DEF Requested, KeysTypeOK
  <2> QED BY <2>1, <1>1 DEF Answer, WorkTypes, Kept
<1>2. ASSUME NEW r \in Requests, ReadToken(r) PROVE Types'
  <2> PICK t \in Tokens : t = work[r].token
    BY <1>2, Shapes DEF ReadToken, WorkTypes
  <2>1. Kept /\ Histories'
    <3>1. UNCHANGED <<keyVars, clientVars, faults, history>> BY <1>2 DEF ReadToken
    <3>2. Kept BY <3>1, <1>k
    <3> QED BY <3>1, <3>2 DEF history, Histories
  <2>2. CASE ~IsRow(t)
    <3>1. Answer(r, "refused", t) /\ UNCHANGED rows BY <1>2, <2>2 DEF ReadToken
    <3> QED BY <3>1, <1>1, <2>1 DEF RowTypes, Kept
  <2>3. CASE IsRow(t) /\ rows[t].expired
    <3>1. Answer(r, "refused", t) /\ RevokeRows({t}) BY <1>2, <2>3 DEF ReadToken, RevokeToken
    <3> QED BY <3>1, <1>1, <2>1, RowsStep DEF Kept
  <2>4. CASE IsRow(t) /\ ~rows[t].expired
    <3>1. work' = [work EXCEPT ![r].at = IF Live(t) THEN "rotate" ELSE "replay"] /\ UNCHANGED rows
      BY <1>2, <2>4 DEF ReadToken
    <3>2. work[r] \in [at : {"read"}, token : Tokens] BY <1>2 DEF ReadToken, WorkTypes, Requested, Unused
    <3>3. work'[r] \in [at : {"rotate", "replay"}, token : Tokens] BY <3>1, <3>2 DEF WorkTypes
    <3> QED BY <3>1, <3>3, <2>1 DEF RowTypes, WorkTypes, Requested, Kept
  <2> QED BY <2>2, <2>3, <2>4
<1>3. ASSUME NEW r \in Requests, Replay(r) PROVE Types'
  <2> PICK t \in Tokens : t = work[r].token BY <1>3, Shapes DEF Replay, WorkTypes
  <2>1. Kept /\ DOMAIN causes' = Apps /\ shared' \subseteq Tokens 
    <3>1. UNCHANGED <<keyVars, clientVars, faults, causes, shared>> BY <1>3 DEF Replay
    <3>2. Kept BY <3>1, <1>k
    <3> QED BY <3>1, <3>2 DEF Histories
  <2>2. WorkTypes' BY <1>3, <1>1 DEF Replay
  <2>3. RowTypes' /\ ended' \subseteq Tokens
    <3>1. CASE IsRow(t)
      <4>1. RevokeTokenFamily(Family(t), t) /\ End({Family(t)}) BY <3>1, <1>3 DEF Replay
      <4> QED BY <4>1, <3>1, RowsStep DEF RevokeTokenFamily
    <3>2. CASE ~IsRow(t) BY <3>2, <1>3 DEF Replay, RowTypes, Histories
    <3> QED BY <3>1, <3>2
  <2> QED BY <2>1, <2>2, <2>3 DEF Histories, Kept
<1>4. ASSUME NEW r \in Requests, Rotate(r) PROVE Types'
  <2> PICK t \in Tokens : t = work[r].token BY <1>4, Shapes DEF Rotate, WorkTypes
  <2>1. Kept /\ DOMAIN causes' = Apps /\ ended' \subseteq Tokens 
    <3>1. UNCHANGED <<keyVars, clientVars, faults, causes, ended>> BY <1>4 DEF Rotate
    <3>2. Kept BY <3>1, <1>k
    <3> QED BY <3>1, <3>2 DEF Histories
  <2>2. CASE ~IsRow(t)
    <3>1. Answer(r, "error", t) /\ UNCHANGED <<rows, shared>> BY <1>4, <2>2 DEF Rotate
    <3> QED BY <3>1, <2>1, <1>1 DEF Histories, RowTypes, Kept
  <2>3. CASE IsRow(t)
    <3>1. PICK u \in Fresh :
            /\ Create(u, Family(t))
            /\ work' = [work EXCEPT ![r] = [at |-> "revoke", token |-> t, next |-> u]]
            /\ shared' = shared \/ shared' = shared \cup {Family(t)}
      BY <1>4, <2>3 DEF Rotate
    <3>2. u \in Tokens /\ Family(t) \in Tokens BY <2>3, Shapes DEF Fresh, Family, Row
    <3>3. [at |-> "revoke", token |-> t, next |-> u] \in Requested BY <3>2 DEF Requested
    <3> QED BY <3>1, <3>2, <3>3, <2>1, RowsStep DEF Histories, WorkTypes, Kept
  <2> QED BY <2>2, <2>3
<1>5. ASSUME NEW r \in Requests, RevokeOldToken(r) PROVE Types'
  <2>1. work[r].token \in Tokens /\ work[r].next \in Tokens BY <1>5, Shapes DEF RevokeOldToken, WorkTypes
  <2>2. UNCHANGED <<keyVars, clientVars, faults, history>> BY <1>5 DEF RevokeOldToken
  <2>3. Kept BY <2>2, <1>k
  <2>4. RowTypes' /\ WorkTypes' BY <1>5, <2>1, <1>1, RowsStep DEF RevokeOldToken, RevokeToken
  <2> QED BY <2>2, <2>3, <2>4 DEF history, Histories, Kept
<1>6. ASSUME NEW r \in Requests, StatementFails(r) PROVE Types'
  <2> PICK t \in Tokens : t = work[r].token BY <1>6, Shapes DEF StatementFails, WorkTypes
  <2>1. Kept /\ DOMAIN causes' = Apps /\ ended' \subseteq Tokens
    BY <1>6, <1>k DEF StatementFails, BlameAll, Histories
  <2>2. work[r].at = "revoke" => work[r].next \in Tokens BY Shapes DEF WorkTypes
  <2>3. IsRow(t) => Family(t) \in Tokens BY Shapes DEF Family, Row
  <2>4. WorkTypes' BY <1>6, <2>2, <1>1 DEF StatementFails
  <2>5. UNCHANGED rows \/ RevokeRows({t}) BY <1>6 DEF StatementFails, RevokeToken
  <2>6. shared' = shared \/ (IsRow(t) /\ shared' = shared \cup {Family(t)})
    BY <1>6, Zenon DEF StatementFails
  <2>7. RowTypes' BY <2>5, RowsStep DEF RowTypes
  <2> QED BY <2>1, <2>3, <2>4, <2>6, <2>7 DEF Histories, Kept
<1>7. ASSUME LogoutAll PROVE Types'
  <2> DEFINE S == {t \in Tokens : IsRow(t)}
  <2>1. RevokeRows(S) /\ End({Family(t) : t \in S}) BY <1>7 DEF LogoutAll
  <2>2. RowTypes' /\ ended' \subseteq Tokens BY <2>1, RowsStep
  <2>3. Kept /\ DOMAIN causes' = Apps /\ UNCHANGED <<work, shared>> BY <1>7, <1>k DEF LogoutAll, BlameAll
  <2> QED BY <2>2, <2>3 DEF Histories, WorkTypes, Kept
<1>8. ASSUME CleanupExpiredTokens PROVE Types'
  <2>1. rows' = [t \in Tokens |-> IF IsRow(t) /\ rows[t].expired THEN Purged ELSE rows[t]]
    BY <1>8 DEF CleanupExpiredTokens
  <2>2. UNCHANGED <<keyVars, work, clientVars, faults, history>> BY <1>8 DEF CleanupExpiredTokens
  <2>3. Kept BY <2>2, <1>k
  <2>4. RowTypes' BY <2>1 DEF RowTypes
  <2> QED BY <2>2, <2>3, <2>4 DEF history, Histories, WorkTypes, Kept
<1>9. ASSUME NEW t \in Tokens, ExpireToken(t) PROVE Types'
  <2>1. rows' = [rows EXCEPT ![t].expired = TRUE] /\ rows[t] \in Row BY <1>9, Shapes DEF ExpireToken
  <2>2. rows'[t] \in Row /\ RowTypes' BY <2>1 DEF RowTypes, Row
  <2> QED BY <2>2, <1>9, <1>k DEF ExpireToken, BlameAll, Histories, WorkTypes, Kept
<1> QED BY <1>2, <1>3, <1>4, <1>5, <1>6, <1>7, <1>8, <1>9 DEF Serve

\* The pieces the app's steps are made of.
LEMMA PiecesTypes ==
  ASSUME Types
  PROVE  /\ \A a \in Apps : Loaded(a) \in Pair
         /\ \A a \in Apps : ClearTokens(a) => TokenTypes'
         /\ \A a \in Apps, t \in Tokens : Post(a, t) => WorkTypes' /\ flight' \in [Apps -> Flights]
         /\ \A a \in Apps : Loaded(a).token # None \/ flight[a] # Idle =>
              (RefreshAccessToken(a) => WorkTypes' /\ flight' \in [Apps -> Flights])
         /\ \A a \in Apps : GiveUp(a) => CallTypes'
         /\ \A a \in Apps : \A m : m.access \in Keys \cup {None} => (Resume(a, m) => CallTypes')
<1> USE DEF Types
<1>1. ASSUME NEW a \in Apps PROVE Loaded(a) \in Pair
  BY DEF Loaded, TokenTypes, Pair
<1>2. ASSUME NEW a \in Apps, ClearTokens(a) PROVE TokenTypes'
  BY <1>2, Shapes DEF ClearTokens, TokenTypes
<1>3. ASSUME NEW a \in Apps, NEW t \in Tokens, Post(a, t)
      PROVE  WorkTypes' /\ flight' \in [Apps -> Flights]
  <2>1. PICK r \in NextRequest :
          /\ work' = [work EXCEPT ![r] = [at |-> "read", token |-> t]]
          /\ flight' = [flight EXCEPT ![a] = [at |-> "asking", req |-> r]]
    BY <1>3 DEF Post
  <2>2. r \in Requests BY DEF NextRequest
  <2>3. [at |-> "read", token |-> t] \in Requested BY DEF Requested
  <2>4. [at |-> "asking", req |-> r] \in Flights BY <2>2 DEF Flights
  <2> QED BY <2>1, <2>3, <2>4 DEF WorkTypes, FlightTypes
<1>4. ASSUME NEW a \in Apps, Loaded(a).token # None \/ flight[a] # Idle, RefreshAccessToken(a)
      PROVE  WorkTypes' /\ flight' \in [Apps -> Flights]
  <2>1. CASE flight[a] # Idle BY <2>1, <1>4 DEF RefreshAccessToken, WorkTypes, FlightTypes
  <2>2. CASE flight[a] = Idle
    <3>1. Loaded(a).token \in Tokens BY <2>2, <1>4, <1>1 DEF Pair
    <3> QED BY <3>1, <2>2, <1>3, <1>4 DEF RefreshAccessToken
  <2> QED BY <2>1, <2>2
<1>5. ASSUME NEW a \in Apps, GiveUp(a) PROVE CallTypes'
  BY <1>5 DEF GiveUp, CallTypes, CallStates
<1>6. ASSUME NEW a \in Apps, NEW m, m.access \in Keys \cup {None}, Resume(a, m) PROVE CallTypes'
  <2>1. ASSUME NEW p \in Calls, p[1] = a, p[2] \in Waiting(a) PROVE Resumed(call[p], m) \in CallStates
    <3>1. p = <<a, p[2]>> BY <2>1 DEF Calls
    <3>2. call[p].at = "wait" BY <3>1, <2>1 DEF Waiting
    <3>3. call[p] \in [at : {"wait"}, retry : BOOLEAN, to : Validators]
      BY <3>2 DEF CallTypes, CallStates, Idle
    <3> QED BY <3>3, <1>6 DEF Resumed, CallStates
  <2> QED BY <2>1, <1>6 DEF Resume, CallTypes
<1> QED BY <1>1, <1>2, <1>3, <1>4, <1>5, <1>6

\* What a kill leaves of an app.
LEMMA Kills ==
  ASSUME Types, NEW a \in Apps, Restart(a) \/ KilledClearing(a)
  PROVE  /\ UNCHANGED <<keyVars, rows, work, calls, shared, ended>>
         /\ mem'[a] = disk'[a] /\ disk'[a].token = disk[a].token
         /\ disk'[a].access \in {disk[a].access, None}
         /\ flight'[a] = Idle /\ leaving'[a] = Idle
         /\ call' = [p \in Calls |-> IF p[1] = a THEN Idle ELSE call[p]]
         /\ \A b \in Apps \ {a} : /\ mem'[b] = mem[b] /\ disk'[b] = disk[b]
                                  /\ flight'[b] = flight[b] /\ leaving'[b] = leaving[b]
         /\ TokenTypes' /\ FlightTypes' /\ CallTypes' /\ DOMAIN causes' = Apps
<1> USE DEF Types
<1>1. /\ Killed(a)
      /\ \E left \in Pair :
           /\ left.token = disk[a].token /\ left.access \in {disk[a].access, None}
           /\ mem' = [mem EXCEPT ![a] = left] /\ disk' = [disk EXCEPT ![a] = left]
      /\ DOMAIN causes' = Apps
  <2>1. disk[a] \in Pair /\ [disk[a] EXCEPT !.access = None] \in Pair BY DEF TokenTypes, Pair
  <2>2. CASE Restart(a)
    <3>1. disk' = [disk EXCEPT ![a] = disk[a]] BY <2>2 DEF Restart, TokenTypes
    <3> QED BY <2>1, <2>2, <3>1 DEF Restart, Blame, Histories
  <2>3. CASE KilledClearing(a)
    <3> DEFINE left == [disk[a] EXCEPT !.access = None]
    <3>1. left.token = disk[a].token /\ left.access = None BY <2>1 DEF Pair
    <3>2. /\ mem' = [mem EXCEPT ![a] = left] /\ disk' = [disk EXCEPT ![a] = left]
          /\ causes' = [causes EXCEPT ![a] = {"cleared"}] /\ Killed(a)
      BY <2>3 DEF KilledClearing
    <3> QED BY <2>1, <3>1, <3>2 DEF Histories
  <2> QED BY <2>2, <2>3
<1>2. TokenTypes' BY <1>1 DEF TokenTypes
<1>3. FlightTypes' BY <1>1 DEF Killed, FlightTypes, Flights, Leavings
<1>4. CallTypes' BY <1>1 DEF Killed, CallTypes, CallStates
<1> QED BY <1>1, <1>2, <1>3, <1>4 DEF Killed, serverVars, TokenTypes, FlightTypes

\* An app's session: login, refresh, logout, restart.
LEMMA AppTypes ==
  ASSUME Types, NEW a \in Apps,
         \/ Login(a) \/ Age(a) \/ RefreshSucceeds(a) \/ SaveTokens(a) \/ RefreshRefused(a) \/ RefreshErrs(a)
         \/ RefreshLost(a) \/ StartLogout(a) \/ RevokeOnLogout(a) \/ FinishLogout(a) \/ Restart(a) \/ KilledClearing(a)
  PROVE  Types'
<1> USE DEF Types
<1>k. UNCHANGED keyVars => KeysTypeOK' BY KeysTypes
<1>1. ASSUME Login(a) PROVE Types'
  <2> PICK t \in Fresh :
        /\ Create(t, t)
        /\ mem' = [mem EXCEPT ![a] = [access |-> signer, token |-> t, fresh |-> TRUE]]
        /\ disk' = [disk EXCEPT ![a] = [access |-> signer, token |-> t, fresh |-> TRUE]]
    BY <1>1 DEF Login
  <2>1. t \in Tokens BY DEF Fresh
  <2>2. [access |-> signer, token |-> t, fresh |-> TRUE] \in Pair BY <2>1 DEF Pair, KeysTypeOK
  <2>3. RowTypes' /\ TokenTypes' BY <2>1, <2>2, RowsStep DEF TokenTypes
  <2> QED BY <1>1, <1>k, <2>3 DEF Login, Histories, WorkTypes, FlightTypes, CallTypes
<1>2. ASSUME Age(a) PROVE Types'
  <2>1. TokenTypes' BY <1>2 DEF Age, TokenTypes, Pair
  <2> QED BY <1>2, <1>k, <2>1 DEF Age, serverVars, history, Histories, RowTypes, WorkTypes, FlightTypes, CallTypes
<1>3. ASSUME RefreshSucceeds(a) PROVE Types'
  <2> PICK w : w = work[flight[a].req] BY <1>3
  <2>1. flight[a].at = "asking" /\ w.at = "answer" BY <1>3 DEF RefreshSucceeds, Received
  <2>2. flight[a].req \in Requests BY <2>1 DEF FlightTypes, Flights, Idle
  <2>3. w.key \in Keys /\ w.token \in Tokens BY <2>1, <2>2, Shapes DEF WorkTypes
  <2> DEFINE pair == [access |-> w.key, token |-> w.token, fresh |-> TRUE]
  <2>4. pair \in Pair BY <2>3 DEF Pair
  <2>5. /\ mem' = [mem EXCEPT ![a] = pair]
        /\ disk' = [disk EXCEPT ![a].access = w.key]
        /\ flight' = [flight EXCEPT ![a] = [at |-> "saving", pair |-> pair]]
        /\ work' = [work EXCEPT ![flight[a].req] = [at |-> "over"]]
        /\ UNCHANGED <<keyVars, rows, call, leaving, calls, faults, history>>
    BY <1>3 DEF RefreshSucceeds
  <2>6. [at |-> "saving", pair |-> pair] \in Flights BY <2>4 DEF Flights
  <2> HIDE DEF pair
  <2>7. disk'[a] \in Pair /\ \A b \in Apps \ {a} : disk'[b] = disk[b] BY <2>3, <2>5 DEF TokenTypes, Pair
  <2>8. TokenTypes' BY <2>4, <2>5, <2>7 DEF TokenTypes
  <2>9. WorkTypes' BY <2>5 DEF WorkTypes, Requested
  <2> QED BY <2>5, <2>6, <2>8, <2>9, <1>k DEF history, Histories, RowTypes, FlightTypes, CallTypes
<1>4. ASSUME SaveTokens(a) PROVE Types'
  <2>1. flight[a] \in [at : {"saving"}, pair : Pair] BY <1>4 DEF SaveTokens, FlightTypes, Flights, Idle
  <2>2. flight[a].pair.token \in Tokens \cup {None} BY <2>1 DEF Pair
  <2>3. disk' = [disk EXCEPT ![a].token = flight[a].pair.token, ![a].fresh = TRUE] BY <1>4 DEF SaveTokens
  <2>4. disk'[a] \in Pair /\ \A b \in Apps \ {a} : disk'[b] = disk[b] BY <2>2, <2>3 DEF TokenTypes, Pair
  <2>5. TokenTypes' BY <2>3, <2>4, <1>4 DEF TokenTypes, SaveTokens
  <2>6. CallTypes'
    <3> DEFINE m == [access |-> IF mem[a].access = None THEN disk[a].access ELSE mem[a].access]
    <3>1. m.access \in Keys \cup {None} BY DEF TokenTypes, Pair
    <3>2. Resume(a, m) BY <1>4 DEF SaveTokens
    <3> HIDE DEF m
    <3> QED BY <3>1, <3>2, PiecesTypes
  <2>7. FlightTypes' BY <1>4 DEF SaveTokens, FlightTypes, Flights
  <2> QED BY <1>4, <1>k, <2>5, <2>6, <2>7 DEF SaveTokens, serverVars, history, Histories, RowTypes, WorkTypes
<1>5. ASSUME RefreshRefused(a) \/ RefreshErrs(a) PROVE Types'
  <2>1. /\ flight' = [flight EXCEPT ![a] = Idle]
        /\ work' = [work EXCEPT ![flight[a].req] = [at |-> "over"]]
        /\ GiveUp(a)
        /\ UNCHANGED <<keyVars, rows, leaving, calls, faults, history>>
        /\ ClearTokens(a) \/ UNCHANGED <<mem, disk>>
    BY <1>5, Zenon DEF RefreshRefused, RefreshErrs
  <2>2. TokenTypes'
    <3>1. CASE UNCHANGED <<mem, disk>> BY <3>1 DEF TokenTypes
    <3> QED BY <3>1, <2>1, PiecesTypes
  <2>3. WorkTypes' /\ FlightTypes' BY <2>1 DEF WorkTypes, Requested, FlightTypes, Flights
  <2> QED BY <2>1, <2>2, <2>3, <1>k, PiecesTypes DEF history, Histories, RowTypes
<1>6. ASSUME RefreshLost(a) PROVE Types'
  <2>1. CallTypes' BY <1>6, PiecesTypes DEF RefreshLost
  <2>2. FlightTypes' BY <1>6 DEF RefreshLost, FlightTypes, Flights
  <2> QED BY <1>6, <2>1, <2>2, <1>k DEF RefreshLost, serverVars, Blame, Histories, RowTypes, WorkTypes, TokenTypes
<1>7. ASSUME StartLogout(a) PROVE Types'
  <2>1. mem[a].token \in Tokens \cup {None} BY DEF TokenTypes, Pair
  <2>2. leaving' \in [Apps -> Leavings] BY <1>7, <2>1 DEF StartLogout, FlightTypes, Leavings
  <2> QED BY <1>7, <2>2, <1>k
         DEF StartLogout, serverVars, Blame, Histories, RowTypes, WorkTypes, TokenTypes, FlightTypes, CallTypes
<1>8. ASSUME RevokeOnLogout(a) PROVE Types'
  <2>1. RowTypes' BY <1>8, RowsStep DEF RevokeOnLogout, RevokeToken
  <2>2. leaving' \in [Apps -> Leavings] BY <1>8 DEF RevokeOnLogout, FlightTypes, Leavings
  <2> QED BY <1>8, <2>1, <2>2, <1>k
         DEF RevokeOnLogout, history, Histories, WorkTypes, TokenTypes, FlightTypes, CallTypes
<1>9. ASSUME FinishLogout(a) PROVE Types'
  <2>1. TokenTypes' BY <1>9, PiecesTypes DEF FinishLogout
  <2>2. leaving' \in [Apps -> Leavings] BY <1>9 DEF FinishLogout, FlightTypes, Leavings
  <2> QED BY <1>9, <2>1, <2>2, <1>k
         DEF FinishLogout, serverVars, Histories, RowTypes, WorkTypes, FlightTypes, CallTypes
<1>10. ASSUME Restart(a) \/ KilledClearing(a) PROVE Types'
  <2>1. faults' \in 0..MaxFaults BY <1>10 DEF Restart, KilledClearing
  <2> QED BY <1>10, <2>1, <1>k, Kills DEF Histories, RowTypes, WorkTypes
<1> QED BY <1>1, <1>2, <1>3, <1>4, <1>5, <1>6, <1>7, <1>8, <1>9, <1>10

\* A call of fetchWithAuth.
LEMMA FetchTypes ==
  ASSUME Types, NEW p \in Calls,
         \/ \E v \in Validators : StartCall(p, v)
         \/ Validate(p) \/ OnDemand(p) \/ Unauthorized(p) \/ CallLost(p)
  PROVE  Types'
<1> USE DEF Types
<1>a. PICK a \in Apps : a = p[1] BY DEF Calls
<1>k. UNCHANGED keyVars => KeysTypeOK' BY KeysTypes
<1>c. ASSUME NEW c \in CallStates, call' = [call EXCEPT ![p] = c] PROVE CallTypes'
  BY <1>c DEF CallTypes
<1>m. ASSUME UNCHANGED <<mem, disk>> \/ ClearTokens(a)
             \/ (UNCHANGED disk /\ \E m \in Pair : mem' = [mem EXCEPT ![a] = m])
      PROVE  TokenTypes'
  <2>1. CASE UNCHANGED <<mem, disk>> BY <2>1 DEF TokenTypes
  <2>2. CASE UNCHANGED disk /\ \E m \in Pair : mem' = [mem EXCEPT ![a] = m] BY <2>2 DEF TokenTypes
  <2> QED BY <2>1, <2>2, <1>m, PiecesTypes
<1>1. ASSUME NEW v \in Validators, StartCall(p, v) PROVE Types'
  <2> PICK m \in Pair : m = Loaded(a) BY PiecesTypes
  <2>1. /\ m.access # None /\ calls < MaxCalls /\ calls' = calls + 1
        /\ UNCHANGED <<keyVars, rows, leaving, faults, history>>
    BY <1>1, <1>a DEF StartCall
  <2>2. CASE m.fresh
    <3>1. /\ mem' = [mem EXCEPT ![a] = m]
          /\ call' = [call EXCEPT ![p] = [at |-> "sent", retry |-> FALSE, key |-> m.access, to |-> v]]
          /\ UNCHANGED <<disk, flight, work>>
      BY <1>1, <2>2, <1>a DEF StartCall
    <3>2. [at |-> "sent", retry |-> FALSE, key |-> m.access, to |-> v] \in CallStates
      BY DEF CallStates, Pair
    <3>3. CallTypes' BY <3>1, <3>2, <1>c
    <3>4. TokenTypes' BY <3>1, <1>m
    <3> QED BY <2>1, <3>1, <3>3, <3>4, <1>k DEF history, Histories, RowTypes, WorkTypes, FlightTypes
  <2>3. CASE ~m.fresh /\ m.token = None
    <3>1. ClearTokens(a) /\ UNCHANGED <<call, flight, work>> BY <1>1, <2>3, <1>a DEF StartCall
    <3>2. TokenTypes' BY <3>1, <1>m
    <3> QED BY <2>1, <3>1, <3>2, <1>k DEF history, Histories, RowTypes, WorkTypes, FlightTypes, CallTypes
  <2>4. CASE ~m.fresh /\ m.token # None
    <3>1. /\ mem' = [mem EXCEPT ![a] = m]
          /\ call' = [call EXCEPT ![p] = [at |-> "wait", retry |-> FALSE, to |-> v]]
          /\ RefreshAccessToken(a) /\ UNCHANGED disk
      BY <1>1, <2>4, <1>a DEF StartCall
    <3>2. [at |-> "wait", retry |-> FALSE, to |-> v] \in CallStates BY DEF CallStates
    <3>3. CallTypes' BY <3>1, <3>2, <1>c
    <3>4. TokenTypes' BY <3>1, <1>m
    <3>5. WorkTypes' /\ flight' \in [Apps -> Flights] BY <3>1, <2>4, PiecesTypes
    <3> QED BY <2>1, <3>3, <3>4, <3>5, <1>k DEF history, Histories, RowTypes, FlightTypes
  <2> QED BY <2>2, <2>3, <2>4
<1>s. ASSUME call[p].at \in {"sent", "hook", "again", "refused"}
      PROVE  /\ call[p] \in [at : {"sent", "hook", "again", "refused"}, retry : BOOLEAN,
                             key : Keys \cup {None}, to : Validators]
             /\ [call[p] EXCEPT !.at = "hook"] \in CallStates
             /\ [call[p] EXCEPT !.at = "again"] \in CallStates
             /\ [call[p] EXCEPT !.at = "refused"] \in CallStates
  BY <1>s DEF CallTypes, CallStates, Idle
<1>2. ASSUME Validate(p) PROVE Types'
  <2>1. CallTypes'
    <3>1. call[p].at = "sent" BY <1>2 DEF Validate
    <3>2. \/ call' = [call EXCEPT ![p] = Idle]
          \/ call' = [call EXCEPT ![p] = [call[p] EXCEPT !.at = "hook"]]
          \/ call' = [call EXCEPT ![p] = [call[p] EXCEPT !.at = "refused"]]
      BY <1>2 DEF Validate, Accepted
    <3>3. Idle \in CallStates BY DEF CallStates
    <3> QED BY <3>1, <3>2, <3>3, <1>s, <1>c
  <2>2. KeysTypeOK'
    <3>1. recent' \subseteq Services BY <1>2 DEF Validate, MayFetch, KeysTypeOK
    <3>2. UNCHANGED <<vault, rotator, signer, publicKey, polled>> BY <1>2 DEF Validate
    <3> QED BY <3>1, <3>2 DEF KeysTypeOK
  <2> QED BY <1>2, <2>1, <2>2
         DEF Validate, serverVars, history, Histories, RowTypes, WorkTypes, TokenTypes, FlightTypes
<1>3. ASSUME OnDemand(p) PROVE Types'
  <2> SUFFICES CallTypes' /\ KeysTypeOK'
    BY <1>3 DEF OnDemand, FetchKey, HandKeyOn, RetryValidation, serverVars, history, Histories,
                RowTypes, WorkTypes, TokenTypes, FlightTypes
  <2>1. CASE FetchKey(p)
    <3>1. call[p].at = "hook" /\ UNCHANGED keyVars BY <2>1 DEF FetchKey
    <3>2. \/ call' = [call EXCEPT ![p] = [at |-> "fetched", retry |-> call[p].retry, key |-> call[p].key,
                                         to |-> call[p].to, found |-> vault["public"]]]
          \/ call' = [call EXCEPT ![p] = [call[p] EXCEPT !.at = "again"]]
      BY <2>1 DEF FetchKey
    <3>3. vault["public"] \in Keys BY DEF KeysTypeOK, Halves
    <3>4. [at |-> "fetched", retry |-> call[p].retry, key |-> call[p].key,
           to |-> call[p].to, found |-> vault["public"]] \in CallStates
      BY <3>1, <3>3, <1>s DEF CallStates
    <3> QED BY <3>1, <3>2, <3>4, <1>s, <1>c, <1>k
  <2>2. CASE HandKeyOn(p)
    <3>1. call[p] \in [at : {"fetched"}, retry : BOOLEAN, key : Keys \cup {None}, to : Validators, found : Keys]
      BY <2>2 DEF HandKeyOn, CallTypes, CallStates, Idle
    <3>2. [at |-> "again", retry |-> call[p].retry, key |-> call[p].key, to |-> call[p].to] \in CallStates
      BY <3>1 DEF CallStates
    <3>3. CallTypes' BY <2>2, <3>2, <1>c DEF HandKeyOn
    <3>4. KeysTypeOK' BY <2>2, <3>1 DEF HandKeyOn, UpdatePublicKey, KeysTypeOK
    <3> QED BY <3>3, <3>4
  <2>3. CASE RetryValidation(p)
    <3>1. call[p].at = "again" /\ UNCHANGED keyVars BY <2>3 DEF RetryValidation
    <3>2. \/ call' = [call EXCEPT ![p] = Idle]
          \/ call' = [call EXCEPT ![p] = [call[p] EXCEPT !.at = "refused"]]
      BY <2>3 DEF RetryValidation, Accepted
    <3>3. Idle \in CallStates BY DEF CallStates
    <3> QED BY <3>1, <3>2, <3>3, <1>s, <1>c, <1>k
  <2> QED BY <1>3, <2>1, <2>2, <2>3 DEF OnDemand
<1>4. ASSUME Unauthorized(p) PROVE Types'
  <2> PICK m \in Pair : m = Loaded(a) BY PiecesTypes
  <2>1. UNCHANGED <<keyVars, rows, leaving, calls, faults, history>> BY <1>4 DEF Unauthorized
  <2>2. CASE Hopeless(p)
    <3>1. /\ ClearTokens(a) /\ call' = [call EXCEPT ![p] = Idle]
          /\ UNCHANGED <<flight, work>>
      BY <1>4, <2>2, <1>a DEF Unauthorized
    <3>2. Idle \in CallStates BY DEF CallStates
    <3>3. CallTypes' BY <3>1, <3>2, <1>c
    <3>4. TokenTypes' BY <3>1, <1>m
    <3> QED BY <2>1, <3>1, <3>3, <3>4, <1>k DEF history, Histories, RowTypes, WorkTypes, FlightTypes
  <2>3. CASE ~Hopeless(p)
    <3>1. /\ RefreshAccessToken(a)
          /\ mem' = [mem EXCEPT ![a].token = m.token]
          /\ call' = [call EXCEPT ![p] = [at |-> "wait", retry |-> TRUE, to |-> call[p].to]]
          /\ UNCHANGED disk
      BY <1>4, <2>3, <1>a DEF Unauthorized
    <3>2. call[p].at = "refused" BY <1>4 DEF Unauthorized
    <3>3. [at |-> "wait", retry |-> TRUE, to |-> call[p].to] \in CallStates BY <3>2, <1>s DEF CallStates
    <3>4. CallTypes' BY <3>1, <3>3, <1>c
    <3>5. TokenTypes'
      <4>1. [mem[a] EXCEPT !.token = m.token] \in Pair BY DEF TokenTypes, Pair
      <4> QED BY <3>1, <4>1, <1>m
    <3>6. m.token # None \/ flight[a] # Idle BY <2>3, <3>2, <1>a DEF Hopeless
    <3>7. WorkTypes' /\ flight' \in [Apps -> Flights] BY <3>1, <3>6, PiecesTypes
    <3> QED BY <2>1, <3>1, <3>4, <3>5, <3>7, <1>k DEF history, Histories, RowTypes, FlightTypes
  <2> QED BY <2>2, <2>3
<1>5. ASSUME CallLost(p) PROVE Types'
  <2>1. Idle \in CallStates BY DEF CallStates
  <2>2. CallTypes' BY <2>1, <1>5, <1>c DEF CallLost
  <2> QED BY <1>5, <2>2, <1>k
         DEF CallLost, serverVars, history, Histories, RowTypes, WorkTypes, TokenTypes, FlightTypes
<1> QED BY <1>1, <1>2, <1>3, <1>4, <1>5

\* Every step keeps the types.
LEMMA TypesStep ==
  ASSUME Types, [Next]_vars
  PROVE  Types'
<1>1. CASE KeysNext /\ UNCHANGED sessionVars
  BY <1>1, KeysTypes
     DEF sessionVars, Types, Histories, RowTypes, WorkTypes, TokenTypes, FlightTypes, CallTypes
<1>2. CASE Replace
  BY <1>2, KeysTypes
     DEF Replace, serverVars, clientVars, history, Types, Histories, RowTypes, WorkTypes, TokenTypes, FlightTypes, CallTypes
<1>3. CASE UNCHANGED vars
  BY <1>3, KeysTypes
     DEF vars, sessionVars, Types, Histories, RowTypes, WorkTypes, TokenTypes, FlightTypes, CallTypes
<1> QED BY <1>1, <1>2, <1>3, ServerTypes, AppTypes, FetchTypes DEF Next, Progress, Deliver, Fetch, Leave

\* The program starts with the types.
LEMMA InitTypes == Init => Types
<1> SUFFICES ASSUME Init PROVE Types OBVIOUS
<1>1. KeysTypeOK BY DEF Init, KeysInit, KeysTypeOK, Keys, Rotations
<1>2. WorkTypes /\ CallTypes /\ FlightTypes /\ RowTypes
  BY DEF Init, WorkTypes, Requested, CallTypes, CallStates, FlightTypes, Flights, Leavings, RowTypes
<1>3. TokenTypes BY Shapes DEF Init, TokenTypes
<1> QED BY <1>1, <1>2, <1>3 DEF Init, Types, Histories

-----------------------------------------------------------------------------
(* Families: rotation, reuse and logout.                                    *)

\* A step that issues no token and makes none live: it takes rows away, or
\* revokes them, and each token it takes from the ones to be revoked is dead.
LEMMA FamilyShrinks ==
  ASSUME Types, Types', FamilyInv,
         \A t \in Tokens :
           \/ rows'[t] = rows[t]
           \/ rows'[t] = Purged /\ IsRow(t)
           \/ IsRow(t) /\ IsRow(t)' /\ Family(t)' = Family(t) /\ ~Live(t)',
         shared \subseteq shared',
         \A r \in Requests, t \in Tokens :
           work[r].at = "revoke" /\ t = work[r].token /\ work'[r] # work[r]
             => ~Live(t)' \/ Family(t) \in shared',
         \A r \in Requests : work'[r].at = "rotate" =>
           /\ (IsRow(work[r].token) /\ Live(work[r].token)) \/ work[r].at = "rotate"
           /\ work'[r].token = work[r].token,
         \A f \in ended' \ ended :
           /\ \E t \in Tokens : IsRow(t) /\ Family(t) = f
           /\ \A t \in Tokens : IsRow(t) /\ Family(t) = f => ~Live(t)'
           /\ Rotating(f) = {} /\ \A r \in Requests : work'[r].at = "rotate" => work[r].at = "rotate"
  PROVE  FamilyInv'
<1> USE DEF FamilyInv
<1>1. \A t \in Tokens : IsRow(t)' => IsRow(t) /\ Family(t)' = Family(t) /\ (Live(t)' => Live(t))
  BY DEF IsRow, Family, Live
<1>2. \A t \in Tokens : rows'[t] = Unissued => rows[t] = Unissued
  BY DEF IsRow, Purged, Unissued
<1>3. OneHeir'
  <2> SUFFICES ASSUME NEW f \in Tokens \ shared', NEW t \in Tokens \ Olds', NEW u \in Tokens \ Olds',
                      IsRow(t)', IsRow(u)', Family(t)' = f, Family(u)' = f, Live(t)', Live(u)'
               PROVE  t = u
    BY DEF OneHeir
  <2>1. ASSUME NEW x \in Tokens \ Olds', IsRow(x)', Family(x)' = f, Live(x)' PROVE x \notin Olds
    <3> SUFFICES ASSUME NEW r \in Requests, work[r].at = "revoke", x = work[r].token PROVE FALSE
      BY DEF Olds
    <3>1. work'[r] # work[r] BY <2>1 DEF Olds
    <3>2. ~Live(x)' \/ Family(x) \in shared' BY <3>1, <2>1
    <3>3. Family(x)' = Family(x) /\ f \notin shared' BY <2>1, <1>1
    <3> QED BY <3>2, <3>3, <2>1
  <2>2. t \notin Olds /\ u \notin Olds BY <2>1
  <2> QED BY <2>2, <1>1 DEF OneHeir
<1>4. \A t \in Tokens : IsRow(t)' => rows'[Family(t)'] # Unissued
  <2> SUFFICES ASSUME NEW t \in Tokens, IsRow(t)' PROVE rows'[Family(t)'] # Unissued OBVIOUS
  <2>1. rows[Family(t)] # Unissued /\ Family(t)' = Family(t) BY <1>1 DEF FamiliesIssued
  <2>2. Family(t) \in Tokens BY <1>1, Shapes DEF Types, Family, Row
  <2> QED BY <2>1, <2>2, <1>2
<1>5. \A f \in ended' : rows'[f] # Unissued /\ Rotating(f)' = {}
  <2> SUFFICES ASSUME NEW f \in ended' PROVE rows'[f] # Unissued /\ Rotating(f)' = {} OBVIOUS
  <2>1. f \in Tokens BY DEF Types, Histories
  <2>2. rows[f] # Unissued /\ Rotating(f) = {} BY DEF FamiliesIssued
  <2>3. ASSUME NEW r \in Rotating(f)' PROVE FALSE
    <3>1. /\ r \in Requests /\ work'[r].at = "rotate" /\ work'[r].token = work[r].token
          /\ IsRow(work[r].token)' /\ Family(work[r].token)' = f
      BY DEF Rotating
    <3>2. work[r].token \in Tokens BY <3>1, Shapes DEF Types, WorkTypes
    <3>3. IsRow(work[r].token) /\ Family(work[r].token) = f BY <3>1, <3>2, <1>1
    <3>4. work[r].at # "rotate" BY <3>1, <3>3, <2>2 DEF Rotating
    <3>5. Live(work[r].token) /\ f \in ended BY <3>1, <3>4
    <3> QED BY <3>2, <3>3, <3>5 DEF EndedFamiliesStayDead
  <2> QED BY <2>1, <2>2, <2>3, <1>2
<1>6. EndedFamiliesStayDead'
  <2> SUFFICES ASSUME NEW t \in Tokens, IsRow(t)', Family(t)' \in ended' PROVE ~Live(t)'
    BY DEF EndedFamiliesStayDead
  <2> QED BY <1>1 DEF EndedFamiliesStayDead
<1> QED BY <1>3, <1>4, <1>5, <1>6 DEF FamiliesIssued

\* A step that leaves the server alone, or only answers and takes requests.
LEMMA FamilyRests ==
  ASSUME Types, Types', FamilyInv, UNCHANGED <<rows, shared, ended>>,
         \A r \in Requests : work'[r] = work[r] \/ (work[r].at # "revoke" /\ work'[r].at # "rotate")
  PROVE  FamilyInv'
BY FamilyShrinks

\* The server's statements.
LEMMA FamilyServer ==
  ASSUME Types, Types', FamilyInv, NEW r \in Requests,
         ReadToken(r) \/ Replay(r) \/ RevokeOldToken(r) \/ StatementFails(r)
  PROVE  FamilyInv'
<1>0. PICK t : t = work[r].token OBVIOUS
<1>t. work[r].at \in {"read", "rotate", "replay", "revoke"} => t \in Tokens
  BY <1>0, Shapes DEF Types, WorkTypes
<1>s. ASSUME NEW S \in SUBSET Tokens, RevokeRows(S)
      PROVE  \A u \in Tokens :
               /\ rows'[u] = rows[u] \/ (IsRow(u) /\ IsRow(u)' /\ Family(u)' = Family(u) /\ ~Live(u)')
               /\ u \in S /\ IsRow(u) => ~Live(u)'
  <2> SUFFICES ASSUME NEW u \in Tokens
               PROVE  /\ rows'[u] = rows[u] \/ (IsRow(u) /\ IsRow(u)' /\ Family(u)' = Family(u) /\ ~Live(u)')
                      /\ u \in S /\ IsRow(u) => ~Live(u)'
    OBVIOUS
  <2>1. CASE u \in S /\ IsRow(u)
    <3>1. rows'[u] = [rows[u] EXCEPT !.state = "revoked"] /\ rows[u] \in Row
      BY <1>s, <2>1, Shapes DEF RevokeRows, Types
    <3> QED BY <3>1, <2>1 DEF IsRow, Family, Live, Row, Unissued, Purged
  <2>2. CASE ~(u \in S /\ IsRow(u)) BY <2>2, <1>s DEF RevokeRows
  <2> QED BY <2>1, <2>2
<1>a. \A u \in Tokens : ~IsRow(u) => ~Live(u) BY DEF IsRow, Live, Unissued, Purged
<1>1. CASE ReadToken(r)
  <2>1. UNCHANGED <<shared, ended>> /\ work[r].at = "read" BY <1>1 DEF ReadToken, history
  <2>2. CASE ~IsRow(t)
    <3>1. UNCHANGED rows /\ Answer(r, "refused", t) BY <1>0, <1>1, <2>2 DEF ReadToken
    <3>2. \A q \in Requests : work'[q] = work[q] \/ (work[q].at # "revoke" /\ work'[q].at # "rotate")
      BY <3>1, <2>1 DEF Answer, Types, WorkTypes
    <3> QED BY <3>1, <3>2, <2>1, FamilyRests
  <2>3. CASE IsRow(t) /\ rows[t].expired
    <3>1. RevokeRows({t}) /\ Answer(r, "refused", t) BY <1>0, <1>1, <2>3 DEF ReadToken, RevokeToken
    <3>2. \A q \in Requests : work'[q] = work[q] \/ (work[q].at # "revoke" /\ work'[q].at # "rotate")
      BY <3>1, <2>1 DEF Answer, Types, WorkTypes
    <3>3. {t} \in SUBSET Tokens BY <1>t, <2>1
    <3> QED BY <3>1, <3>2, <3>3, <2>1, <1>s, FamilyShrinks
  <2>4. CASE IsRow(t) /\ ~rows[t].expired
    <3>1. /\ UNCHANGED rows
          /\ work' = [work EXCEPT ![r].at = IF Live(t) THEN "rotate" ELSE "replay"]
      BY <1>0, <1>1, <2>4 DEF ReadToken
    <3>2. \A q \in Requests : work'[q] = work[q] \/ q = r BY <3>1 DEF Types, WorkTypes
    <3>3. work'[r].token = t /\ (work'[r].at = "rotate" => IsRow(t) /\ Live(t))
      <4>1. work[r] \in [at : {"read"}, token : Tokens]
        BY <2>1 DEF Types, WorkTypes, Requested, Unused
      <4> QED BY <4>1, <3>1, <2>4, <1>0 DEF Types, WorkTypes
    <3> QED BY <3>1, <3>2, <3>3, <2>1, <1>0, FamilyShrinks
  <2> QED BY <2>2, <2>3, <2>4
<1>2. CASE Replay(r)
  <2>1. UNCHANGED shared /\ work[r].at = "replay" /\ Answer(r, "refused", t) BY <1>0, <1>2 DEF Replay
  <2>2. \A q \in Requests : work'[q] = work[q] \/ (work[q].at # "revoke" /\ work'[q].at # "rotate")
    BY <2>1 DEF Answer, Types, WorkTypes
  <2>3. CASE ~IsRow(t)
    <3>1. UNCHANGED <<rows, ended>> BY <1>0, <1>2, <2>3 DEF Replay
    <3> QED BY <3>1, <2>1, <2>2, FamilyRests
  <2>4. CASE IsRow(t)
    <3>1. PICK f : f = Family(t) OBVIOUS
    <3>2. PICK S \in SUBSET Tokens : S = {u \in Tokens : IsRow(u) /\ Family(u) = f} OBVIOUS
    <3>3. RevokeRows(S) /\ End({f}) BY <1>0, <1>2, <2>4, <3>1, <3>2 DEF Replay, RevokeTokenFamily
    <3>4. \A g \in ended' \ ended : g = f /\ Rotating(f) = {} BY <3>3 DEF End
    <3>5. \A u \in Tokens : IsRow(u) /\ Family(u) = f => ~Live(u)' BY <3>2, <3>3, <1>s
    <3>6. \A u \in Tokens :
            rows'[u] = rows[u] \/ (IsRow(u) /\ IsRow(u)' /\ Family(u)' = Family(u) /\ ~Live(u)')
      BY <3>3, <1>s
    <3>7. t \in Tokens BY <1>t, <2>1
    <3> QED BY <2>1, <2>2, <2>4, <3>1, <3>4, <3>5, <3>6, <3>7, FamilyShrinks
  <2> QED BY <2>3, <2>4
<1>3. CASE RevokeOldToken(r)
  <2>1. /\ UNCHANGED <<shared, ended>> /\ work[r].at = "revoke"
        /\ RevokeRows({t}) /\ Answer(r, "ok", work[r].next)
    BY <1>0, <1>3 DEF RevokeOldToken, RevokeToken, history
  <2>2. \A q \in Requests : work'[q] = work[q] \/ (q = r /\ work'[q].at # "rotate")
    BY <2>1 DEF Answer, Types, WorkTypes
  <2>3. {t} \in SUBSET Tokens BY <1>t, <2>1
  <2>4. ~Live(t)'
    <3>1. ~IsRow(t) => rows'[t] = rows[t] BY <2>1, <2>3 DEF RevokeRows
    <3>2. ~IsRow(t) => ~Live(t)' BY <3>1, <2>3, <1>a DEF Live
    <3> QED BY <3>2, <2>1, <2>3, <1>s
  <2> QED BY <2>1, <2>2, <2>3, <2>4, <1>0, <1>s, FamilyShrinks
<1>4. CASE StatementFails(r)
  <2>1. UNCHANGED ended /\ shared \subseteq shared' BY <1>4 DEF StatementFails
  <2>2. CASE work[r].at # "revoke"
    <3>1. /\ UNCHANGED <<rows, shared>>
          /\ \E status \in {"error", "refused"} : Answer(r, status, t)
      BY <1>0, <1>4, <2>2 DEF StatementFails
    <3>2. \A q \in Requests : work'[q] = work[q] \/ (work[q].at # "revoke" /\ work'[q].at # "rotate")
      BY <3>1, <2>2 DEF Answer, Types, WorkTypes
    <3> QED BY <3>1, <3>2, <2>1, FamilyRests
  <2>3. CASE work[r].at = "revoke"
    <3>1. t \in Tokens /\ {t} \in SUBSET Tokens BY <2>3, <1>t
    <3>2. IsRow(t) /\ \E status \in {"ok", "error"} : \E n : Answer(r, status, n)
      BY <1>0, <1>4, <2>3 DEF StatementFails
    <3>3. \A q \in Requests : work'[q] = work[q] \/ (q = r /\ work'[q].at # "rotate")
      BY <3>2 DEF Answer, Types, WorkTypes
    <3>4. \/ RevokeRows({t}) /\ UNCHANGED shared
          \/ UNCHANGED rows /\ Family(t) \in shared'
      BY <1>0, <1>4, <2>3 DEF StatementFails, RevokeToken
    <3>5. /\ ~Live(t)' \/ Family(t) \in shared'
          /\ \A u \in Tokens :
               rows'[u] = rows[u] \/ (IsRow(u) /\ IsRow(u)' /\ Family(u)' = Family(u) /\ ~Live(u)')
      <4>1. CASE RevokeRows({t}) BY <4>1, <3>1, <3>2, <1>s
      <4>2. CASE UNCHANGED rows /\ Family(t) \in shared' BY <4>2
      <4> QED BY <4>1, <4>2, <3>4
    <3> QED BY <2>1, <3>1, <3>3, <3>5, <1>0, FamilyShrinks
  <2> QED BY <2>2, <2>3
<1> QED BY <1>1, <1>2, <1>3, <1>4

\* Logouts, expiry and the cleaner.
LEMMA FamilyRevokes ==
  ASSUME Types, Types', FamilyInv,
         \/ LogoutAll \/ CleanupExpiredTokens
         \/ (\E t \in Tokens : ExpireToken(t)) \/ (\E a \in Apps : RevokeOnLogout(a))
  PROVE  FamilyInv'
<1>0. \A t \in Tokens : (IsRow(t) => rows[t] \in Row) /\ (~IsRow(t) => ~Live(t))
  BY Shapes DEF Types, IsRow, Live, Unissued, Purged
<1>1. CASE LogoutAll
  <2>1. /\ RevokeRows({t \in Tokens : IsRow(t)}) /\ End({Family(t) : t \in {u \in Tokens : IsRow(u)}})
        /\ UNCHANGED <<work, shared>>
    BY <1>1 DEF LogoutAll
  <2>2. ASSUME NEW t \in Tokens, IsRow(t) PROVE IsRow(t)' /\ Family(t)' = Family(t) /\ ~Live(t)'
    <3>1. rows'[t] = [rows[t] EXCEPT !.state = "revoked"] /\ rows[t] \in Row
      BY <2>1, <2>2, <1>0 DEF RevokeRows
    <3> QED BY <3>1 DEF IsRow, Family, Live, Row, Unissued, Purged
  <2>3. \A t \in Tokens : ~IsRow(t) => rows'[t] = rows[t] BY <2>1 DEF RevokeRows
  <2>4. \A f \in ended' \ ended : Rotating(f) = {} /\ \E t \in Tokens : IsRow(t) /\ Family(t) = f
    BY <2>1 DEF End
  <2> QED BY <2>1, <2>2, <2>3, <2>4, FamilyShrinks
<1>2. CASE CleanupExpiredTokens
  <2>1. UNCHANGED <<work, shared, ended>>
        /\ \A t \in Tokens : rows'[t] = rows[t] \/ (rows'[t] = Purged /\ IsRow(t))
    BY <1>2 DEF CleanupExpiredTokens, history
  <2> QED BY <2>1, FamilyShrinks
<1>3. ASSUME NEW t \in Tokens, ExpireToken(t) PROVE FamilyInv'
  <2>1. /\ rows' = [rows EXCEPT ![t].expired = TRUE] /\ rows[t] \in Row
        /\ UNCHANGED <<work, shared, ended>>
    BY <1>3, <1>0 DEF ExpireToken
  <2>2. \A u \in Tokens : /\ IsRow(u)' = IsRow(u) /\ Family(u)' = Family(u) /\ Live(u)' = Live(u)
                          /\ (rows'[u] = Unissued) = (rows[u] = Unissued)
    <3>0. rows'[t] = [rows[t] EXCEPT !.expired = TRUE] BY <2>1 DEF Types, RowTypes
    <3>1. rows'[t] \in Row /\ rows'[t].family = rows[t].family /\ rows'[t].state = rows[t].state
      <4>1. \A x \in Row : [x EXCEPT !.expired = TRUE] \in Row BY DEF Row
      <4>2. \A x \in Row : /\ [x EXCEPT !.expired = TRUE].family = x.family
                            /\ [x EXCEPT !.expired = TRUE].state = x.state
        BY DEF Row
      <4> QED BY <2>1, <3>0, <4>1, <4>2
    <3>2. \A u \in Tokens \ {t} : rows'[u] = rows[u] BY <2>1 DEF Types, RowTypes
    <3> QED BY <3>1, <3>2, <2>1, Shapes DEF IsRow, Family, Live
  <2>3. /\ \A u \in Tokens : IsRow(u) => Family(u) \in Tokens
        /\ \A r \in Requests : work[r].at = "rotate" => work[r].token \in Tokens
    BY <1>0, Shapes DEF Types, WorkTypes, Family, Row
  <2>4. OneHeir' BY <2>1, <2>2 DEF FamilyInv, OneHeir, Olds
  <2>5. \A f \in Tokens : Rotating(f)' = Rotating(f) BY <2>1, <2>2, <2>3 DEF Rotating
  <2>6. FamiliesIssued' BY <2>1, <2>2, <2>3, <2>5 DEF FamilyInv, FamiliesIssued, Types, Histories
  <2>7. EndedFamiliesStayDead' BY <2>1, <2>2 DEF FamilyInv, EndedFamiliesStayDead
  <2> QED BY <2>4, <2>6, <2>7 DEF FamilyInv
<1>4. ASSUME NEW a \in Apps, RevokeOnLogout(a) PROVE FamilyInv'
  <2>1. RevokeRows({leaving[a].token}) /\ UNCHANGED <<work, shared, ended>>
    BY <1>4 DEF RevokeOnLogout, RevokeToken, history
  <2>2. ASSUME NEW t \in Tokens
        PROVE  rows'[t] = rows[t] \/ (IsRow(t) /\ IsRow(t)' /\ Family(t)' = Family(t) /\ ~Live(t)')
    <3>1. CASE t = leaving[a].token /\ IsRow(t)
      <4>1. rows'[t] = [rows[t] EXCEPT !.state = "revoked"] /\ rows[t] \in Row
        BY <2>1, <3>1, <1>0 DEF RevokeRows
      <4> QED BY <4>1, <3>1 DEF IsRow, Family, Live, Row, Unissued, Purged
    <3>2. CASE ~(t = leaving[a].token /\ IsRow(t)) BY <3>2, <2>1 DEF RevokeRows
    <3> QED BY <3>1, <3>2
  <2> QED BY <2>1, <2>2, FamilyShrinks
<1> QED BY <1>1, <1>2, <1>3, <1>4

\* The steps of the apps and of the keys leave the families alone.
LEMMA FamilyApps ==
  ASSUME Types, Types', FamilyInv,
         \/ KeysNext /\ UNCHANGED sessionVars
         \/ Replace \/ UNCHANGED vars
         \/ \E a \in Apps :
              \/ Age(a) \/ RefreshSucceeds(a) \/ SaveTokens(a) \/ RefreshRefused(a) \/ RefreshErrs(a)
              \/ RefreshLost(a) \/ StartLogout(a) \/ FinishLogout(a) \/ Restart(a) \/ KilledClearing(a)
         \/ \E p \in Calls :
              \/ \E v \in Validators : StartCall(p, v)
              \/ Validate(p) \/ OnDemand(p) \/ Unauthorized(p) \/ CallLost(p)
  PROVE  FamilyInv'
<1> USE DEF serverVars, history
<1>s. ASSUME UNCHANGED <<rows, work, shared, ended>> PROVE FamilyInv'
  BY <1>s, FamilyRests
<1>r. ASSUME NEW a \in Apps, RefreshAccessToken(a), UNCHANGED <<rows, shared, ended>> PROVE FamilyInv'
  <2>1. \A r \in Requests : work'[r] = work[r] \/ (work[r].at # "revoke" /\ work'[r].at # "rotate")
    <3>1. CASE flight[a] # Idle BY <3>1, <1>r DEF RefreshAccessToken
    <3>2. CASE flight[a] = Idle
      <4>1. PICK r \in NextRequest : work' = [work EXCEPT ![r] = [at |-> "read", token |-> Loaded(a).token]]
        BY <3>2, <1>r DEF RefreshAccessToken, Post
      <4>2. work[r].at = "unused" BY DEF NextRequest, Unused
      <4> QED BY <4>1, <4>2 DEF Types, WorkTypes
    <3> QED BY <3>1, <3>2
  <2> QED BY <2>1, <1>r, FamilyRests
<1>1. CASE (KeysNext /\ UNCHANGED sessionVars) \/ Replace \/ UNCHANGED vars
  BY <1>1, <1>s DEF sessionVars, vars, Replace
<1>2. ASSUME NEW a \in Apps,
             Age(a) \/ SaveTokens(a) \/ RefreshLost(a) \/ StartLogout(a) \/ FinishLogout(a) \/ Restart(a) \/ KilledClearing(a)
      PROVE  FamilyInv'
  BY <1>2, <1>s, Kills DEF Age, SaveTokens, RefreshLost, StartLogout, FinishLogout
<1>3. ASSUME NEW a \in Apps, RefreshSucceeds(a) \/ RefreshRefused(a) \/ RefreshErrs(a) PROVE FamilyInv'
  <2>1. /\ \E status : Received(a, status)
        /\ work' = [work EXCEPT ![flight[a].req] = [at |-> "over"]]
        /\ UNCHANGED <<rows, shared, ended>>
    BY <1>3 DEF RefreshSucceeds, RefreshRefused, RefreshErrs
  <2>2. \A r \in Requests : work'[r] = work[r] \/ (work[r].at # "revoke" /\ work'[r].at # "rotate")
    BY <2>1 DEF Received, Types, WorkTypes
  <2> QED BY <2>1, <2>2, FamilyRests
<1>4. ASSUME NEW p \in Calls, Validate(p) \/ OnDemand(p) \/ CallLost(p) PROVE FamilyInv'
  BY <1>4, <1>s DEF Validate, OnDemand, FetchKey, HandKeyOn, RetryValidation, CallLost
<1>5. ASSUME NEW p \in Calls, (\E v \in Validators : StartCall(p, v)) \/ Unauthorized(p) PROVE FamilyInv'
  <2> PICK a \in Apps : a = p[1] BY DEF Calls
  <2>1. UNCHANGED <<rows, shared, ended>> BY <1>5 DEF StartCall, Unauthorized
  <2>2. UNCHANGED work \/ RefreshAccessToken(a) BY <1>5, Zenon DEF StartCall, Unauthorized
  <2> QED BY <2>1, <2>2, <1>s, <1>r
<1> QED BY <1>1, <1>2, <1>3, <1>4, <1>5

\* A token is issued: by a login, in a family of its own.
LEMMA FamilyLogin ==
  ASSUME Types, Types', FamilyInv, NEW a \in Apps, Login(a)
  PROVE  FamilyInv'
<1> PICK t \in Fresh : Create(t, t) BY DEF Login
<1>1. UNCHANGED <<work, shared, ended>> BY DEF Login
<1>2. t \in Tokens /\ rows[t] = Unissued /\ ~IsRow(t) BY DEF Fresh, IsRow
<1>3. /\ rows' = [rows EXCEPT ![t] = [state |-> "live", expired |-> FALSE, family |-> t]]
      /\ Family(t)' = t /\ rows'[t] # Unissued
      /\ \A u \in Tokens \ {t} : rows'[u] = rows[u]
  BY <1>2 DEF Create, Family, Types, RowTypes, Unissued
<1>4. \A u \in Tokens : IsRow(u) => Family(u) \in Tokens \ {t}
  <2> SUFFICES ASSUME NEW u \in Tokens, IsRow(u) PROVE Family(u) \in Tokens \ {t} OBVIOUS
  <2>1. Family(u) \in Tokens BY Shapes DEF Types, Family, Row
  <2>2. rows[Family(u)] # Unissued BY DEF FamilyInv, FamiliesIssued
  <2> QED BY <2>1, <2>2, <1>2
<1>5. \A u \in Tokens \ {t} : IsRow(u)' = IsRow(u) /\ Family(u)' = Family(u) /\ Live(u)' = Live(u)
  BY <1>3 DEF IsRow, Family, Live
<1>6. OneHeir'
  <2> SUFFICES ASSUME NEW f \in Tokens \ shared, NEW x \in Tokens \ Olds, NEW y \in Tokens \ Olds,
                      IsRow(x)', IsRow(y)', Family(x)' = f, Family(y)' = f, Live(x)', Live(y)'
               PROVE  x = y
    BY <1>1 DEF OneHeir, Olds
  <2>1. CASE x # t /\ y # t BY <2>1, <1>5 DEF FamilyInv, OneHeir
  <2>2. CASE x = t \/ y = t BY <2>2, <1>3, <1>4, <1>5
  <2> QED BY <2>1, <2>2
<1>7. FamiliesIssued'
  <2>1. \A u \in Tokens : IsRow(u)' => rows'[Family(u)'] # Unissued
    <3> SUFFICES ASSUME NEW u \in Tokens, IsRow(u)' PROVE rows'[Family(u)'] # Unissued OBVIOUS
    <3>1. CASE u = t BY <3>1, <1>3
    <3>2. CASE u # t BY <3>2, <1>3, <1>4, <1>5 DEF FamilyInv, FamiliesIssued
    <3> QED BY <3>1, <3>2
  <2>2. ASSUME NEW f \in ended PROVE rows'[f] # Unissued /\ Rotating(f)' = {}
    <3>1. f \in Tokens \ {t} /\ Rotating(f) = {} /\ rows[f] # Unissued
      BY <1>2 DEF Types, Histories, FamilyInv, FamiliesIssued
    <3>2. ASSUME NEW r \in Rotating(f)' PROVE FALSE
      <4>1. r \in Requests /\ work[r].at = "rotate" /\ IsRow(work[r].token)' /\ Family(work[r].token)' = f
        BY <1>1 DEF Rotating
      <4>2. PICK u \in Tokens : u = work[r].token BY <4>1, Shapes DEF Types, WorkTypes
      <4>3. IsRow(u)' /\ Family(u)' = f BY <4>1, <4>2, <1>1
      <4>4. u # t BY <4>3, <1>3, <3>1
      <4>5. IsRow(u) /\ Family(u) = f BY <4>3, <4>4, <1>5
      <4> QED BY <4>1, <4>2, <4>5, <3>1 DEF Rotating
    <3> QED BY <3>1, <3>2, <1>3
  <2> QED BY <2>1, <2>2, <1>1 DEF FamiliesIssued
<1>8. EndedFamiliesStayDead'
  <2> SUFFICES ASSUME NEW u \in Tokens, IsRow(u)', Family(u)' \in ended PROVE ~Live(u)'
    BY <1>1 DEF EndedFamiliesStayDead
  <2>1. u # t BY <1>2, <1>3 DEF FamilyInv, FamiliesIssued
  <2> QED BY <2>1, <1>5 DEF FamilyInv, EndedFamiliesStayDead
<1> QED BY <1>6, <1>7, <1>8 DEF FamilyInv

\* Or by a rotation, in the family of the token it succeeds.
LEMMA FamilyRotate ==
  ASSUME Types, Types', FamilyInv, NEW r \in Requests, Rotate(r)
  PROVE  FamilyInv'
<1>0. PICK t \in Tokens : t = work[r].token BY Shapes DEF Rotate, Types, WorkTypes
<1>1. work[r].at = "rotate" /\ UNCHANGED ended BY DEF Rotate
<1>2. CASE ~IsRow(t)
  <2>1. UNCHANGED <<rows, shared>> /\ Answer(r, "error", t) BY <1>0, <1>2 DEF Rotate
  <2>2. \A q \in Requests : work'[q] = work[q] \/ (work[q].at # "revoke" /\ work'[q].at # "rotate")
    BY <2>1, <1>1 DEF Answer, Types, WorkTypes
  <2> QED BY <2>1, <2>2, <1>1, FamilyRests
<1>3. CASE IsRow(t)
  <2>1. PICK u \in Fresh :
          /\ Create(u, Family(t))
          /\ work' = [work EXCEPT ![r] = [at |-> "revoke", token |-> t, next |-> u]]
          /\ shared' = IF Live(t) /\ ~Contested(r) THEN shared ELSE shared \cup {Family(t)}
    BY <1>0, <1>3 DEF Rotate
  <2>f. PICK f \in Tokens : f = Family(t) BY <1>3, Shapes DEF Types, Family, Row
  <2>2. u \in Tokens /\ rows[u] = Unissued /\ ~IsRow(u) /\ u # t BY <1>3 DEF Fresh, IsRow
  <2>3. /\ Family(u)' = f /\ rows'[u] # Unissued
        /\ \A x \in Tokens \ {u} : rows'[x] = rows[x]
    BY <2>1, <2>2, <2>f DEF Create, Family, Types, RowTypes, Unissued
  <2>4. \A x \in Tokens \ {u} : IsRow(x)' = IsRow(x) /\ Family(x)' = Family(x) /\ Live(x)' = Live(x)
    BY <2>3 DEF IsRow, Family, Live
  <2>5. \A q \in Requests \ {r} : work'[q] = work[q] BY <2>1 DEF Types, WorkTypes
  <2>6. work'[r] = [at |-> "revoke", token |-> t, next |-> u] BY <2>1 DEF Types, WorkTypes
  <2>7. Olds' = Olds \cup {t}
    <3>1. ASSUME NEW q \in Requests, work[q].at = "revoke" PROVE work'[q] = work[q]
      BY <3>1, <2>5, <1>1
    <3>2. ASSUME NEW q \in Requests, work'[q].at = "revoke" PROVE q = r \/ work'[q] = work[q]
      BY <2>5
    <3>3. Olds \cup {t} \subseteq Olds'
      <4>1. t \in Olds' BY <2>6 DEF Olds
      <4>2. ASSUME NEW q \in Requests, work[q].at = "revoke" PROVE work[q].token \in Olds'
        BY <4>2, <3>1 DEF Olds
      <4> QED BY <4>1, <4>2 DEF Olds
    <3>4. Olds' \subseteq Olds \cup {t}
      <4>1. ASSUME NEW q \in Requests, work'[q].at = "revoke" PROVE work'[q].token \in Olds \cup {t}
        <5>1. CASE q = r
          <6>1. work'[q].token = t BY <5>1, <2>6
          <6> QED BY <6>1
        <5>2. CASE q # r
          <6>1. work'[q] = work[q] BY <5>2, <2>5
          <6> QED BY <4>1, <6>1 DEF Olds
        <5> QED BY <5>1, <5>2
      <4> QED BY <4>1 DEF Olds
    <3> QED BY <3>3, <3>4
  <2>8. f \notin ended
    <3>1. r \in Rotating(f) BY <1>0, <1>1, <1>3, <2>f DEF Rotating
    <3> QED BY <3>1 DEF FamilyInv, FamiliesIssued
  <2>9. OneHeir'
    <3> SUFFICES ASSUME NEW g \in Tokens \ shared', NEW x \in Tokens \ Olds', NEW y \in Tokens \ Olds',
                        IsRow(x)', IsRow(y)', Family(x)' = g, Family(y)' = g, Live(x)', Live(y)'
                 PROVE  x = y
      BY DEF OneHeir
    <3>1. g \notin shared /\ x \notin Olds /\ y \notin Olds /\ x # t /\ y # t BY <2>1, <2>7
    <3>2. CASE x # u /\ y # u BY <3>1, <3>2, <2>4 DEF FamilyInv, OneHeir
    <3>3. ASSUME g = f PROVE \A z \in Tokens \ Olds' : IsRow(z)' /\ Family(z)' = f /\ Live(z)' => z = u
      <4> SUFFICES ASSUME NEW z \in Tokens \ Olds', IsRow(z)', Family(z)' = f, Live(z)', z # u PROVE FALSE
        OBVIOUS
      <4>1. Live(t) /\ ~Contested(r) BY <2>1, <2>f, <3>3
      <4>2. t \notin Olds
        <5>1. \A q \in Requests \ {r} : work[q].at = "revoke" => work[q].token # t
          BY <4>1, <1>0 DEF Contested
        <5> QED BY <5>1, <1>1 DEF Olds
      <4>3. z \notin Olds /\ z # t BY <2>7
      <4>4. IsRow(z) /\ Family(z) = f /\ Live(z) BY <2>4
      <4> QED BY <4>1, <4>2, <4>3, <4>4, <1>3, <2>f, <3>1, <3>3 DEF FamilyInv, OneHeir
    <3>4. CASE x = u \/ y = u
      <4>1. g = f BY <3>4, <2>3
      <4> QED BY <4>1, <3>3
    <3> QED BY <3>2, <3>4
  <2>10. FamiliesIssued'
    <3>1. rows[f] # Unissued /\ f # u BY <1>3, <2>f, <2>2 DEF FamilyInv, FamiliesIssued
    <3>2. \A x \in Tokens : IsRow(x)' => rows'[Family(x)'] # Unissued
      <4> SUFFICES ASSUME NEW x \in Tokens, IsRow(x)' PROVE rows'[Family(x)'] # Unissued OBVIOUS
      <4>1. CASE x = u BY <4>1, <3>1, <2>3
      <4>2. CASE x # u
        <5>1. IsRow(x) /\ Family(x)' = Family(x) BY <4>2, <2>4
        <5>2. Family(x) \in Tokens /\ rows[Family(x)] # Unissued
          BY <5>1, Shapes DEF Types, Family, Row, FamilyInv, FamiliesIssued
        <5> QED BY <5>1, <5>2, <2>3
      <4> QED BY <4>1, <4>2
    <3>3. ASSUME NEW g \in ended PROVE rows'[g] # Unissued /\ Rotating(g)' = {}
      <4>1. g \in Tokens /\ Rotating(g) = {} /\ rows[g] # Unissued
        BY DEF Types, Histories, FamilyInv, FamiliesIssued
      <4>2. ASSUME NEW q \in Rotating(g)' PROVE FALSE
        <5>1. q \in Requests /\ work'[q].at = "rotate" /\ IsRow(work[q].token)' /\ Family(work[q].token)' = g
          BY <4>2 DEF Rotating
        <5>2. q # r BY <5>1, <2>6
        <5>3. PICK z \in Tokens : z = work[q].token BY <5>1, <5>2, <2>5, Shapes DEF Types, WorkTypes
        <5>4. IsRow(z)' /\ Family(z)' = g BY <5>1, <5>2, <5>3, <2>5
        <5>5. z # u BY <5>4, <2>3, <2>8
        <5>6. IsRow(z) /\ Family(z) = g BY <5>4, <5>5, <2>4
        <5>7. q \in Rotating(g) BY <5>1, <5>2, <5>3, <5>6, <2>5 DEF Rotating
        <5> QED BY <5>7, <4>1
      <4> QED BY <4>1, <4>2, <2>3
    <3> QED BY <3>2, <3>3, <1>1 DEF FamiliesIssued
  <2>11. EndedFamiliesStayDead'
    <3> SUFFICES ASSUME NEW x \in Tokens, IsRow(x)', Family(x)' \in ended PROVE ~Live(x)'
      BY <1>1 DEF EndedFamiliesStayDead
    <3>1. x # u BY <2>3, <2>8
    <3> QED BY <3>1, <2>4 DEF FamilyInv, EndedFamiliesStayDead
  <2> QED BY <2>9, <2>10, <2>11 DEF FamilyInv
<1> QED BY <1>2, <1>3

\* Every step keeps them.
LEMMA FamilyStep ==
  ASSUME Types, Types', FamilyInv, [Next]_vars
  PROVE  FamilyInv'
BY FamilyServer, FamilyRevokes, FamilyApps, FamilyLogin, FamilyRotate
   DEF Next, Progress, Serve, Deliver, Fetch, Leave

\* What the invariant says of the number of live tokens.
LEMMA HeirsCounted ==
  ASSUME Types, OneHeir
  PROVE  OneLiveTokenPerFamily
<1> SUFFICES ASSUME NEW f \in Tokens \ shared
             PROVE  Cardinality({t \in Tokens : IsRow(t) /\ Family(t) = f /\ Live(t)})
                      <= 1 + Cardinality({r \in Requests : work[r].at = "revoke"})
  BY DEF OneLiveTokenPerFamily
<1> DEFINE alive == {t \in Tokens : IsRow(t) /\ Family(t) = f /\ Live(t)}
           R     == {r \in Requests : work[r].at = "revoke"}
           h     == [r \in R |-> work[r].token]
<1>1. IsFiniteSet(R) /\ Cardinality(R) \in Nat BY FS_Subset, FS_CardinalityType
<1>2. h \in Surjection(R, Olds) BY DEF Surjection, Olds
<1>3. IsFiniteSet(Olds) /\ Cardinality(Olds) <= Cardinality(R) /\ Cardinality(Olds) \in Nat
  BY <1>1, <1>2, FS_Surjection, FS_CardinalityType
<1>4. PICK x : alive \subseteq Olds \cup {x}
  <2>1. CASE alive \subseteq Olds BY <2>1
  <2>2. CASE ~(alive \subseteq Olds)
    <3>1. PICK y \in alive : y \notin Olds BY <2>2
    <3>2. \A z \in alive : z \notin Olds => z = y BY <3>1 DEF OneHeir
    <3> QED BY <3>2
  <2> QED BY <2>1, <2>2
<1>5. IsFiniteSet(Olds \cup {x}) /\ Cardinality(Olds \cup {x}) <= Cardinality(Olds) + 1
  <2>1. IsFiniteSet(Olds) BY <1>3
  <2>2. /\ IsFiniteSet(Olds \cup {x})
        /\ Cardinality(Olds \cup {x}) = IF x \in Olds THEN Cardinality(Olds) ELSE Cardinality(Olds) + 1
    BY <2>1, FS_AddElement
  <2> QED BY <2>2, <1>3
<1>6. IsFiniteSet(alive) /\ Cardinality(alive) <= Cardinality(Olds \cup {x})
  BY <1>4, <1>5, FS_Subset
<1>7. Cardinality(alive) \in Nat /\ Cardinality(Olds \cup {x}) \in Nat BY <1>5, <1>6, FS_CardinalityType
<1> QED BY <1>1, <1>3, <1>5, <1>6, <1>7

-----------------------------------------------------------------------------
(* Logout.                                                                  *)

\* What the invariant is about, in terms of the app's two pairs.
LEMMA LoadedEmpty ==
  ASSUME Types, NEW a \in Apps
  PROVE  Loaded(a) = Empty <=> mem[a] = Empty /\ disk[a] = Empty
<1>1. mem[a] \in Pair /\ disk[a] \in Pair BY DEF Types, TokenTypes
<1>2. ASSUME mem[a] = Empty, disk[a] = Empty PROVE Loaded(a) = Empty
  <2>1. (mem[a].fresh \/ (mem[a].access = None /\ disk[a].fresh)) = FALSE BY <1>2 DEF Empty
  <2>2. Loaded(a).access = None /\ Loaded(a).token = None BY <1>2 DEF Loaded, Empty
  <2>3. Loaded(a).fresh = FALSE BY <2>1 DEF Loaded
  <2>4. Loaded(a) \in Pair BY PiecesTypes
  <2> QED BY <2>2, <2>3, <2>4 DEF Pair, Empty
<1>3. ASSUME Loaded(a) = Empty PROVE mem[a] = Empty /\ disk[a] = Empty
  <2>1. /\ Loaded(a).access = None /\ Loaded(a).token = None /\ Loaded(a).fresh = FALSE
    BY <1>3 DEF Empty
  <2>2. mem[a].access = None /\ disk[a].access = None BY <2>1 DEF Loaded
  <2>3. mem[a].token = None /\ disk[a].token = None BY <2>1 DEF Loaded
  <2>4. mem[a].fresh = FALSE /\ disk[a].fresh = FALSE BY <1>1, <2>1, <2>2 DEF Loaded, Pair
  <2> QED BY <1>1, <2>2, <2>3, <2>4 DEF Pair, Empty
<1> QED BY <1>2, <1>3

\* A step keeps what the invariant says of app a when it leaves the causes and
\* the tokens of a logged-out app alone.
LEMMA LogoutKept ==
  ASSUME Types, LogoutInv,
         \A a \in Apps : "out" \in causes'[a] =>
           \/ "out" \in causes[a] /\ mem'[a] = mem[a] /\ disk'[a] = disk[a] /\ flight'[a] = flight[a]
           \/ mem'[a] = Empty /\ disk'[a] = Empty /\ flight'[a] = Idle
  PROVE  LogoutInv'
BY DEF LogoutInv

\* Every step keeps it: a logged-out app has nothing to send or to save.
LEMMA LogoutStep ==
  ASSUME Types, LogoutInv, [Next]_vars
  PROVE  LogoutInv'
<1> USE DEF serverVars, clientVars, history
<1>0. ASSUME NEW a \in Apps, "out" \in causes[a]
      PROVE  /\ mem[a] = Empty /\ disk[a] = Empty /\ flight[a] = Idle /\ Loaded(a) = Empty
             /\ Loaded(a).access = None /\ Loaded(a).token = None /\ ~Loaded(a).fresh
             /\ flight[a].at \notin {"asking", "saving"}
  <2>1. mem[a] = Empty /\ disk[a] = Empty /\ flight[a] = Idle BY <1>0 DEF LogoutInv
  <2>2. Loaded(a) = Empty BY <2>1, LoadedEmpty
  <2>3. flight[a].at \notin {"asking", "saving"} BY <2>1 DEF Idle
  <2>4. Empty.access = None /\ Empty.token = None /\ Empty.fresh = FALSE BY DEF Empty
  <2> QED BY <2>1, <2>2, <2>3, <2>4
<1>c. ASSUME NEW c \in {"fault", "logout", "expired"}, BlameAll(c), UNCHANGED <<mem, disk, flight>>
      PROVE  LogoutInv'
  BY <1>c, LogoutKept DEF BlameAll
<1>u. ASSUME UNCHANGED <<causes, mem, disk, flight>> PROVE LogoutInv'
  BY <1>u, LogoutKept
<1>o. ASSUME NEW a \in Apps, NEW c \in {"lost", "logout"}, Blame(a, c), UNCHANGED <<mem, disk>>,
             \A b \in Apps \ {a} : flight'[b] = flight[b],
             flight'[a] = flight[a] \/ flight'[a] = Idle
      PROVE  LogoutInv'
  <2>1. \A b \in Apps : "out" \in causes'[b] => "out" \in causes[b]
    BY <1>o DEF Blame, Types, Histories
  <2> QED BY <2>1, <1>o, <1>0, LogoutKept
<1>1. CASE (KeysNext /\ UNCHANGED sessionVars) \/ Replace \/ CleanupExpiredTokens \/ UNCHANGED vars
  BY <1>1, <1>u DEF sessionVars, vars, Replace, CleanupExpiredTokens
<1>2. ASSUME NEW r \in Requests,
             ReadToken(r) \/ Replay(r) \/ Rotate(r) \/ RevokeOldToken(r) \/ StatementFails(r)
      PROVE  LogoutInv'
  BY <1>2, <1>u, <1>c DEF ReadToken, Replay, Rotate, RevokeOldToken, StatementFails
<1>3. CASE LogoutAll \/ \E t \in Tokens : ExpireToken(t)
  BY <1>3, <1>c DEF LogoutAll, ExpireToken
<1>4. ASSUME NEW a \in Apps, RefreshSucceeds(a) \/ RefreshRefused(a) \/ RefreshErrs(a) PROVE LogoutInv'
  <2>1. /\ flight[a].at = "asking" /\ UNCHANGED causes
        /\ \A b \in Apps \ {a} : mem'[b] = mem[b] /\ disk'[b] = disk[b] /\ flight'[b] = flight[b]
    BY <1>4 DEF RefreshSucceeds, RefreshRefused, RefreshErrs, Received, ClearTokens,
                Types, TokenTypes, FlightTypes
  <2> QED BY <2>1, <1>0, LogoutKept
<1>5. ASSUME NEW a \in Apps, SaveTokens(a) PROVE LogoutInv'
  <2>1. /\ flight[a].at = "saving" /\ UNCHANGED <<causes, mem>>
        /\ \A b \in Apps \ {a} : disk'[b] = disk[b] /\ flight'[b] = flight[b]
    BY <1>5 DEF SaveTokens, Types, TokenTypes, FlightTypes
  <2> QED BY <2>1, <1>0, LogoutKept
<1>6. ASSUME NEW a \in Apps, Login(a) PROVE LogoutInv'
  <2>1. /\ UNCHANGED flight
        /\ "out" \notin causes'[a]
        /\ \A b \in Apps \ {a} : mem'[b] = mem[b] /\ disk'[b] = disk[b] /\ causes'[b] = causes[b]
    BY <1>6 DEF Login, Types, TokenTypes, Histories
  <2> QED BY <2>1, LogoutKept
<1>7. ASSUME NEW a \in Apps, Age(a) PROVE LogoutInv'
  <2>1. /\ Loaded(a).fresh /\ UNCHANGED <<flight, causes>>
        /\ \A b \in Apps \ {a} : mem'[b] = mem[b] /\ disk'[b] = disk[b]
    BY <1>7 DEF Age, Types, TokenTypes
  <2> QED BY <2>1, <1>0, LogoutKept
<1>8. ASSUME NEW a \in Apps, RefreshLost(a) \/ StartLogout(a) PROVE LogoutInv'
  <2>1. \A b \in Apps \ {a} : flight'[b] = flight[b] BY <1>8 DEF RefreshLost, StartLogout, Types, FlightTypes
  <2>2. flight'[a] = flight[a] \/ flight'[a] = Idle BY <1>8 DEF RefreshLost, StartLogout, Types, FlightTypes
  <2> QED BY <2>1, <2>2, <1>8, <1>o DEF RefreshLost, StartLogout
<1>9. ASSUME NEW a \in Apps, FinishLogout(a) PROVE LogoutInv'
  <2>1. /\ mem'[a] = Empty /\ disk'[a] = Empty /\ UNCHANGED flight
        /\ causes'[a] = IF flight[a] = Idle THEN {"out"} ELSE causes[a] \cup {"overlap"}
        /\ \A b \in Apps \ {a} : mem'[b] = mem[b] /\ disk'[b] = disk[b] /\ causes'[b] = causes[b]
    BY <1>9 DEF FinishLogout, ClearTokens, Types, TokenTypes, Histories
  <2>2. "out" \in causes'[a] => flight[a] = Idle BY <2>1, <1>0
  <2> QED BY <2>1, <2>2, LogoutKept
<1>10. ASSUME NEW a \in Apps, Restart(a) \/ KilledClearing(a) PROVE LogoutInv'
  <2>1. \A b \in Apps : "out" \in causes'[b] => "out" \in causes[b] /\ (b = a => Restart(a))
    BY <1>10 DEF Restart, KilledClearing, Blame, Types, Histories
  <2>2. Restart(a) => mem'[a] = disk[a] /\ disk'[a] = disk[a] BY DEF Restart, Types, TokenTypes
  <2> QED BY <1>10, <2>1, <2>2, <1>0, Kills, LogoutKept
<1>11. ASSUME NEW a \in Apps, RevokeOnLogout(a) PROVE LogoutInv'
  BY <1>11, <1>u DEF RevokeOnLogout
<1>12. ASSUME NEW p \in Calls,
              Validate(p) \/ OnDemand(p) \/ CallLost(p) \/ Unauthorized(p)
                \/ \E v \in Validators : StartCall(p, v)
       PROVE  LogoutInv'
  <2> PICK a \in Apps : a = p[1] BY DEF Calls
  <2>1. CASE Validate(p) \/ OnDemand(p) \/ CallLost(p)
    BY <2>1, <1>u DEF Validate, OnDemand, FetchKey, HandKeyOn, RetryValidation, CallLost
  <2>2. CASE Unauthorized(p) \/ \E v \in Validators : StartCall(p, v)
    <3>1. UNCHANGED causes BY <2>2 DEF Unauthorized, StartCall
    <3>2. \A b \in Apps \ {a} : mem'[b] = mem[b] /\ disk'[b] = disk[b] /\ flight'[b] = flight[b]
      <4>1. ASSUME NEW m, mem' = [mem EXCEPT ![a] = m] \/ mem' = [mem EXCEPT ![a].token = m]
            PROVE  \A b \in Apps \ {a} : mem'[b] = mem[b]
        BY <4>1 DEF Types, TokenTypes
      <4>2. \A b \in Apps \ {a} : mem'[b] = mem[b]
        BY <2>2, <4>1 DEF Unauthorized, StartCall, ClearTokens
      <4>3. \A b \in Apps \ {a} : disk'[b] = disk[b]
        BY <2>2 DEF Unauthorized, StartCall, ClearTokens, Types, TokenTypes
      <4>4. UNCHANGED flight \/ RefreshAccessToken(a) BY <2>2 DEF Unauthorized, StartCall
      <4>5. \A b \in Apps \ {a} : flight'[b] = flight[b] BY <4>4 DEF RefreshAccessToken, Post, Types, FlightTypes
      <4> QED BY <4>2, <4>3, <4>5
    <3>3. ASSUME "out" \in causes[a]
          PROVE  mem'[a] = Empty /\ disk'[a] = Empty /\ flight'[a] = Idle
      <4>1. Unauthorized(p) BY <2>2, <3>3, <1>0 DEF StartCall
      <4>2. ClearTokens(a) /\ UNCHANGED flight BY <4>1, <3>3, <1>0 DEF Unauthorized, Hopeless
      <4> QED BY <4>2, <3>3, <1>0 DEF ClearTokens, Types, TokenTypes
    <3> QED BY <3>1, <3>2, <3>3, LogoutKept
  <2> QED BY <2>1, <2>2, <1>12
<1> QED
  BY <1>1, <1>2, <1>3, <1>4, <1>5, <1>6, <1>7, <1>8, <1>9, <1>10, <1>11, <1>12
     DEF Next, Progress, Serve, Deliver, Fetch, Leave

\* A step keeps the other half when it leaves an app that is over alone.
LEMMA ClearedKept ==
  ASSUME ClearedInv,
         \A a \in Apps : "cleared" \in causes'[a] =>
           \/ Over(a)'
           \/ /\ "cleared" \in causes[a]
              /\ mem'[a].access = mem[a].access /\ disk'[a].access = disk[a].access
              /\ flight'[a] = flight[a]
              /\ \A p \in Calls : p[1] = a => call'[p] = call[p]
  PROVE  ClearedInv'
BY DEF ClearedInv, Over

\* An app killed while its tokens were thrown away starts nothing, and is
\* sent nothing, before the next login.
LEMMA ClearedStep ==
  ASSUME Types, ClearedInv, [Next]_vars
  PROVE  ClearedInv'
<1> USE DEF serverVars, clientVars, history
<1>0. ASSUME NEW a \in Apps, "cleared" \in causes[a]
      PROVE  /\ Over(a) /\ Loaded(a).access = None
             /\ flight[a].at \notin {"asking", "saving"}
             /\ \A p \in Calls : p[1] = a => call[p] = Idle /\ call[p].at = "idle"
  BY <1>0 DEF ClearedInv, Over, Loaded, Idle
<1>u. ASSUME UNCHANGED <<mem, disk, flight, call>>,
             \A a \in Apps : "cleared" \in causes'[a] => "cleared" \in causes[a]
      PROVE  ClearedInv'
  BY <1>u, ClearedKept
<1>b. ASSUME NEW c \in {"fault", "logout", "expired"}, BlameAll(c)
      PROVE  \A a \in Apps : "cleared" \in causes'[a] => "cleared" \in causes[a]
  BY <1>b DEF BlameAll
<1>o. ASSUME NEW a \in Apps,
             "cleared" \in causes'[a] => Over(a)',
             \A b \in Apps \ {a} :
               /\ mem'[b] = mem[b] /\ disk'[b] = disk[b] /\ flight'[b] = flight[b] /\ causes'[b] = causes[b]
               /\ \A p \in Calls : p[1] = b => call'[p] = call[p]
      PROVE  ClearedInv'
  BY <1>o, ClearedKept
<1>1. CASE (KeysNext /\ UNCHANGED sessionVars) \/ Replace \/ CleanupExpiredTokens \/ UNCHANGED vars
  BY <1>1, <1>u DEF sessionVars, vars, Replace, CleanupExpiredTokens
<1>2. ASSUME NEW r \in Requests,
             ReadToken(r) \/ Replay(r) \/ Rotate(r) \/ RevokeOldToken(r) \/ StatementFails(r)
      PROVE  ClearedInv'
  BY <1>2, <1>u, <1>b DEF ReadToken, Replay, Rotate, RevokeOldToken, StatementFails
<1>3. CASE LogoutAll \/ \E t \in Tokens : ExpireToken(t)
  BY <1>3, <1>u, <1>b DEF LogoutAll, ExpireToken
<1>4. ASSUME NEW a \in Apps,
             RefreshSucceeds(a) \/ RefreshRefused(a) \/ RefreshErrs(a) \/ SaveTokens(a) \/ RefreshLost(a)
      PROVE  ClearedInv'
  <2>1. flight[a].at \in {"asking", "saving"}
    BY <1>4 DEF RefreshSucceeds, RefreshRefused, RefreshErrs, SaveTokens, RefreshLost, Received
  <2>2. \A b \in Apps \ {a} : mem'[b] = mem[b] /\ disk'[b] = disk[b] /\ flight'[b] = flight[b] /\ causes'[b] = causes[b]
    BY <1>4 DEF RefreshSucceeds, RefreshRefused, RefreshErrs, SaveTokens, RefreshLost, ClearTokens, Blame,
                Types, TokenTypes, FlightTypes, Histories
  <2>3. \A p \in Calls : p[1] # a => call'[p] = call[p]
    <3>1. UNCHANGED call \/ GiveUp(a) \/ \E m : Resume(a, m)
      BY <1>4, Zenon DEF RefreshSucceeds, RefreshRefused, RefreshErrs, SaveTokens, RefreshLost
    <3> QED BY <3>1 DEF GiveUp, Resume
  <2>4. "cleared" \notin causes'[a]
    <3>1. "cleared" \notin causes[a] BY <2>1, <1>0
    <3>2. UNCHANGED causes \/ Blame(a, "lost")
      BY <1>4 DEF RefreshSucceeds, RefreshRefused, RefreshErrs, SaveTokens, RefreshLost
    <3> QED BY <3>1, <3>2 DEF Blame, Types, Histories
  <2> QED BY <2>2, <2>3, <2>4, <1>o
<1>5. ASSUME NEW a \in Apps, Login(a) PROVE ClearedInv'
  <2>1. /\ UNCHANGED <<flight, call>> /\ "cleared" \notin causes'[a]
        /\ \A b \in Apps \ {a} : mem'[b] = mem[b] /\ disk'[b] = disk[b] /\ causes'[b] = causes[b]
    BY <1>5 DEF Login, Types, TokenTypes, Histories
  <2> QED BY <2>1, <1>o
<1>6. ASSUME NEW a \in Apps, Age(a) PROVE ClearedInv'
  <2>1. /\ UNCHANGED <<flight, call, causes>>
        /\ \A b \in Apps : mem'[b].access = mem[b].access /\ disk'[b].access = disk[b].access
    BY <1>6 DEF Age, Types, TokenTypes, Pair
  <2> QED BY <2>1, ClearedKept
<1>7. ASSUME NEW a \in Apps, StartLogout(a) \/ RevokeOnLogout(a) PROVE ClearedInv'
  <2>1. \A b \in Apps : "cleared" \in causes'[b] => "cleared" \in causes[b]
    BY <1>7 DEF StartLogout, RevokeOnLogout, Blame, Types, Histories
  <2> QED BY <1>7, <2>1, <1>u DEF StartLogout, RevokeOnLogout
<1>8. ASSUME NEW a \in Apps, FinishLogout(a) PROVE ClearedInv'
  <2>1. /\ mem'[a] = Empty /\ disk'[a] = Empty /\ UNCHANGED <<flight, call>>
        /\ causes'[a] = IF flight[a] = Idle THEN {"out"} ELSE causes[a] \cup {"overlap"}
        /\ \A b \in Apps \ {a} : mem'[b] = mem[b] /\ disk'[b] = disk[b] /\ causes'[b] = causes[b]
    BY <1>8 DEF FinishLogout, ClearTokens, Types, TokenTypes, Histories
  <2>2. "cleared" \in causes'[a] => Over(a)' BY <2>1, <1>0 DEF Over, Empty
  <2> QED BY <2>1, <2>2, <1>o
<1>9. ASSUME NEW a \in Apps, Restart(a) \/ KilledClearing(a) PROVE ClearedInv'
  <2>1. \A b \in Apps \ {a} : causes'[b] = causes[b]
    BY <1>9 DEF Restart, KilledClearing, Blame, Types, Histories
  <2>2. "cleared" \in causes'[a] => disk'[a].access = None
    <3>1. CASE Restart(a)
      <4>1. "cleared" \in causes'[a] => "cleared" \in causes[a] BY <3>1 DEF Restart, Blame, Types, Histories
      <4>2. disk'[a] = disk[a] BY <3>1 DEF Restart
      <4> QED BY <4>1, <4>2, <1>0 DEF Over
    <3>2. CASE KilledClearing(a) BY <3>2 DEF KilledClearing, Types, TokenTypes, Pair
    <3> QED BY <3>1, <3>2, <1>9
  <2>3. "cleared" \in causes'[a] => Over(a)' BY <2>2, <1>9, Kills DEF Over
  <2>4. \A p \in Calls : p[1] # a => call'[p] = call[p] BY <1>9, Kills
  <2> QED BY <1>9, <2>1, <2>3, <2>4, <1>o, Kills
<1>10. ASSUME NEW p \in Calls,
              Validate(p) \/ OnDemand(p) \/ CallLost(p) \/ Unauthorized(p)
                \/ \E v \in Validators : StartCall(p, v)
       PROVE  ClearedInv'
  <2> PICK a \in Apps : a = p[1] BY DEF Calls
  <2>0. UNCHANGED causes
    BY <1>10 DEF Validate, OnDemand, FetchKey, HandKeyOn, RetryValidation, CallLost, Unauthorized, StartCall
  <2>1. "cleared" \notin causes[a]
    <3>1. CASE \E v \in Validators : StartCall(p, v) BY <3>1, <1>0 DEF StartCall
    <3>2. CASE Validate(p) \/ OnDemand(p) \/ CallLost(p) \/ Unauthorized(p)
      <4>1. call[p].at # "idle"
        BY <3>2 DEF Validate, OnDemand, FetchKey, HandKeyOn, RetryValidation, CallLost, Unauthorized
      <4> QED BY <4>1, <1>0
    <3> QED BY <3>1, <3>2, <1>10
  <2>2. \A b \in Apps \ {a} : mem'[b] = mem[b] /\ disk'[b] = disk[b] /\ flight'[b] = flight[b]
    <3>1. UNCHANGED <<mem, disk>> \/ ClearTokens(a)
            \/ (UNCHANGED disk /\ \E m : mem' = [mem EXCEPT ![a] = m])
      BY <1>10, Zenon DEF Validate, OnDemand, FetchKey, HandKeyOn, RetryValidation, CallLost, Unauthorized, StartCall
    <3>2. UNCHANGED flight \/ RefreshAccessToken(a)
      BY <1>10, Zenon DEF Validate, OnDemand, FetchKey, HandKeyOn, RetryValidation, CallLost, Unauthorized, StartCall
    <3>3. \A b \in Apps \ {a} : mem'[b] = mem[b] /\ disk'[b] = disk[b]
      BY <3>1 DEF ClearTokens, Types, TokenTypes
    <3>4. \A b \in Apps \ {a} : flight'[b] = flight[b]
      BY <3>2 DEF RefreshAccessToken, Post, Types, FlightTypes
    <3> QED BY <3>3, <3>4
  <2>3. \A q \in Calls : q[1] # a => call'[q] = call[q]
    BY <1>10 DEF Validate, OnDemand, FetchKey, HandKeyOn, RetryValidation, Accepted, CallLost, Unauthorized,
                 StartCall, Types, CallTypes
  <2> QED BY <2>0, <2>1, <2>2, <2>3, <1>o
<1> QED
  BY <1>1, <1>2, <1>3, <1>4, <1>5, <1>6, <1>7, <1>8, <1>9, <1>10
     DEF Next, Progress, Serve, Deliver, Fetch, Leave

-----------------------------------------------------------------------------
(* A session that nothing has disturbed.                                    *)

\* Once a token is issued its id is never free again.
LEMMA RowsGrow ==
  ASSUME Types, [Next]_vars
  PROVE  \A t \in Tokens : rows'[t] = Unissued => rows[t] = Unissued
<1> SUFFICES ASSUME NEW t \in Tokens, rows[t] # Unissued PROVE rows'[t] # Unissued
  OBVIOUS
<1> USE DEF serverVars, clientVars, history
<1>u. UNCHANGED rows => rows'[t] # Unissued OBVIOUS
<1>r. ASSUME NEW S, RevokeRows(S) PROVE rows'[t] # Unissued
  <2>1. CASE t \in S /\ IsRow(t)
    <3>1. rows'[t] = [rows[t] EXCEPT !.state = "revoked"] /\ rows[t] \in Row
      BY <1>r, <2>1, Shapes DEF RevokeRows, Types
    <3> QED BY <3>1 DEF Row, Unissued
  <2>2. CASE ~(t \in S /\ IsRow(t)) BY <2>2, <1>r DEF RevokeRows
  <2> QED BY <2>1, <2>2
<1>c. ASSUME NEW u \in Fresh, NEW f, Create(u, f) PROVE rows'[t] # Unissued
  BY <1>c DEF Create, Fresh, Types, RowTypes, Unissued
<1>1. CASE KeysNext /\ UNCHANGED sessionVars BY <1>1, <1>u DEF sessionVars
<1>2. CASE Replace \/ UNCHANGED vars BY <1>2, <1>u DEF Replace, vars, sessionVars
<1>3. ASSUME NEW r \in Requests,
             ReadToken(r) \/ Replay(r) \/ Rotate(r) \/ RevokeOldToken(r) \/ StatementFails(r)
      PROVE  rows'[t] # Unissued
  <2>1. CASE ReadToken(r)
    <3>1. UNCHANGED rows \/ \E S : RevokeRows(S)
      <4>1. CASE ~IsRow(work[r].token) BY <4>1, <2>1 DEF ReadToken
      <4>2. CASE IsRow(work[r].token) /\ rows[work[r].token].expired BY <4>2, <2>1 DEF ReadToken, RevokeToken
      <4>3. CASE IsRow(work[r].token) /\ ~rows[work[r].token].expired BY <4>3, <2>1 DEF ReadToken
      <4> QED BY <4>1, <4>2, <4>3
    <3> QED BY <3>1, <1>u, <1>r
  <2>2. CASE Replay(r)
    <3>1. UNCHANGED rows \/ \E S : RevokeRows(S) BY <2>2 DEF Replay, RevokeTokenFamily
    <3> QED BY <3>1, <1>u, <1>r
  <2>3. CASE Rotate(r)
    <3>1. UNCHANGED rows \/ \E u \in Fresh, f \in {Family(work[r].token)} : Create(u, f)
      BY <2>3 DEF Rotate
    <3> QED BY <3>1, <1>u, <1>c
  <2>4. CASE RevokeOldToken(r) BY <2>4, <1>r DEF RevokeOldToken, RevokeToken
  <2>5. CASE StatementFails(r)
    <3>1. UNCHANGED rows \/ RevokeRows({work[r].token}) BY <2>5 DEF StatementFails, RevokeToken
    <3> QED BY <3>1, <1>u, <1>r
  <2> QED BY <2>1, <2>2, <2>3, <2>4, <2>5, <1>3
<1>4. CASE LogoutAll BY <1>4, <1>r DEF LogoutAll
<1>5. CASE CleanupExpiredTokens BY <1>5 DEF CleanupExpiredTokens, Purged, Unissued
<1>6. ASSUME NEW x \in Tokens, ExpireToken(x) PROVE rows'[t] # Unissued
  <2>1. rows' = [rows EXCEPT ![x].expired = TRUE] /\ rows[x] \in Row BY <1>6, Shapes DEF ExpireToken, Types
  <2>2. rows'[x] \in Row BY <2>1 DEF Types, RowTypes, Row
  <2> QED BY <2>1, <2>2, Shapes DEF Types, RowTypes
<1>7. ASSUME NEW a \in Apps,
             \/ Age(a) \/ RefreshSucceeds(a) \/ SaveTokens(a) \/ RefreshRefused(a) \/ RefreshErrs(a)
             \/ RefreshLost(a) \/ StartLogout(a) \/ FinishLogout(a) \/ Restart(a) \/ KilledClearing(a)
      PROVE  rows'[t] # Unissued
  BY <1>7, <1>u, Kills DEF Age, RefreshSucceeds, SaveTokens, RefreshRefused, RefreshErrs, RefreshLost,
                           StartLogout, FinishLogout
<1>8. ASSUME NEW a \in Apps, Login(a) \/ RevokeOnLogout(a) PROVE rows'[t] # Unissued
  BY <1>8, <1>r, <1>c DEF Login, RevokeOnLogout, RevokeToken
<1>9. ASSUME NEW p \in Calls,
             Validate(p) \/ OnDemand(p) \/ CallLost(p) \/ Unauthorized(p)
               \/ \E v \in Validators : StartCall(p, v)
      PROVE  rows'[t] # Unissued
  BY <1>9, <1>u DEF Validate, OnDemand, FetchKey, HandKeyOn, RetryValidation, CallLost, Unauthorized, StartCall
<1> QED
  BY <1>1, <1>2, <1>3, <1>4, <1>5, <1>6, <1>7, <1>8, <1>9
     DEF Next, Progress, Serve, Deliver, Fetch, Leave

\* The request an app waits for.
LEMMA Asking ==
  ASSUME Types, NEW b \in Apps, flight[b].at = "asking"
  PROVE  flight[b].req \in Requests
<1>1. flight[b] \in Flights BY DEF Types, FlightTypes
<1>2. flight[b] \in [at : {"asking"}, req : Requests] BY <1>1 DEF Flights, Idle
<1> QED BY <1>2

\* A step that hands on references it has, or none.
LEMMA RefsKept ==
  ASSUME Types, Types', [Next]_vars, ReferencesIssued,
         \A r \in Requests : work'[r] = work[r] \/ (RequestRefs(r)' /\ work'[r].at # "unused"),
         \A a \in Apps :
           \/ mem'[a] = mem[a] /\ disk'[a] = disk[a] /\ flight'[a] = flight[a] /\ leaving'[a] = leaving[a]
           \/ AppRefs(a)'
  PROVE  ReferencesIssued'
<1>1. \A t \in Tokens \cup {None} : Issued(t) => (t = None \/ rows'[t] # Unissued)
  BY RowsGrow DEF Issued
<1>2. ASSUME NEW r \in Requests PROVE RequestRefs(r)'
  <2>1. CASE work'[r] = work[r]
    <3>1. work[r].at \in {"read", "rotate", "replay", "revoke", "answer"} => work[r].token \in Tokens
      BY Shapes DEF Types, WorkTypes
    <3>2. work[r].at = "revoke" => work[r].next \in Tokens BY Shapes DEF Types, WorkTypes
    <3> QED BY <2>1, <3>1, <3>2, <1>1 DEF ReferencesIssued, RequestRefs, Issued
  <2>2. CASE RequestRefs(r)' BY <2>2
  <2> QED BY <2>1, <2>2
<1>3. ASSUME NEW a \in Apps PROVE AppRefs(a)'
  <2>1. CASE mem'[a] = mem[a] /\ disk'[a] = disk[a] /\ flight'[a] = flight[a] /\ leaving'[a] = leaving[a]
    <3>1. mem[a].token \in Tokens \cup {None} /\ disk[a].token \in Tokens \cup {None}
      BY DEF Types, TokenTypes, Pair
    <3>2. flight[a].at = "saving" => flight[a].pair.token \in Tokens \cup {None}
      BY DEF Types, FlightTypes, Flights, Pair, Idle
    <3>3. leaving[a].at = "posted" => leaving[a].token \in Tokens
      BY DEF Types, FlightTypes, Leavings, Idle
    <3>4. flight[a].at = "asking" => work'[flight[a].req].at # "unused"
      <4> SUFFICES ASSUME flight[a].at = "asking" PROVE work'[flight[a].req].at # "unused" OBVIOUS
      <4>1. PICK r \in Requests : r = flight[a].req BY Asking
      <4>2. work[r].at # "unused" BY <4>1 DEF ReferencesIssued, AppRefs
      <4> QED BY <4>1, <4>2
    <3> QED BY <2>1, <3>1, <3>2, <3>3, <3>4, <1>1 DEF ReferencesIssued, AppRefs, Issued
  <2>2. CASE AppRefs(a)' BY <2>2
  <2> QED BY <2>1, <2>2
<1> QED BY <1>2, <1>3 DEF ReferencesIssued

\* What a step of a request does to the requests.
LEMMA RequestStep ==
  ASSUME Types, NEW r \in Requests,
         ReadToken(r) \/ Replay(r) \/ Rotate(r) \/ RevokeOldToken(r) \/ StatementFails(r)
  PROVE  /\ work[r].at \in {"read", "rotate", "replay", "revoke"}
         /\ \A q \in Requests \ {r} : work'[q] = work[q]
         /\ \/ /\ work'[r].at \in {"rotate", "replay"} /\ work[r].at = "read"
               /\ work'[r].token = work[r].token
            \/ /\ work'[r].at = "revoke" /\ work[r].at = "rotate"
               /\ work'[r].token = work[r].token /\ work'[r].next \in Fresh
               /\ rows' = [rows EXCEPT ![work'[r].next] =
                             [state |-> "live", expired |-> FALSE, family |-> Family(work[r].token)]]
            \/ /\ work'[r].at = "answer" /\ work'[r].key = signer
               /\ \/ work'[r].token = work[r].token
                  \/ work[r].at = "revoke" /\ work'[r].token = work[r].next
<1> USE DEF Types, WorkTypes
<1>a. ASSUME NEW status, NEW t, Answer(r, status, t)
      PROVE  /\ \A q \in Requests \ {r} : work'[q] = work[q]
             /\ work'[r].at = "answer" /\ work'[r].key = signer /\ work'[r].token = t
  BY <1>a DEF Answer
<1>1. CASE ReadToken(r)
  <2>1. work[r].at = "read" BY <1>1 DEF ReadToken
  <2>2. work[r] \in [at : {"read"}, token : Tokens]
    <3>1. work[r] \in Requested OBVIOUS
    <3> HIDE DEF Types, WorkTypes
    <3> QED BY <3>1, <2>1 DEF Requested, Unused
  <2>3. \/ Answer(r, "refused", work[r].token)
        \/ work' = [work EXCEPT ![r].at = IF Live(work[r].token) THEN "rotate" ELSE "replay"]
    <3>1. CASE ~IsRow(work[r].token) BY <3>1, <1>1 DEF ReadToken
    <3>2. CASE IsRow(work[r].token) /\ rows[work[r].token].expired BY <3>2, <1>1 DEF ReadToken
    <3>3. CASE IsRow(work[r].token) /\ ~rows[work[r].token].expired BY <3>3, <1>1 DEF ReadToken
    <3> QED BY <3>1, <3>2, <3>3
  <2>4. CASE work' = [work EXCEPT ![r].at = IF Live(work[r].token) THEN "rotate" ELSE "replay"]
    <3>1. work'[r] = [work[r] EXCEPT !.at = IF Live(work[r].token) THEN "rotate" ELSE "replay"]
          /\ \A q \in Requests \ {r} : work'[q] = work[q]
      BY <2>4
    <3>2. work'[r].at \in {"rotate", "replay"} /\ work'[r].token = work[r].token BY <3>1, <2>2
    <3> QED BY <3>1, <3>2, <2>1
  <2> QED BY <2>1, <2>3, <2>4, <1>a
<1>2. CASE Replay(r) BY <1>2, <1>a DEF Replay
<1>3. CASE Rotate(r)
  <2>1. work[r].at = "rotate" BY <1>3 DEF Rotate
  <2>2. CASE ~IsRow(work[r].token)
    <3>1. Answer(r, "error", work[r].token) BY <2>2, <1>3 DEF Rotate
    <3> QED BY <3>1, <2>1, <1>a
  <2>3. CASE IsRow(work[r].token)
    <3>1. PICK u \in Fresh :
            /\ Create(u, Family(work[r].token))
            /\ work' = [work EXCEPT ![r] = [at |-> "revoke", token |-> work[r].token, next |-> u]]
      BY <2>3, <1>3 DEF Rotate
    <3> QED BY <3>1, <2>1 DEF Create
  <2> QED BY <2>2, <2>3
<1>4. CASE RevokeOldToken(r) BY <1>4, <1>a DEF RevokeOldToken
<1>5. CASE StatementFails(r)
  <2>1. /\ work[r].at \in {"read", "rotate", "replay", "revoke"}
        /\ \/ \E status \in {"error", "refused"} : Answer(r, status, work[r].token)
           \/ work[r].at = "revoke" /\ Answer(r, "ok", work[r].next)
    BY <1>5 DEF StatementFails
  <2> QED BY <2>1, <1>a
<1> QED BY <1>1, <1>2, <1>3, <1>4, <1>5

\* What an app does to the requests when it refreshes.
LEMMA PostStep ==
  ASSUME Types, NEW a \in Apps, RefreshAccessToken(a)
  PROVE  \/ UNCHANGED <<work, flight>> /\ flight[a] # Idle
         \/ /\ flight[a] = Idle
            /\ \E r \in Requests :
                 /\ work[r] = Unused
                 /\ work'[r] = [at |-> "read", token |-> Loaded(a).token]
                 /\ \A q \in Requests \ {r} : work'[q] = work[q]
                 /\ flight'[a] = [at |-> "asking", req |-> r]
                 /\ \A b \in Apps \ {a} : flight'[b] = flight[b]
<1>1. CASE flight[a] # Idle BY <1>1 DEF RefreshAccessToken
<1>2. CASE flight[a] = Idle
  <2>1. PICK r \in NextRequest :
          /\ work' = [work EXCEPT ![r] = [at |-> "read", token |-> Loaded(a).token]]
          /\ flight' = [flight EXCEPT ![a] = [at |-> "asking", req |-> r]]
    BY <1>2 DEF RefreshAccessToken, Post
  <2> QED BY <2>1, <1>2 DEF NextRequest, Types, WorkTypes, FlightTypes
<1> QED BY <1>1, <1>2

\* What the answer to an app's refresh does to the requests.
LEMMA ReceivedStep ==
  ASSUME Types, NEW a \in Apps, RefreshSucceeds(a) \/ RefreshRefused(a) \/ RefreshErrs(a)
  PROVE  \E r \in Requests :
           /\ flight[a] = [at |-> "asking", req |-> r]
           /\ work[r].at = "answer" /\ work'[r] = [at |-> "over"]
           /\ \A q \in Requests \ {r} : work'[q] = work[q]
           /\ \A b \in Apps \ {a} : mem'[b] = mem[b] /\ disk'[b] = disk[b] /\ flight'[b] = flight[b]
           /\ UNCHANGED <<keyVars, rows, leaving, causes>>
           /\ \/ /\ work[r].status = "ok" /\ UNCHANGED call
                 /\ mem'[a] = [access |-> work[r].key, token |-> work[r].token, fresh |-> TRUE]
                 /\ disk'[a] = [disk[a] EXCEPT !.access = work[r].key]
                 /\ flight'[a] = [at |-> "saving", pair |-> mem'[a]]
              \/ /\ work[r].status # "ok" /\ GiveUp(a) /\ flight'[a] = Idle
                 /\ \/ mem'[a] = mem[a] /\ disk'[a] = disk[a]
                    \/ mem'[a] = Empty /\ disk'[a] = Empty
<1> USE DEF Types, WorkTypes, TokenTypes, FlightTypes, Received, history
<1>1. flight[a].at = "asking" BY DEF RefreshSucceeds, RefreshRefused, RefreshErrs
<1>2. flight[a] \in [at : {"asking"}, req : Requests] BY <1>1 DEF Flights, Idle
<1>3. PICK r \in Requests : flight[a] = [at |-> "asking", req |-> r] BY <1>2
<1>4. flight[a].req = r BY <1>3
<1>5. /\ work[r].at = "answer" /\ work'[r] = [at |-> "over"]
      /\ \A q \in Requests \ {r} : work'[q] = work[q]
      /\ UNCHANGED <<keyVars, rows, leaving, causes>>
      /\ \A b \in Apps \ {a} : flight'[b] = flight[b]
  BY <1>4 DEF RefreshSucceeds, RefreshRefused, RefreshErrs
<1>6. CASE RefreshSucceeds(a)
  <2> DEFINE w == work[flight[a].req]
             pair == [access |-> w.key, token |-> w.token, fresh |-> TRUE]
  <2>1. /\ w.status = "ok" /\ UNCHANGED call
        /\ mem' = [mem EXCEPT ![a] = pair] /\ disk' = [disk EXCEPT ![a].access = w.key]
        /\ flight' = [flight EXCEPT ![a] = [at |-> "saving", pair |-> pair]]
    BY <1>6 DEF RefreshSucceeds
  <2>2. w = work[r] BY <1>4
  <2> HIDE DEF w
  <2> QED BY <1>3, <1>5, <2>1, <2>2
<1>7. CASE RefreshRefused(a) \/ RefreshErrs(a)
  <2>1. work[r].status # "ok" /\ GiveUp(a) /\ flight' = [flight EXCEPT ![a] = Idle]
    BY <1>7, <1>4 DEF RefreshRefused, RefreshErrs
  <2>2. \/ UNCHANGED <<mem, disk>>
        \/ mem' = [mem EXCEPT ![a] = Empty] /\ disk' = [disk EXCEPT ![a] = Empty]
    BY <1>7 DEF RefreshRefused, RefreshErrs, ClearTokens
  <2>3. \A b \in Apps \ {a} : mem'[b] = mem[b] /\ disk'[b] = disk[b] BY <2>2
  <2>4. \/ mem'[a] = mem[a] /\ disk'[a] = disk[a]
        \/ mem'[a] = Empty /\ disk'[a] = Empty
    BY <2>2
  <2> QED BY <1>3, <1>5, <2>1, <2>3, <2>4
<1> QED BY <1>6, <1>7

\* Every step hands on what it has been given, or a token it issues.
LEMMA RefsStep ==
  ASSUME Types, Types', [Next]_vars, ReferencesIssued
  PROVE  ReferencesIssued'
<1> USE DEF serverVars, clientVars, history
<1>g. \A t \in Tokens : Issued(t) => rows'[t] # Unissued
  BY RowsGrow DEF Issued, None
<1>s. ASSUME UNCHANGED <<work, mem, disk, flight, leaving>> PROVE ReferencesIssued'
  BY <1>s, RefsKept
<1>w. ASSUME NEW t \in Tokens, Issued(t) PROVE Issued(t)'
  BY <1>w, <1>g DEF Issued
<1>a. ASSUME NEW a \in Apps
      PROVE  /\ mem[a].token \in Tokens => Issued(mem[a].token)
             /\ disk[a].token \in Tokens => Issued(disk[a].token)
             /\ mem[a].token \in Tokens \cup {None} /\ disk[a].token \in Tokens \cup {None}
             /\ Loaded(a).token \in {mem[a].token, disk[a].token}
  BY DEF ReferencesIssued, AppRefs, Types, TokenTypes, Pair, Loaded
<1>n. Issued(None)' BY DEF Issued
<1>1. ASSUME NEW r \in Requests,
             ReadToken(r) \/ Replay(r) \/ Rotate(r) \/ RevokeOldToken(r) \/ StatementFails(r)
      PROVE  ReferencesIssued'
  <2>1. UNCHANGED <<mem, disk, flight, leaving>>
    BY <1>1 DEF ReadToken, Replay, Rotate, RevokeOldToken, StatementFails
  <2>2. RequestRefs(r)'
    <3>1. /\ Issued(work[r].token) /\ work[r].token \in Tokens
          /\ work[r].at = "revoke" => Issued(work[r].next) /\ work[r].next \in Tokens
      BY <1>1, RequestStep, Shapes DEF ReferencesIssued, RequestRefs, Types, WorkTypes
    <3>2. CASE work'[r].at = "revoke"
      <4>1. PICK u \in Fresh : /\ u = work'[r].next /\ work'[r].token = work[r].token
                               /\ rows' = [rows EXCEPT ![u] = [state |-> "live", expired |-> FALSE,
                                                               family |-> Family(work[r].token)]]
        BY <1>1, <3>2, RequestStep
      <4>2. u \in Tokens /\ rows'[u] # Unissued
        BY <4>1 DEF Fresh, Types, RowTypes, Unissued
      <4>3. Issued(work[r].token)' BY <4>1, <3>1, <1>g DEF Issued
      <4> QED BY <4>1, <4>2, <4>3 DEF RequestRefs, Issued
    <3>3. CASE work'[r].at # "revoke"
      <4>1. work'[r].token = work[r].token \/ (work[r].at = "revoke" /\ work'[r].token = work[r].next)
        BY <1>1, <3>3, RequestStep
      <4>2. Issued(work[r].token)' BY <4>1, <3>1, <1>g DEF Issued
      <4> QED BY <4>2, <3>3 DEF RequestRefs
    <3> QED BY <3>2, <3>3
  <2>3. \A q \in Requests \ {r} : work'[q] = work[q] BY <1>1, RequestStep
  <2>4. work'[r].at # "unused" BY <1>1, RequestStep
  <2> QED BY <2>1, <2>2, <2>3, <2>4, RefsKept
<1>2. CASE \/ LogoutAll \/ CleanupExpiredTokens \/ Replace \/ UNCHANGED vars
           \/ KeysNext /\ UNCHANGED sessionVars
           \/ \E t \in Tokens : ExpireToken(t)
  BY <1>2, <1>s DEF LogoutAll, CleanupExpiredTokens, Replace, vars, sessionVars, ExpireToken
<1>b. ASSUME NEW a \in Apps, AppRefs(a)', UNCHANGED work,
             \A b \in Apps \ {a} : /\ mem'[b] = mem[b] /\ disk'[b] = disk[b]
                                   /\ flight'[b] = flight[b] /\ leaving'[b] = leaving[b]
      PROVE  ReferencesIssued'
  BY <1>b, RefsKept
<1>3. ASSUME NEW a \in Apps, RefreshSucceeds(a) \/ RefreshRefused(a) \/ RefreshErrs(a)
      PROVE  ReferencesIssued'
  <2>1. PICK r \in Requests :
           /\ work[r].at = "answer" /\ work'[r] = [at |-> "over"]
           /\ \A q \in Requests \ {r} : work'[q] = work[q]
           /\ \A b \in Apps \ {a} : mem'[b] = mem[b] /\ disk'[b] = disk[b] /\ flight'[b] = flight[b]
           /\ UNCHANGED leaving
           /\ \/ /\ mem'[a] = [access |-> work[r].key, token |-> work[r].token, fresh |-> TRUE]
                 /\ disk'[a] = [disk[a] EXCEPT !.access = work[r].key]
                 /\ flight'[a] = [at |-> "saving", pair |-> mem'[a]]
              \/ /\ flight'[a] = Idle
                 /\ \/ mem'[a] = mem[a] /\ disk'[a] = disk[a]
                    \/ mem'[a] = Empty /\ disk'[a] = Empty
    BY <1>3, ReceivedStep, Zenon
  <2>2. work[r].token \in Tokens /\ Issued(work[r].token)
    BY <2>1, Shapes DEF ReferencesIssued, RequestRefs, Types, WorkTypes
  <2>3. leaving'[a].at = "posted" => Issued(leaving[a].token)'
    <3>1. leaving[a].at = "posted" => leaving[a].token \in Tokens /\ Issued(leaving[a].token)
      BY DEF Types, FlightTypes, Leavings, Idle, ReferencesIssued, AppRefs
    <3> QED BY <3>1, <2>1, <1>w
  <2>4. rows'[work[r].token] # Unissued BY <2>2, <1>g
  <2>5. CASE flight'[a] = [at |-> "saving", pair |-> mem'[a]]
    <3>0. flight'[a].at # "idle" BY <2>5
    <3>1. /\ mem'[a].token = work[r].token /\ flight'[a].pair.token = work[r].token
          /\ disk'[a] = [disk[a] EXCEPT !.access = work[r].key]
      BY <2>1, <2>5, <3>0 DEF Idle
    <3>2. disk'[a].token = disk[a].token BY <3>1 DEF Types, TokenTypes, Pair
    <3>3. Issued(disk[a].token)' BY <3>2, <1>a, <1>g DEF Issued
    <3>4. Issued(mem[a].token)' /\ Issued(flight[a].pair.token)' BY <3>1, <2>4 DEF Issued
    <3>5. flight'[a].at = "saving" BY <2>5
    <3>6. AppRefs(a)' BY <2>3, <3>3, <3>4, <3>5 DEF AppRefs
    <3> QED BY <3>6, <2>1, RefsKept DEF RequestRefs
  <2>6. CASE flight'[a] = Idle /\ ((mem'[a] = mem[a] /\ disk'[a] = disk[a]) \/ (mem'[a] = Empty /\ disk'[a] = Empty))
    <3>1. Issued(mem[a].token)' /\ Issued(disk[a].token)'
      <4>1. CASE mem'[a] = mem[a] /\ disk'[a] = disk[a] BY <4>1, <1>a, <1>g DEF Issued
      <4>2. CASE mem'[a] = Empty /\ disk'[a] = Empty
        <5>1. mem'[a].token = None /\ disk'[a].token = None BY <4>2 DEF Empty
        <5> QED BY <5>1 DEF Issued
      <4> QED BY <4>1, <4>2, <2>6
    <3>2. AppRefs(a)' BY <2>3, <2>6, <3>1 DEF AppRefs, Idle
    <3> QED BY <3>2, <2>1, RefsKept DEF RequestRefs
  <2> QED BY <2>1, <2>5, <2>6
<1>4. ASSUME NEW a \in Apps,
             \/ Login(a) \/ Age(a) \/ SaveTokens(a) \/ RefreshLost(a) \/ StartLogout(a)
             \/ RevokeOnLogout(a) \/ FinishLogout(a) \/ Restart(a) \/ KilledClearing(a)
      PROVE  ReferencesIssued'
  <2>l. leaving[a].at = "posted" => leaving[a].token \in Tokens /\ Issued(leaving[a].token)
    BY DEF Types, FlightTypes, Leavings, Idle, ReferencesIssued, AppRefs
  <2>s. flight[a].at = "saving" => flight[a].pair.token \in Tokens \cup {None} /\ Issued(flight[a].pair.token)
    BY DEF Types, FlightTypes, Flights, Pair, Idle, ReferencesIssued, AppRefs
  <2>o. UNCHANGED work /\ \A b \in Apps \ {a} : /\ mem'[b] = mem[b] /\ disk'[b] = disk[b]
                                                /\ flight'[b] = flight[b] /\ leaving'[b] = leaving[b]
    <3>1. CASE Restart(a) \/ KilledClearing(a) BY <3>1, Kills
    <3> QED BY <1>4, <3>1 DEF Login, Age, SaveTokens, RefreshLost, StartLogout, RevokeOnLogout, FinishLogout,
                              ClearTokens, Types, TokenTypes, FlightTypes
  <2>1. leaving'[a] = leaving[a] \/ leaving'[a].at # "posted"
          \/ (leaving'[a].token = mem[a].token /\ mem[a].token # None)
    <3>1. CASE Restart(a) \/ KilledClearing(a) BY <3>1, Kills DEF Idle
    <3> QED BY <1>4, <3>1 DEF Login, Age, SaveTokens, RefreshLost, StartLogout, RevokeOnLogout, FinishLogout,
                              Types, FlightTypes, Idle
  <2>2. leaving'[a].at = "posted" => Issued(leaving[a].token)'
    BY <2>1, <2>l, <1>a, <1>g DEF Issued
  <2>3. flight'[a] = flight[a] \/ flight'[a] = Idle
    <3>1. CASE Restart(a) \/ KilledClearing(a) BY <3>1, Kills
    <3> QED BY <1>4, <3>1 DEF Login, Age, SaveTokens, RefreshLost, StartLogout, RevokeOnLogout, FinishLogout,
                              Types, FlightTypes
  <2>4. flight'[a].at = "saving" => Issued(flight[a].pair.token)'
    <3>1. CASE flight'[a] = flight[a] BY <3>1, <2>s, <1>g DEF Issued
    <3>2. CASE flight'[a] = Idle BY <3>2 DEF Idle
    <3> QED BY <3>1, <3>2, <2>3
  <2>5. Issued(mem[a].token)' /\ Issued(disk[a].token)'
    <3>1. CASE Login(a)
      <4>1. PICK t \in Fresh : Create(t, t) /\ mem'[a].token = t /\ disk'[a].token = t
        BY <3>1 DEF Login, Types, TokenTypes
      <4>2. rows'[t] # Unissued BY <4>1 DEF Create, Fresh, Types, RowTypes, Unissued
      <4> QED BY <4>1, <4>2 DEF Issued
    <3>2. CASE Age(a)
      <4>1. mem'[a].token = mem[a].token /\ disk'[a].token = disk[a].token
        BY <3>2 DEF Age, Types, TokenTypes, Pair
      <4> QED BY <4>1, <1>a, <1>g DEF Issued
    <3>3. CASE SaveTokens(a)
      <4>1. mem'[a] = mem[a] /\ flight[a].at = "saving" BY <3>3 DEF SaveTokens
      <4>2. disk'[a].token = flight[a].pair.token BY <3>3 DEF SaveTokens, Types, TokenTypes, Pair
      <4> QED BY <4>1, <4>2, <2>s, <1>a, <1>g DEF Issued
    <3>4. CASE RefreshLost(a) \/ StartLogout(a) \/ RevokeOnLogout(a)
      <4>1. mem'[a] = mem[a] /\ disk'[a] = disk[a] BY <3>4 DEF RefreshLost, StartLogout, RevokeOnLogout
      <4> QED BY <4>1, <1>a, <1>g DEF Issued
    <3>5. CASE FinishLogout(a)
      BY <3>5, <1>n DEF FinishLogout, ClearTokens, Types, TokenTypes, Empty, Issued
    <3>6. CASE Restart(a) \/ KilledClearing(a)
      <4>1. mem'[a].token = disk[a].token /\ disk'[a].token = disk[a].token BY <3>6, Kills
      <4> QED BY <4>1, <1>a, <1>g DEF Issued
    <3> QED BY <3>1, <3>2, <3>3, <3>4, <3>5, <3>6, <1>4
  <2>6. flight'[a].at = "asking" => work'[flight'[a].req].at # "unused"
    <3>1. CASE flight'[a] = flight[a] BY <3>1, <2>o DEF ReferencesIssued, AppRefs
    <3>2. CASE flight'[a] = Idle BY <3>2 DEF Idle
    <3> QED BY <3>1, <3>2, <2>3
  <2> QED BY <2>o, <2>2, <2>4, <2>5, <2>6, <1>b DEF AppRefs
<1>5. ASSUME NEW p \in Calls, Validate(p) \/ OnDemand(p) \/ CallLost(p)
      PROVE  ReferencesIssued'
  BY <1>5, <1>s DEF Validate, OnDemand, FetchKey, HandKeyOn, RetryValidation, CallLost
<1>6. ASSUME NEW p \in Calls, Unauthorized(p) \/ \E v \in Validators : StartCall(p, v)
      PROVE  ReferencesIssued'
  <2> PICK a \in Apps : a = p[1] BY DEF Calls
  <2>1. /\ UNCHANGED leaving
        /\ \A b \in Apps \ {a} : mem'[b] = mem[b] /\ disk'[b] = disk[b]
    BY <1>6 DEF Unauthorized, StartCall, ClearTokens, Types, TokenTypes
  <2>2. \/ UNCHANGED <<work, flight>>
        \/ RefreshAccessToken(a) /\ (Loaded(a).token # None \/ flight[a] # Idle)
    BY <1>6 DEF Unauthorized, StartCall, Hopeless
  <2>3. Issued(mem[a].token)' /\ Issued(disk[a].token)'
    <3>1. /\ mem'[a].token \in {mem[a].token, disk[a].token, None}
          /\ disk'[a].token \in {disk[a].token, None}
      BY <1>6, <1>a DEF Unauthorized, StartCall, ClearTokens, Types, TokenTypes, Pair, Empty
    <3> QED BY <3>1, <1>a, <1>g DEF Issued
  <2>4. leaving'[a].at = "posted" => Issued(leaving[a].token)'
    <3>1. leaving[a].at = "posted" => leaving[a].token \in Tokens /\ Issued(leaving[a].token)
      BY DEF Types, FlightTypes, Leavings, Idle, ReferencesIssued, AppRefs
    <3> QED BY <3>1, <2>1, <1>w
  <2>s. flight[a].at = "saving" => flight[a].pair.token \in Tokens \cup {None} /\ Issued(flight[a].pair.token)
    BY DEF Types, FlightTypes, Flights, Pair, Idle, ReferencesIssued, AppRefs
  <2>5. CASE UNCHANGED <<work, flight>>
    <3>0. flight'[a].at = "asking" => work'[flight'[a].req].at # "unused"
      BY <2>5 DEF ReferencesIssued, AppRefs
    <3>1. AppRefs(a)' BY <2>3, <2>4, <2>5, <2>s, <3>0, <1>g DEF AppRefs, Issued
    <3> QED BY <3>1, <2>1, <2>5, RefsKept
  <2>6. CASE RefreshAccessToken(a) /\ flight[a] = Idle /\ Loaded(a).token # None
    <3>1. PICK r \in Requests :
            /\ work'[r] = [at |-> "read", token |-> Loaded(a).token]
            /\ \A q \in Requests \ {r} : work'[q] = work[q]
            /\ flight'[a] = [at |-> "asking", req |-> r]
            /\ \A b \in Apps \ {a} : flight'[b] = flight[b]
      BY <2>6, PostStep
    <3>2. rows'[Loaded(a).token] # Unissued BY <2>6, <1>a, <1>g
    <3>3. RequestRefs(r)' BY <3>1, <3>2 DEF RequestRefs, Issued
    <3>4. work'[r].at # "unused" /\ flight'[a].at = "asking" /\ flight'[a].req = r BY <3>1
    <3>5. AppRefs(a)' BY <3>4, <2>3, <2>4 DEF AppRefs
    <3> QED BY <3>1, <3>3, <3>4, <3>5, <2>1, RefsKept
  <2>7. CASE RefreshAccessToken(a) /\ flight[a] # Idle
    <3>1. UNCHANGED <<work, flight>> BY <2>7 DEF RefreshAccessToken
    <3> QED BY <3>1, <2>5
  <2> QED BY <2>2, <2>5, <2>6, <2>7
<1> QED
  BY <1>1, <1>2, <1>3, <1>4, <1>5, <1>6 DEF Next, Progress, Serve, Deliver, Fetch, Leave

\* The vault's numbers only grow.
LEMMA StableBefore ==
  ASSUME Types, [Next]_vars, Stable'
  PROVE  Stable /\ UNCHANGED vault /\ ~Replace
<1>1. \A h \in Halves : vault[h] \in Nat BY DEF Types, KeysTypeOK, Keys
<1>2. ASSUME NEW h \in Halves, Put(h) PROVE FALSE
  <2>1. vault'[h] = vault[h] + 1 BY <1>2 DEF Put, Types, KeysTypeOK
  <2> QED BY <2>1, <1>1 DEF Stable
<1>3. ~Replace BY <1>2 DEF Replace, PutFirst
<1>4. KeysNext => UNCHANGED vault
  BY <1>2 DEF KeysNext, PutSecond, RotateKeys, ReadPrivateKey, ReadPublicKey, UpdateKeys, PushPublicKey,
              RotationFails, Poll, PollInTime, PollOvertaken, GapOver
<1>5. UNCHANGED vault
  <2> USE DEF keyVars
  <2>1. KeysNext => UNCHANGED vault BY <1>4
  <2>2. Serve => UNCHANGED vault BY DEF Serve, ReadToken, Replay, Rotate, RevokeOldToken
  <2>3. Deliver => UNCHANGED vault
    BY DEF Deliver, RefreshSucceeds, SaveTokens, RefreshRefused, RefreshErrs
  <2>4. Fetch \/ (\E p \in Calls : CallLost(p) \/ \E v \in Validators : StartCall(p, v)) => UNCHANGED vault
    BY DEF Fetch, Validate, OnDemand, FetchKey, HandKeyOn, RetryValidation, Unauthorized, CallLost, StartCall
  <2>5. Leave => UNCHANGED vault BY DEF Leave, RevokeOnLogout, FinishLogout
  <2>6. (\E r \in Requests : StatementFails(r)) \/ LogoutAll \/ CleanupExpiredTokens
          \/ (\E t \in Tokens : ExpireToken(t)) => UNCHANGED vault
    BY DEF StatementFails, LogoutAll, CleanupExpiredTokens, ExpireToken
  <2>7. (\E a \in Apps : Login(a) \/ Age(a) \/ RefreshLost(a) \/ StartLogout(a)
          \/ Restart(a) \/ KilledClearing(a)) => UNCHANGED vault
    BY Kills DEF Login, Age, RefreshLost, StartLogout
  <2>8. UNCHANGED vars => UNCHANGED vault BY DEF vars
  <2> QED BY <2>1, <2>2, <2>3, <2>4, <2>5, <2>6, <2>7, <2>8, <1>3 DEF Next, Progress
<1>6. Stable BY <1>5 DEF Stable
<1> QED BY <1>3, <1>5, <1>6

\* Before the first replacement the keys stay at the first pair.
LEMMA KeysStay ==
  ASSUME Types, Stable, KeysAtZero, KeysNext
  PROVE  KeysAtZero'
<1> USE DEF KeysAtZero, Types, KeysTypeOK, Stable
<1>1. vault["private"] = 0 /\ vault["public"] = 0 BY DEF Halves
<1>2. CASE \E h \in Halves : PutSecond(h)
  BY <1>2 DEF PutSecond, Put
<1>3. CASE ReadPrivateKey BY <1>3, <1>1 DEF ReadPrivateKey, Resting
<1>4. CASE ReadPublicKey
  <2>1. rotator # Resting BY <1>4 DEF ReadPublicKey, Resting
  <2> QED BY <2>1, <1>4, <1>1 DEF ReadPublicKey, Resting
<1>5. CASE UpdateKeys
  <2>1. rotator # Resting /\ rotator \in [at : {"swap", "push"}, private : Keys, public : Keys]
    BY <1>5 DEF UpdateKeys, Resting, Rotations
  <2>2. rotator' = [rotator EXCEPT !.at = "push"] /\ signer' = rotator.private /\ UNCHANGED <<publicKey, polled>>
    BY <1>5 DEF UpdateKeys
  <2>3. rotator'.at = "push" /\ rotator'.private = 0 /\ rotator'.public = 0 BY <1>5, <2>1, <2>2 DEF UpdateKeys
  <2> QED BY <2>1, <2>2, <2>3
<1>6. CASE PushPublicKey BY <1>6 DEF PushPublicKey, Resting
<1>7. CASE RotationFails BY <1>7 DEF RotationFails, Resting
<1>8. ASSUME NEW s \in Services, Poll(s) \/ GapOver(s) PROVE KeysAtZero'
  <2>1. CASE PollInTime(s) BY <2>1, <1>1 DEF PollInTime, UpdatePublicKey
  <2>2. CASE PollOvertaken(s)
    <3>1. polled[s] = 0 BY <2>2 DEF PollOvertaken, Zero
    <3> QED BY <2>2, <3>1 DEF PollOvertaken, UpdatePublicKey, Zero
  <2>3. CASE GapOver(s) BY <2>3 DEF GapOver
  <2> QED BY <1>8, <2>1, <2>2, <2>3 DEF Poll
<1> QED BY <1>2, <1>3, <1>4, <1>5, <1>6, <1>7, <1>8 DEF KeysNext, RotateKeys

\* A step under which all of this is kept.
LEMMA ZeroKept ==
  ASSUME Types, NoRefusal, Stable,
         UNCHANGED keyVars \/ KeysAtZero',
         \A r \in Requests : work'[r] = work[r] \/ (work'[r].at = "answer" => work'[r].key = 0),
         \A a \in Apps : AppAtZero(a)' \/ (mem'[a] = mem[a] /\ disk'[a] = disk[a] /\ flight'[a] = flight[a]),
         \A p \in Calls : CallAtZero(p)' \/ call'[p] = call[p]
  PROVE  NoRefusal'
<1>1. KeysAtZero' BY DEF NoRefusal, KeysAtZero, keyVars
<1>2. \A r \in Requests : work'[r].at = "answer" => work'[r].key = 0 BY DEF NoRefusal
<1>3. \A a \in Apps : AppAtZero(a)' BY DEF NoRefusal, AppAtZero
<1>4. \A p \in Calls : CallAtZero(p)' BY DEF NoRefusal, CallAtZero
<1> QED BY <1>1, <1>2, <1>3, <1>4 DEF NoRefusal

\* No signature fails, so no call is refused.
LEMMA NoRefusalStep ==
  ASSUME Types, Types', [Next]_vars, NoRefusal, Stable, Stable'
  PROVE  NoRefusal'
<1> USE DEF serverVars, clientVars, history
<1>z. /\ signer = 0 /\ 0 # None
      /\ \A a \in Apps : AppAtZero(a) /\ Loaded(a).access \in Zero
      /\ \A p \in Calls : CallAtZero(p)
      /\ \A v \in Validators : publicKey[v] = 0
  BY DEF NoRefusal, KeysAtZero, AppAtZero, Loaded, None
<1>s. ASSUME UNCHANGED <<keyVars, work, mem, disk, flight, call>> PROVE NoRefusal'
  BY <1>s, ZeroKept
<1>w. ASSUME NEW a \in Apps, GiveUp(a) PROVE \A p \in Calls : CallAtZero(p)' \/ call'[p] = call[p]
  BY <1>w DEF GiveUp, CallAtZero
<1>p. ASSUME NEW a \in Apps, RefreshAccessToken(a)
      PROVE  /\ \A r \in Requests : work'[r] = work[r] \/ (work'[r].at = "answer" => work'[r].key = 0)
             /\ \A b \in Apps \ {a} : flight'[b] = flight[b]
             /\ flight'[a] = flight[a] \/ flight'[a].at = "asking"
  <2>1. CASE UNCHANGED <<work, flight>> BY <2>1
  <2>2. CASE ~UNCHANGED <<work, flight>>
    <3>1. PICK r \in Requests :
             /\ work'[r] = [at |-> "read", token |-> Loaded(a).token]
             /\ \A q \in Requests \ {r} : work'[q] = work[q]
             /\ flight'[a] = [at |-> "asking", req |-> r]
             /\ \A b \in Apps \ {a} : flight'[b] = flight[b]
      BY <1>p, <2>2, PostStep
    <3>2. work'[r].at # "answer" BY <3>1
    <3> QED BY <3>1, <3>2
  <2> QED BY <2>1, <2>2
<1>1. CASE KeysNext /\ UNCHANGED sessionVars
  <2>1. KeysAtZero' BY <1>1, KeysStay DEF NoRefusal
  <2> QED BY <1>1, <2>1, ZeroKept DEF sessionVars
<1>2. CASE LogoutAll \/ CleanupExpiredTokens \/ UNCHANGED vars \/ \E t \in Tokens : ExpireToken(t)
  BY <1>2, <1>s DEF LogoutAll, CleanupExpiredTokens, vars, sessionVars, ExpireToken
<1>3. ASSUME NEW r \in Requests,
             ReadToken(r) \/ Replay(r) \/ Rotate(r) \/ RevokeOldToken(r) \/ StatementFails(r)
      PROVE  NoRefusal'
  <2>1. UNCHANGED <<keyVars, mem, disk, flight, call>>
    BY <1>3 DEF ReadToken, Replay, Rotate, RevokeOldToken, StatementFails
  <2>2. work'[r].at = "answer" => work'[r].key = 0 BY <1>3, <1>z, RequestStep
  <2>3. \A q \in Requests \ {r} : work'[q] = work[q] BY <1>3, RequestStep
  <2> QED BY <2>1, <2>2, <2>3, ZeroKept
<1>4. ASSUME NEW a \in Apps, RefreshSucceeds(a) \/ RefreshRefused(a) \/ RefreshErrs(a)
      PROVE  NoRefusal'
  <2>1. PICK r \in Requests :
           /\ work[r].at = "answer" /\ work'[r] = [at |-> "over"]
           /\ \A q \in Requests \ {r} : work'[q] = work[q]
           /\ \A b \in Apps \ {a} : mem'[b] = mem[b] /\ disk'[b] = disk[b] /\ flight'[b] = flight[b]
           /\ UNCHANGED keyVars
           /\ \/ /\ UNCHANGED call
                 /\ mem'[a] = [access |-> work[r].key, token |-> work[r].token, fresh |-> TRUE]
                 /\ disk'[a] = [disk[a] EXCEPT !.access = work[r].key]
                 /\ flight'[a] = [at |-> "saving", pair |-> mem'[a]]
              \/ /\ GiveUp(a) /\ flight'[a] = Idle
                 /\ \/ mem'[a] = mem[a] /\ disk'[a] = disk[a]
                    \/ mem'[a] = Empty /\ disk'[a] = Empty
    BY <1>4, ReceivedStep, Zenon
  <2>2. work'[r].at # "answer" /\ work[r].key = 0 BY <2>1 DEF NoRefusal
  <2>3. AppAtZero(a)'
    <3>1. CASE flight'[a] = [at |-> "saving", pair |-> mem'[a]] /\ flight'[a] # Idle
      <4>1. /\ mem'[a].access = 0 /\ flight'[a].pair.access = 0
            /\ disk'[a] = [disk[a] EXCEPT !.access = 0]
        BY <2>1, <2>2, <3>1
      <4>2. disk'[a].access = 0 BY <4>1 DEF Types, TokenTypes, Pair
      <4> QED BY <4>1, <4>2 DEF AppAtZero, Zero
    <3>2. CASE flight'[a] = Idle
      <4>1. flight'[a].at = "idle" BY <3>2 DEF Idle
      <4>2. CASE mem'[a] = mem[a] /\ disk'[a] = disk[a] BY <4>1, <4>2, <1>z DEF AppAtZero
      <4>3. CASE mem'[a] = Empty /\ disk'[a] = Empty
        <5>1. mem'[a].access = None /\ disk'[a].access = None BY <4>3 DEF Empty
        <5> QED BY <4>1, <5>1 DEF AppAtZero, Zero
      <4>4. flight'[a] # [at |-> "saving", pair |-> mem'[a]] BY <4>1
      <4> QED BY <4>2, <4>3, <4>4, <2>1
    <3> QED BY <3>1, <3>2, <2>1
  <2>4. \A p \in Calls : CallAtZero(p)' \/ call'[p] = call[p] BY <2>1, <1>w
  <2> QED BY <2>1, <2>2, <2>3, <2>4, ZeroKept
<1>5. ASSUME NEW a \in Apps, SaveTokens(a) PROVE NoRefusal'
  <2>1. UNCHANGED <<keyVars, work, mem>> /\ \A b \in Apps \ {a} : disk'[b] = disk[b] /\ flight'[b] = flight[b]
    BY <1>5 DEF SaveTokens, Types, TokenTypes, FlightTypes
  <2>2. disk'[a].access = disk[a].access /\ flight'[a] = Idle
    BY <1>5 DEF SaveTokens, Types, TokenTypes, FlightTypes, Pair
  <2>3. AppAtZero(a)' BY <2>1, <2>2, <1>z DEF AppAtZero, Idle
  <2>4. \A p \in Calls : CallAtZero(p)' \/ call'[p] = call[p]
    <3> DEFINE m == [access |-> IF mem[a].access = None THEN disk[a].access ELSE mem[a].access]
    <3>1. Resume(a, m) BY <1>5 DEF SaveTokens
    <3>2. m.access \in Zero BY <1>z DEF AppAtZero
    <3> HIDE DEF m
    <3>3. ASSUME NEW p \in Calls, call[p].at = "wait", call'[p] = Resumed(call[p], m) PROVE CallAtZero(p)'
      <4>1. call[p].retry = FALSE BY <3>3, <1>z DEF CallAtZero, Idle
      <4>2. CASE m.access = None BY <4>1, <4>2, <3>3 DEF Resumed, CallAtZero
      <4>3. CASE m.access = 0 BY <4>1, <4>3, <3>3, <1>z DEF Resumed, CallAtZero
      <4> QED BY <4>2, <4>3, <3>2 DEF Zero
    <3>4. \A p \in Calls : p[1] = a /\ p[2] \in Waiting(a) => call[p].at = "wait"
      <4>1. \A p \in Calls : p = <<p[1], p[2]>> BY DEF Calls
      <4> QED BY <4>1 DEF Waiting
    <3> QED BY <3>1, <3>3, <3>4 DEF Resume
  <2> QED BY <2>1, <2>3, <2>4, ZeroKept
<1>6. ASSUME NEW a \in Apps,
             Login(a) \/ Age(a) \/ RefreshLost(a) \/ StartLogout(a) \/ RevokeOnLogout(a) \/ FinishLogout(a)
               \/ Restart(a) \/ KilledClearing(a)
      PROVE  NoRefusal'
  <2>1. UNCHANGED <<keyVars, work>>
        /\ \A b \in Apps \ {a} : mem'[b] = mem[b] /\ disk'[b] = disk[b] /\ flight'[b] = flight[b]
    <3>1. CASE Restart(a) \/ KilledClearing(a) BY <3>1, Kills
    <3> QED BY <1>6, <3>1 DEF Login, Age, RefreshLost, StartLogout, RevokeOnLogout, FinishLogout,
                              ClearTokens, Types, TokenTypes, FlightTypes
  <2>2. flight'[a] = flight[a] \/ flight'[a] = Idle
    <3>1. CASE Restart(a) \/ KilledClearing(a) BY <3>1, Kills
    <3> QED BY <1>6, <3>1 DEF Login, Age, RefreshLost, StartLogout, RevokeOnLogout, FinishLogout, Types, FlightTypes
  <2>3. mem'[a].access \in Zero /\ disk'[a].access \in Zero
    <3>1. CASE Login(a)
      <4>1. mem'[a].access = signer /\ disk'[a].access = signer BY <3>1 DEF Login, Types, TokenTypes
      <4> QED BY <4>1, <1>z DEF Zero
    <3>2. CASE Age(a)
      <4>1. mem'[a].access = mem[a].access /\ disk'[a].access = disk[a].access
        BY <3>2 DEF Age, Types, TokenTypes, Pair
      <4> QED BY <4>1, <1>z DEF AppAtZero
    <3>3. CASE RefreshLost(a) \/ StartLogout(a) \/ RevokeOnLogout(a)
      BY <3>3, <1>z DEF RefreshLost, StartLogout, RevokeOnLogout, AppAtZero
    <3>4. CASE FinishLogout(a)
      BY <3>4 DEF FinishLogout, ClearTokens, Types, TokenTypes, Empty, Zero
    <3>5. CASE Restart(a) \/ KilledClearing(a)
      <4>1. mem'[a] = disk'[a] /\ disk'[a].access \in {disk[a].access, None} BY <3>5, Kills
      <4> QED BY <4>1, <1>z DEF AppAtZero, Zero
    <3> QED BY <3>1, <3>2, <3>3, <3>4, <3>5, <1>6
  <2>4. AppAtZero(a)'
    <3>1. flight'[a].at = "saving" => flight'[a].pair.access = 0
      <4>1. CASE flight'[a] = flight[a] BY <4>1, <1>z DEF AppAtZero
      <4>2. CASE flight'[a] = Idle BY <4>2 DEF Idle
      <4> QED BY <4>1, <4>2, <2>2
    <3> QED BY <2>3, <3>1 DEF AppAtZero
  <2>5. \A p \in Calls : CallAtZero(p)' \/ call'[p] = call[p]
    <3>1. CASE RefreshLost(a) BY <3>1, <1>w DEF RefreshLost
    <3>2. CASE Restart(a) \/ KilledClearing(a) BY <3>2, Kills DEF CallAtZero
    <3>3. CASE UNCHANGED call BY <3>3
    <3> QED BY <3>1, <3>2, <3>3, <1>6 DEF Login, Age, StartLogout, RevokeOnLogout, FinishLogout
  <2> QED BY <2>1, <2>4, <2>5, ZeroKept
<1>c. ASSUME NEW p \in Calls, call[p].at \notin {"idle", "wait", "sent"} PROVE FALSE
  BY <1>c, <1>z DEF CallAtZero, Idle
<1>7. ASSUME NEW p \in Calls, Validate(p) PROVE NoRefusal'
  <2>1. call[p].at = "sent" /\ call[p].key = 0
    BY <1>7, <1>z DEF Validate, CallAtZero, Idle
  <2>2. call[p].to \in Validators BY <2>1 DEF Types, CallTypes, CallStates, Idle
  <2>3. Verifies(call[p].to, call[p].key) BY <2>1, <2>2, <1>z DEF Verifies
  <2>4. Accepted(p) /\ UNCHANGED <<vault, rotator, signer, publicKey, polled, recent, work, mem, disk, flight>>
    BY <1>7, <2>3 DEF Validate
  <2>5. \A q \in Calls : CallAtZero(q)' \/ call'[q] = call[q]
    BY <2>4 DEF Accepted, CallAtZero, Types, CallTypes
  <2> QED BY <2>4, <2>5, ZeroKept DEF keyVars
<1>8. ASSUME NEW p \in Calls, OnDemand(p) \/ Unauthorized(p) PROVE NoRefusal'
  BY <1>8, <1>c DEF OnDemand, FetchKey, HandKeyOn, RetryValidation, Unauthorized
<1>9. ASSUME NEW p \in Calls, CallLost(p) PROVE NoRefusal'
  <2>1. \A q \in Calls : CallAtZero(q)' \/ call'[q] = call[q]
    BY <1>9 DEF CallLost, CallAtZero, Types, CallTypes
  <2> QED BY <1>9, <2>1, ZeroKept DEF CallLost
<1>10. ASSUME NEW p \in Calls, NEW v \in Validators, StartCall(p, v) PROVE NoRefusal'
  <2> PICK a \in Apps : a = p[1] BY DEF Calls
  <2>1. Loaded(a).access = 0 /\ UNCHANGED keyVars BY <1>10, <1>z DEF StartCall, Zero
  <2>2. /\ \A b \in Apps \ {a} : mem'[b] = mem[b] /\ disk'[b] = disk[b]
        /\ mem'[a].access \in Zero /\ disk'[a].access \in Zero
    <3>1. ClearTokens(a) \/ (mem' = [mem EXCEPT ![a] = Loaded(a)] /\ UNCHANGED disk) BY <1>10 DEF StartCall
    <3>2. CASE ClearTokens(a) BY <3>2 DEF ClearTokens, Types, TokenTypes, Empty, Zero
    <3>3. CASE mem' = [mem EXCEPT ![a] = Loaded(a)] /\ UNCHANGED disk
      <4>1. mem'[a] = Loaded(a) /\ disk'[a] = disk[a] BY <3>3 DEF Types, TokenTypes
      <4> QED BY <3>3, <4>1, <2>1, <1>z DEF AppAtZero
    <3> QED BY <3>1, <3>2, <3>3
  <2>3. /\ \A r \in Requests : work'[r] = work[r] \/ (work'[r].at = "answer" => work'[r].key = 0)
        /\ \A b \in Apps \ {a} : flight'[b] = flight[b]
        /\ flight'[a] = flight[a] \/ flight'[a].at = "asking"
    <3>1. UNCHANGED <<work, flight>> \/ RefreshAccessToken(a) BY <1>10 DEF StartCall
    <3>2. CASE UNCHANGED <<work, flight>> BY <3>2
    <3> QED BY <3>1, <3>2, <1>p
  <2>4. AppAtZero(a)'
    <3>1. flight'[a].at = "saving" => flight'[a].pair.access = 0 BY <2>3, <1>z DEF AppAtZero
    <3> QED BY <2>2, <3>1 DEF AppAtZero
  <2>5. \A q \in Calls : CallAtZero(q)' \/ call'[q] = call[q]
    <3>1. \A q \in Calls \ {p} : call'[q] = call[q] BY <1>10 DEF StartCall, Types, CallTypes
    <3>2. \/ call'[p] = call[p]
          \/ call'[p] = [at |-> "sent", retry |-> FALSE, key |-> Loaded(a).access, to |-> v]
          \/ call'[p] = [at |-> "wait", retry |-> FALSE, to |-> v]
      BY <1>10 DEF StartCall, Types, CallTypes
    <3>3. CASE call'[p] = [at |-> "sent", retry |-> FALSE, key |-> Loaded(a).access, to |-> v]
      <4>1. CallAtZero(p)' BY <3>3, <2>1 DEF CallAtZero
      <4> QED BY <4>1, <3>1
    <3>4. CASE call'[p] = [at |-> "wait", retry |-> FALSE, to |-> v]
      <4>1. CallAtZero(p)' BY <3>4 DEF CallAtZero
      <4> QED BY <4>1, <3>1
    <3> QED BY <3>1, <3>2, <3>3, <3>4
  <2> QED BY <2>1, <2>2, <2>3, <2>4, <2>5, ZeroKept
<1> QED
  BY <1>1, <1>2, <1>3, <1>4, <1>5, <1>6, <1>7, <1>8, <1>9, <1>10, StableBefore
     DEF Next, Progress, Serve, Deliver, Fetch, Leave

\* A step of the rows that a family does not notice.
Undisturbed(f) ==
  \A x \in Tokens : /\ Of(x, f) /\ ~rows[x].expired => rows'[x] = rows[x]
                    /\ Of(x, f)' => Of(x, f)

\* Revoking tokens of other families is such a step.
LEMMA OthersRevoked ==
  ASSUME Types, NEW f, NEW S \in SUBSET Tokens, RevokeRows(S), \A x \in S : ~Of(x, f)
  PROVE  Undisturbed(f)
<1> SUFFICES ASSUME NEW x \in Tokens
             PROVE  (Of(x, f) => rows'[x] = rows[x]) /\ (Of(x, f)' => Of(x, f))
  BY DEF Undisturbed
<1>1. CASE x \in S /\ IsRow(x)
  <2>1. rows'[x] = [rows[x] EXCEPT !.state = "revoked"] /\ rows[x] \in Row
    BY <1>1, Shapes DEF RevokeRows, Types
  <2> QED BY <2>1, <1>1 DEF Of, IsRow, Family, Row, Unissued, Purged
<1>2. CASE ~(x \in S /\ IsRow(x))
  <2>1. rows'[x] = rows[x] BY <1>2 DEF RevokeRows
  <2> QED BY <2>1 DEF Of, IsRow, Family
<1> QED BY <1>1, <1>2

\* The request an undisturbed app waits for is about its own family, and its
\* heir is a token of that family.
LEMMA HeirOwn ==
  ASSUME Types, NEW a \in Apps, AliveInv(a)
  PROVE  /\ Good(Heir(a)) /\ Of(Heir(a), Family(Heir(a)))
         /\ flight[a].at = "asking" =>
              /\ flight[a].req \in Requests
              /\ Serves(flight[a].req, Family(Heir(a)))
              /\ work[flight[a].req].at \in {"read", "rotate", "revoke", "answer"}
         /\ mem[a].access = 0 /\ mem[a].token \in Tokens /\ mem[a].token # None
         /\ flight[a].at \in {"idle", "asking", "saving"}
         /\ leaving[a] = Idle
<1>1. None \notin Tokens BY DEF None
<1>2. CASE flight[a] = Idle /\ AtRest(a)
  BY <1>2, <1>1 DEF AliveInv, AtRest, Heir, Good, Of, Idle
<1>3. CASE flight[a].at = "asking"
  <2>1. flight[a].req \in Requests BY <1>3 DEF Types, FlightTypes, Flights, Idle
  <2>2. mem[a].access = 0 /\ mem[a].token \in Tokens /\ leaving[a] = Idle
    BY <1>3 DEF AliveInv, Idle
  <2>3. LET w == work[flight[a].req] IN
           \/ w.at \in {"read", "rotate"} /\ w.token = mem[a].token /\ Good(w.token)
           \/ w.at = "revoke" /\ Good(w.next) /\ w.next # w.token
           \/ w.at = "answer" /\ w.status = "ok" /\ Good(w.token)
    BY <1>3 DEF AliveInv, Idle
  <2> QED BY <1>1, <1>3, <2>1, <2>2, <2>3 DEF Heir, Good, Of, Serves
<1>4. CASE flight[a].at = "saving" /\ mem[a].access = 0 /\ Good(mem[a].token)
  BY <1>4, <1>1 DEF AliveInv, Heir, Good, Of
<1> QED BY <1>2, <1>3, <1>4 DEF AliveInv

\* A step of others.
LEMMA AliveKept ==
  ASSUME Types, Types', NEW a \in Apps, NEW f, f = Family(Heir(a)), AliveInv(a), Alone(a, f),
         mem'[a] = mem[a], disk'[a] = disk[a], flight'[a] = flight[a], leaving'[a] = leaving[a],
         flight[a].at = "asking" => work'[flight[a].req] = work[flight[a].req],
         Undisturbed(f),
         \A r \in Requests : Serves(r, f)' => Serves(r, f) \/ (flight[a].at = "asking" /\ flight[a].req = r),
         \A b \in Apps \ {a} :
           \/ mem'[b] = mem[b] /\ disk'[b] = disk[b] /\ flight'[b] = flight[b] /\ leaving'[b] = leaving[b]
           \/ ~Holds(b, f)'
  PROVE  AliveInv(a)' /\ Alone(a, Family(Heir(a)))'
<1>1. Heir(a)' = Heir(a) BY DEF Heir
<1>2. Good(Heir(a)) /\ Of(Heir(a), f) BY HeirOwn
<1>3. rows'[Heir(a)] = rows[Heir(a)] BY <1>2 DEF Undisturbed, Good
<1>4. Family(Heir(a))' = f BY <1>1, <1>3 DEF Family
<1>5. Good(Heir(a))' BY <1>1, <1>2, <1>3 DEF Good, IsRow, Live
<1>6. AliveInv(a)'
  <2>1. CASE flight[a].at # "asking" BY <2>1, <1>5 DEF AliveInv, AtRest, Heir
  <2>2. CASE flight[a].at = "asking"
    <3>1. PICK w : w = work[flight[a].req] OBVIOUS
    <3>2. work'[flight'[a].req] = w BY <2>2, <3>1
    <3>3. /\ mem[a] = disk[a] /\ mem[a].access = 0 /\ ~mem[a].fresh /\ mem[a].token \in Tokens
          /\ leaving[a] = Idle
          /\ \/ w.at \in {"read", "rotate"} /\ w.token = mem[a].token
             \/ w.at = "revoke" /\ w.next # w.token
             \/ w.at = "answer" /\ w.status = "ok"
      BY <2>2, <3>1 DEF AliveInv, Idle
    <3>4. Heir(a)' = IF w.at = "revoke" THEN w.next ELSE w.token BY <2>2, <3>2 DEF Heir
    <3>5. Good(IF w.at = "revoke" THEN w.next ELSE w.token)' BY <3>4, <1>5 DEF Good
    <3> QED BY <2>2, <3>2, <3>3, <3>4, <1>5 DEF AliveInv, Good
  <2> QED BY <2>1, <2>2
<1>7. Alone(a, f)'
  <2>1. \A r \in Requests : Serves(r, f)' => flight'[a].at = "asking" /\ flight'[a].req = r
    BY DEF Alone
  <2>2. ASSUME NEW b \in Apps \ {a}, mem'[b] = mem[b], disk'[b] = disk[b],
               flight'[b] = flight[b], leaving'[b] = leaving[b]
        PROVE  ~Holds(b, f)'
    <3>1. ~Holds(b, f) BY DEF Alone
    <3>2. \A x : Of(x, f)' => Of(x, f) BY DEF Undisturbed, Of
    <3>3. ASSUME flight[b].at = "asking", Serves(flight[b].req, f)' PROVE FALSE
      <4>1. flight[b].req \in Requests BY <3>3 DEF Types, FlightTypes, Flights, Idle
      <4>2. PICK r \in Requests : r = flight[b].req BY <4>1
      <4>3. Serves(r, f)' BY <3>3, <4>2, <2>2
      <4>4. flight[a].at = "asking" /\ flight[a].req = r BY <4>3, <2>1
      <4>5. Serves(r, f) BY <4>4, HeirOwn
      <4> QED BY <4>2, <4>5, <3>1, <3>3 DEF Holds
    <3>4. ~(Of(mem[b].token, f) \/ Of(disk[b].token, f))
      BY <3>1 DEF Holds
    <3>5. ~(flight[b].at = "saving" /\ Of(flight[b].pair.token, f))
      BY <3>1 DEF Holds
    <3>6. ~(leaving[b].at = "posted" /\ Of(leaving[b].token, f))
      BY <3>1 DEF Holds
    <3>7. ~(Of(mem[b].token, f)' \/ Of(disk[b].token, f)') BY <3>2, <3>4, <2>2 DEF Of
    <3>8. ~(flight'[b].at = "saving" /\ Of(flight[b].pair.token, f)') BY <3>2, <3>5, <2>2 DEF Of
    <3>9. ~(leaving'[b].at = "posted" /\ Of(leaving[b].token, f)') BY <3>2, <3>6, <2>2 DEF Of
    <3>10. ~(flight'[b].at = "asking" /\ Serves(flight[b].req, f)') BY <3>3, <2>2
    <3> QED BY <3>7, <3>8, <3>9, <3>10 DEF Holds
  <2> QED BY <2>1, <2>2 DEF Alone
<1> QED BY <1>4, <1>6, <1>7

\* The server works on the request the app waits for.
LEMMA AliveAsked ==
  ASSUME Types, Types', ReferencesIssued, NEW a \in Apps, NEW r \in Requests, NEW f,
         f = Family(Heir(a)), AliveInv(a), Alone(a, f),
         flight[a].at = "asking", flight[a].req = r,
         ReadToken(r) \/ Replay(r) \/ Rotate(r) \/ RevokeOldToken(r)
  PROVE  AliveInv(a)' /\ Alone(a, Family(Heir(a)))'
<1> USE DEF clientVars, serverVars, history
<1>1. UNCHANGED <<mem, disk, flight, leaving>>
  BY DEF ReadToken, Replay, Rotate, RevokeOldToken
<1>2. /\ mem[a] = disk[a] /\ mem[a].access = 0 /\ ~mem[a].fresh /\ mem[a].token \in Tokens
      /\ leaving[a] = Idle
      /\ \/ work[r].at \in {"read", "rotate"} /\ work[r].token = mem[a].token /\ Good(work[r].token)
         \/ work[r].at = "revoke" /\ Good(work[r].next) /\ work[r].next # work[r].token
         \/ work[r].at = "answer" /\ work[r].status = "ok" /\ Good(work[r].token)
  BY DEF AliveInv, Idle
<1>3. \A q \in Requests \ {r} : work'[q] = work[q] BY RequestStep
<1>t. work[r].at \in {"read", "rotate", "revoke"} /\ work[r].token \in Tokens
  BY <1>2, Shapes DEF Types, WorkTypes, ReadToken, Replay, Rotate, RevokeOldToken
<1>o. ASSUME NEW u, \A x \in Tokens : Of(x, f)' => Of(x, f) \/ (x = u /\ rows[u] = Unissued)
      PROVE  /\ \A b \in Apps \ {a} : ~Holds(b, f)'
             /\ \A q \in Requests \ {r} : ~Serves(q, f)'
  <2>1. ASSUME NEW x, Issued(x), Of(x, f)' PROVE Of(x, f)
    <3>1. x \in Tokens /\ x # None BY <2>1 DEF Of, None
    <3>2. rows[x] # Unissued BY <2>1, <3>1 DEF Issued
    <3> QED BY <2>1, <3>1, <3>2, <1>o
  <2>2. ASSUME NEW q \in Requests \ {r} PROVE ~Serves(q, f)'
    <3>1. work'[q] = work[q] /\ RequestRefs(q) BY <1>3 DEF ReferencesIssued
    <3>2. ~Serves(q, f) BY DEF Alone
    <3>3. ~(work[q].at \in {"read", "rotate", "replay", "revoke", "answer"} /\ Of(work[q].token, f)')
      <4>1. PICK x : x = work[q].token OBVIOUS
      <4>2. work'[q].token = x BY <3>1, <4>1
      <4> QED BY <3>1, <3>2, <4>1, <4>2, <2>1 DEF Serves, RequestRefs
    <3>4. ~(work[q].at = "revoke" /\ Of(work[q].next, f)')
      <4>1. PICK x : x = work[q].next OBVIOUS
      <4>2. work'[q].next = x BY <3>1, <4>1
      <4> QED BY <3>1, <3>2, <4>1, <4>2, <2>1 DEF Serves, RequestRefs
    <3> QED BY <3>1, <3>3, <3>4 DEF Serves
  <2>3. ASSUME NEW b \in Apps \ {a} PROVE ~Holds(b, f)'
    <3>1. ~Holds(b, f) /\ AppRefs(b) BY DEF Alone, ReferencesIssued
    <3>2. PICK x, y, z, l : /\ x = mem[b].token /\ y = disk[b].token
                            /\ z = flight[b].pair.token /\ l = leaving[b].token
      OBVIOUS
    <3>3. /\ mem'[b].token = x /\ disk'[b].token = y /\ flight'[b] = flight[b]
          /\ flight'[b].pair.token = z /\ leaving'[b] = leaving[b] /\ leaving'[b].token = l
      BY <1>1, <3>2
    <3>4. ~Of(x, f)' /\ ~Of(y, f)' BY <3>1, <3>2, <2>1 DEF Holds, AppRefs
    <3>5. ~(flight[b].at = "saving" /\ Of(z, f)') BY <3>1, <3>2, <2>1 DEF Holds, AppRefs
    <3>6. ~(leaving[b].at = "posted" /\ Of(l, f)') BY <3>1, <3>2, <2>1 DEF Holds, AppRefs
    <3>7. ~(flight[b].at = "asking" /\ Serves(flight[b].req, f)')
      <4> SUFFICES ASSUME flight[b].at = "asking" PROVE ~Serves(flight[b].req, f)' OBVIOUS
      <4>0. flight[b] \in Flights BY DEF Types, FlightTypes
      <4>1. PICK q \in Requests : q = flight[b].req BY <4>0 DEF Flights, Idle
      <4>2. q # r
        <5>1. Serves(r, f) BY HeirOwn
        <5> QED BY <5>1, <4>1, <3>1 DEF Holds
      <4>3. flight'[b].req = q BY <3>3, <4>1
      <4> QED BY <4>2, <4>3, <2>2
    <3> QED BY <3>3, <3>4, <3>5, <3>6, <3>7 DEF Holds
  <2> QED BY <2>2, <2>3
<1>f. ASSUME NEW u, \A x \in Tokens : Of(x, f)' => Of(x, f) \/ (x = u /\ rows[u] = Unissued),
             NEW h, Heir(a)' = h, h \in Tokens, Family(h)' = f, AliveInv(a)'
      PROVE  AliveInv(a)' /\ Alone(a, Family(Heir(a)))'
  <2>1. Family(Heir(a))' = f BY <1>f DEF Family
  <2>2. Alone(a, f)' BY <1>o, <1>f, <1>1 DEF Alone
  <2> QED BY <2>1, <2>2, <1>f
<1>4. CASE ReadToken(r)
  <2>1. work[r].at = "read" BY <1>4 DEF ReadToken
  <2>2. PICK t \in Tokens : t = work[r].token BY <1>t
  <2>3. Good(t) /\ t = mem[a].token /\ Heir(a) = t BY <1>2, <2>1, <2>2 DEF Heir
  <2>4. UNCHANGED rows /\ work' = [work EXCEPT ![r].at = "rotate"] BY <1>4, <2>2, <2>3 DEF ReadToken, Good
  <2>5. work'[r].at = "rotate" /\ work'[r].token = t
    <3>1. work[r] \in [at : {"read"}, token : Tokens]
      BY <2>1 DEF Types, WorkTypes, Requested, Unused
    <3> QED BY <3>1, <2>2, <2>4 DEF Types, WorkTypes
  <2>6. Good(t)' BY <2>3, <2>4 DEF Good, IsRow, Live
  <2>7. AliveInv(a)'
    <3>1. PICK w : w = work'[r] OBVIOUS
    <3>2. w.at = "rotate" /\ w.token = mem[a].token /\ Good(w.token)' BY <3>1, <2>5, <2>6, <2>3 DEF Good
    <3>3. work'[flight'[a].req] = w /\ flight'[a].at = "asking" BY <3>1, <1>1
    <3> QED BY <3>1, <3>2, <3>3, <1>1, <1>2, <2>3, <2>5, <2>6 DEF AliveInv
  <2>8. Heir(a)' = t BY <1>1, <2>5 DEF Heir
  <2>9. Family(t)' = f BY <2>3, <2>4 DEF Family
  <2>10. \A x \in Tokens : Of(x, f)' => Of(x, f) BY <2>4 DEF Of, IsRow, Family
  <2> QED BY <2>7, <2>8, <2>9, <2>10, <1>f
<1>5. CASE Replay(r) BY <1>5, <1>t, <1>2 DEF Replay
<1>6. CASE Rotate(r)
  <2>1. work[r].at = "rotate" BY <1>6 DEF Rotate
  <2>2. PICK t \in Tokens : t = work[r].token BY <1>t
  <2>3. Good(t) /\ Heir(a) = t /\ Family(t) = f BY <1>2, <2>1, <2>2 DEF Heir
  <2>4. PICK u \in Fresh : /\ Create(u, f)
                           /\ work' = [work EXCEPT ![r] = [at |-> "revoke", token |-> t, next |-> u]]
    BY <1>6, <2>2, <2>3 DEF Rotate, Good
  <2>5. u \in Tokens /\ rows[u] = Unissued /\ u # t BY <2>3 DEF Fresh, Good, IsRow
  <2>6. /\ rows'[u] = [state |-> "live", expired |-> FALSE, family |-> f]
        /\ \A x \in Tokens \ {u} : rows'[x] = rows[x]
    BY <2>4, <2>5 DEF Create, Types, RowTypes
  <2>7. work'[r] = [at |-> "revoke", token |-> t, next |-> u] BY <2>4 DEF Types, WorkTypes
  <2>8. Good(u)' /\ Family(u)' = f BY <2>5, <2>6 DEF Good, IsRow, Live, Family, Unissued, Purged
  <2>9. AliveInv(a)'
    <3>1. PICK w : w = work'[r] OBVIOUS
    <3>2. w.at = "revoke" /\ w.next = u /\ w.token = t BY <3>1, <2>7
    <3>3. Good(w.next)' /\ w.next # w.token BY <3>2, <2>8, <2>5 DEF Good
    <3>4. work'[flight'[a].req] = w /\ flight'[a].at = "asking" BY <3>1, <1>1
    <3> QED BY <3>2, <3>3, <3>4, <2>8, <1>1, <1>2 DEF AliveInv
  <2>10. Heir(a)' = u BY <1>1, <2>7 DEF Heir
  <2>11. \A x \in Tokens : Of(x, f)' => Of(x, f) \/ (x = u /\ rows[u] = Unissued)
    BY <2>5, <2>6 DEF Of, IsRow, Family
  <2> QED BY <2>5, <2>8, <2>9, <2>10, <2>11, <1>f
<1>7. CASE RevokeOldToken(r)
  <2>1. work[r].at = "revoke" BY <1>7 DEF RevokeOldToken
  <2>2. PICK t \in Tokens : t = work[r].token BY <1>t
  <2>3. PICK u \in Tokens : u = work[r].next BY <2>1, <1>2 DEF Good
  <2>4. Good(u) /\ u # t /\ Heir(a) = u /\ Family(u) = f BY <1>2, <2>1, <2>2, <2>3 DEF Heir
  <2>5. RevokeRows({t}) /\ Answer(r, "ok", u) BY <1>7, <2>2, <2>3 DEF RevokeOldToken, RevokeToken
  <2>6. rows'[u] = rows[u] BY <2>4, <2>5 DEF RevokeRows
  <2>7. work'[r] = [at |-> "answer", status |-> "ok", token |-> u, key |-> signer]
    BY <2>5 DEF Answer, Types, WorkTypes
  <2>8. Good(u)' /\ Family(u)' = f BY <2>4, <2>6 DEF Good, IsRow, Live, Family
  <2>9. AliveInv(a)'
    <3>1. PICK w : w = work'[r] OBVIOUS
    <3>2. w.at = "answer" /\ w.status = "ok" /\ w.token = u BY <3>1, <2>7
    <3>3. Good(w.token)' BY <3>2, <2>8 DEF Good
    <3>4. work'[flight'[a].req] = w /\ flight'[a].at = "asking" BY <3>1, <1>1
    <3> QED BY <3>2, <3>3, <3>4, <2>8, <1>1, <1>2 DEF AliveInv
  <2>10. Heir(a)' = u BY <1>1, <2>7 DEF Heir
  <2>11. \A x \in Tokens : Of(x, f)' => Of(x, f)
    <3> SUFFICES ASSUME NEW x \in Tokens, Of(x, f)' PROVE Of(x, f) OBVIOUS
    <3>1. CASE x = t /\ IsRow(t)
      <4>1. rows'[t] = [rows[t] EXCEPT !.state = "revoked"] /\ rows[t] \in Row
        BY <2>5, <3>1, Shapes DEF RevokeRows, Types
      <4> QED BY <4>1, <3>1 DEF Of, IsRow, Family, Row, Unissued, Purged
    <3>2. CASE ~(x = t /\ IsRow(t))
      <4>1. rows'[x] = rows[x] BY <3>2, <2>5 DEF RevokeRows
      <4> QED BY <4>1 DEF Of, IsRow, Family
    <3> QED BY <3>1, <3>2
  <2> QED BY <2>8, <2>9, <2>10, <2>11, <1>f
<1> QED BY <1>4, <1>5, <1>6, <1>7

\* The server works on a request of another family.
LEMMA AliveServed ==
  ASSUME Types, Types', NEW a \in Apps, NEW r \in Requests, NEW f,
         f = Family(Heir(a)), AliveInv(a), Alone(a, f),
         ~(flight[a].at = "asking" /\ flight[a].req = r),
         ReadToken(r) \/ Replay(r) \/ Rotate(r) \/ RevokeOldToken(r)
  PROVE  AliveInv(a)' /\ Alone(a, Family(Heir(a)))'
<1> USE DEF clientVars, serverVars, history
<1>1. UNCHANGED <<mem, disk, flight, leaving>> BY DEF ReadToken, Replay, Rotate, RevokeOldToken
<1>2. \A q \in Requests \ {r} : work'[q] = work[q] BY RequestStep
<1>3. ~Serves(r, f) BY DEF Alone
<1>t. PICK t \in Tokens : t = work[r].token BY RequestStep, Shapes DEF Types, WorkTypes
<1>4. ~Of(t, f) /\ (work[r].at = "revoke" => ~Of(work[r].next, f))
  BY <1>3, <1>t, RequestStep DEF Serves
<1>s. ASSUME NEW S \in SUBSET Tokens, RevokeRows(S), \A x \in S : ~Of(x, f) PROVE Undisturbed(f)
  BY <1>s, OthersRevoked
<1>u. UNCHANGED rows => Undisturbed(f) BY DEF Undisturbed, Of, IsRow, Family
<1>5. Undisturbed(f) /\ ~Serves(r, f)'
  <2>1. CASE work'[r].at = "revoke"
    <3>1. PICK u \in Fresh : /\ u = work'[r].next /\ work[r].at = "rotate" /\ work'[r].token = t
                             /\ rows' = [rows EXCEPT ![u] = [state |-> "live", expired |-> FALSE,
                                                             family |-> Family(t)]]
      BY <2>1, <1>t, RequestStep
    <3>2. u \in Tokens /\ rows[u] = Unissued /\ ~IsRow(u) BY DEF Fresh, IsRow
    <3>3. Rotate(r) /\ IsRow(t)
      <4>1. Rotate(r) BY <3>1 DEF ReadToken, Replay, RevokeOldToken
      <4>2. ~IsRow(t) => Answer(r, "error", t) BY <4>1, <1>t DEF Rotate
      <4>3. Answer(r, "error", t) => work'[r].at = "answer" BY DEF Answer, Types, WorkTypes
      <4> QED BY <4>1, <4>2, <4>3, <2>1
    <3>4. Family(t) # f BY <3>3, <1>4 DEF Of
    <3>5. Family(u)' # f /\ \A x \in Tokens \ {u} : rows'[x] = rows[x]
      BY <3>1, <3>2, <3>4 DEF Types, RowTypes, Family
    <3>6. Undisturbed(f) BY <3>2, <3>5 DEF Undisturbed, Of, IsRow, Family
    <3>7. ~Of(u, f)' /\ ~Of(t, f)' BY <3>5, <3>6, <1>4 DEF Of, Undisturbed
    <3> QED BY <3>1, <3>6, <3>7, <2>1 DEF Serves, Of
  <2>2. CASE work'[r].at # "revoke"
    <3>1. Undisturbed(f)
      <4>1. CASE ReadToken(r)
        <5>1. UNCHANGED rows \/ RevokeRows({t})
          <6>1. CASE ~IsRow(t) BY <6>1, <4>1, <1>t DEF ReadToken
          <6>2. CASE IsRow(t) /\ rows[t].expired BY <6>2, <4>1, <1>t DEF ReadToken, RevokeToken
          <6>3. CASE IsRow(t) /\ ~rows[t].expired BY <6>3, <4>1, <1>t DEF ReadToken
          <6> QED BY <6>1, <6>2, <6>3
        <5> QED BY <5>1, <1>u, <1>s, <1>4
      <4>2. CASE Replay(r)
        <5>1. CASE ~IsRow(t) BY <5>1, <4>2, <1>t, <1>u DEF Replay
        <5>2. CASE IsRow(t)
          <6>1. PICK S \in SUBSET Tokens : S = {x \in Tokens : IsRow(x) /\ Family(x) = Family(t)} OBVIOUS
          <6>2. RevokeRows(S) BY <6>1, <5>2, <4>2, <1>t DEF Replay, RevokeTokenFamily
          <6>3. Family(t) # f BY <5>2, <1>4 DEF Of
          <6> QED BY <6>1, <6>2, <6>3, <1>s DEF Of
        <5> QED BY <5>1, <5>2
      <4>3. CASE Rotate(r)
        <5>1. ~IsRow(t)
          <6>1. IsRow(t) => \E u \in Fresh : work' = [work EXCEPT ![r] = [at |-> "revoke", token |-> t, next |-> u]]
            BY <4>3, <1>t DEF Rotate
          <6> QED BY <6>1, <2>2 DEF Types, WorkTypes
        <5> QED BY <5>1, <4>3, <1>t, <1>u DEF Rotate
      <4>4. CASE RevokeOldToken(r) BY <4>4, <1>s, <1>4, <1>t DEF RevokeOldToken, RevokeToken
      <4> QED BY <4>1, <4>2, <4>3, <4>4
    <3>2. work'[r].token = t \/ (work[r].at = "revoke" /\ work'[r].token = work[r].next)
      BY <1>t, <2>2, RequestStep
    <3>3. \A x : ~Of(x, f) => ~Of(x, f)' BY <3>1 DEF Undisturbed, Of
    <3>4. PICK y : y = work'[r].token OBVIOUS
    <3>5. ~Of(y, f)' BY <3>2, <3>3, <3>4, <1>4
    <3> QED BY <3>1, <3>4, <3>5, <2>2 DEF Serves
  <2> QED BY <2>1, <2>2
<1>6. \A q \in Requests \ {r} : Serves(q, f)' => Serves(q, f)
  <2> SUFFICES ASSUME NEW q \in Requests \ {r}, Serves(q, f)' PROVE Serves(q, f) OBVIOUS
  <2>1. work'[q] = work[q] BY <1>2
  <2>2. \A x : Of(x, f)' => Of(x, f) BY <1>5 DEF Undisturbed, Of
  <2>3. PICK x, y : x = work[q].token /\ y = work[q].next OBVIOUS
  <2>4. work'[q].token = x /\ work'[q].next = y BY <2>1, <2>3
  <2>5. Of(x, f)' => Of(x, f) BY <2>2
  <2>6. Of(y, f)' => Of(y, f) BY <2>2
  <2>7. \/ work[q].at \in {"read", "rotate", "replay", "revoke", "answer"} /\ Of(x, f)'
        \/ work[q].at = "revoke" /\ Of(y, f)'
    BY <2>1, <2>4 DEF Serves
  <2> QED BY <2>3, <2>5, <2>6, <2>7 DEF Serves
<1>7. flight[a].at = "asking" => work'[flight[a].req] = work[flight[a].req] BY <1>2, HeirOwn
<1>8. \A q \in Requests : Serves(q, f)' => Serves(q, f) BY <1>5, <1>6
<1> QED BY <1>1, <1>5, <1>7, <1>8, AliveKept

\* A login: the new family is nobody else's.
LEMMA AliveLogin ==
  ASSUME Types, Types', FamilyInv, ReferencesIssued, NEW a \in Apps, signer = 0,
         Login(a), flight[a] = Idle
  PROVE  AliveInv(a)' /\ Alone(a, Family(Heir(a)))'
<1>1. PICK t \in Fresh :
        /\ Create(t, t)
        /\ mem' = [mem EXCEPT ![a] = [access |-> signer, token |-> t, fresh |-> TRUE]]
        /\ disk' = [disk EXCEPT ![a] = [access |-> signer, token |-> t, fresh |-> TRUE]]
        /\ UNCHANGED <<work, flight, leaving>> /\ leaving[a] = Idle
  BY DEF Login
<1>2. t \in Tokens /\ rows[t] = Unissued /\ t # None BY DEF Fresh, None
<1>3. /\ rows'[t] = [state |-> "live", expired |-> FALSE, family |-> t]
      /\ \A x \in Tokens \ {t} : rows'[x] = rows[x]
  BY <1>1, <1>2 DEF Create, Types, RowTypes
<1>4. mem'[a] = disk'[a] /\ mem'[a].access = 0 /\ mem'[a].token = t
      /\ \A b \in Apps \ {a} : mem'[b] = mem[b] /\ disk'[b] = disk[b]
  BY <1>1 DEF Types, TokenTypes
<1>5. Good(t)' /\ Family(t)' = t BY <1>2, <1>3 DEF Good, IsRow, Live, Family, Unissued, Purged
<1>6. flight'[a] = Idle /\ leaving'[a] = Idle BY <1>1
<1>7. Heir(a)' = t BY <1>4, <1>6 DEF Heir, Idle
<1>8. AliveInv(a)' BY <1>4, <1>5, <1>6 DEF AliveInv, AtRest, Good
<1>9. ASSUME NEW x, Issued(x) PROVE ~Of(x, t)'
  <2> SUFFICES ASSUME x \in Tokens PROVE ~Of(x, t)' BY DEF Of
  <2>1. x # None BY DEF None
  <2>2. x # t /\ rows'[x] = rows[x] BY <2>1, <1>9, <1>2, <1>3 DEF Issued
  <2>3. IsRow(x) => Family(x) # t BY <1>2 DEF FamilyInv, FamiliesIssued
  <2> QED BY <2>2, <2>3 DEF Of, IsRow, Family
<1>10. ASSUME NEW q \in Requests PROVE ~Serves(q, t)'
  <2>1. work'[q] = work[q] /\ RequestRefs(q) BY <1>1 DEF ReferencesIssued
  <2>2. PICK x, y : x = work[q].token /\ y = work[q].next OBVIOUS
  <2>3. work'[q].token = x /\ work'[q].next = y BY <2>1, <2>2
  <2> QED BY <2>1, <2>2, <2>3, <1>9 DEF Serves, RequestRefs
<1>11. ASSUME NEW b \in Apps \ {a} PROVE ~Holds(b, t)'
  <2>1. AppRefs(b) BY DEF ReferencesIssued
  <2>2. PICK x, y, z, l : /\ x = mem[b].token /\ y = disk[b].token
                          /\ z = flight[b].pair.token /\ l = leaving[b].token
    OBVIOUS
  <2>3. /\ mem'[b].token = x /\ disk'[b].token = y /\ flight'[b] = flight[b]
        /\ flight'[b].pair.token = z /\ leaving'[b] = leaving[b] /\ leaving'[b].token = l
    BY <1>1, <1>4, <2>2
  <2>4. ~Of(x, t)' /\ ~Of(y, t)' BY <2>1, <2>2, <1>9 DEF AppRefs
  <2>5. ~(flight[b].at = "saving" /\ Of(z, t)') BY <2>1, <2>2, <1>9 DEF AppRefs
  <2>6. ~(leaving[b].at = "posted" /\ Of(l, t)') BY <2>1, <2>2, <1>9 DEF AppRefs
  <2>7. ~(flight[b].at = "asking" /\ Serves(flight[b].req, t)')
    <3> SUFFICES ASSUME flight[b].at = "asking" PROVE ~Serves(flight[b].req, t)' OBVIOUS
    <3>1. PICK q \in Requests : q = flight[b].req BY Asking
    <3>2. flight'[b].req = q BY <2>3, <3>1
    <3> QED BY <3>2, <1>10
  <2> QED BY <2>3, <2>4, <2>5, <2>6, <2>7 DEF Holds
<1>12. Alone(a, t)' BY <1>10, <1>11 DEF Alone
<1>13. Family(Heir(a))' = t BY <1>5, <1>7 DEF Family
<1> QED BY <1>8, <1>12, <1>13

\* A step of the app itself that leaves the table alone.
LEMMA AliveMoved ==
  ASSUME Types, Types', ReferencesIssued, NEW a \in Apps, NEW f,
         f = Family(Heir(a)), AliveInv(a), Alone(a, f), UNCHANGED <<rows, leaving>>,
         AliveInv(a)', NEW h, Heir(a)' = h, Of(h, f),
         \A b \in Apps \ {a} : mem'[b] = mem[b] /\ disk'[b] = disk[b] /\ flight'[b] = flight[b],
         \/ UNCHANGED work /\ (flight'[a] = flight[a] \/ flight[a].at # "asking")
         \/ \E r \in Requests :
              /\ \A q \in Requests \ {r} : work'[q] = work[q]
              /\ \/ /\ work[r] = Unused /\ flight[a] = Idle
                    /\ flight'[a].at = "asking" /\ flight'[a].req = r
                 \/ /\ flight[a].at = "asking" /\ flight[a].req = r
                    /\ work'[r] = [at |-> "over"]
  PROVE  Alone(a, Family(Heir(a)))'
<1>1. \A x : Of(x, f)' = Of(x, f) BY DEF Of, IsRow, Family
<1>2. Family(Heir(a))' = f BY DEF Of, Family
<1>3. ASSUME NEW q \in Requests, Serves(q, f)'
      PROVE  /\ flight'[a].at = "asking" /\ flight'[a].req = q
             /\ \A b \in Apps \ {a} : ~(flight[b].at = "asking" /\ flight[b].req = q)
  <2>1. CASE work'[q] = work[q]
    <3>1. PICK x, y : x = work[q].token /\ y = work[q].next OBVIOUS
    <3>2. work'[q].token = x /\ work'[q].next = y BY <2>1, <3>1
    <3>3. Serves(q, f) BY <2>1, <3>1, <3>2, <1>1, <1>3 DEF Serves
    <3>4. flight[a].at = "asking" /\ flight[a].req = q BY <3>3 DEF Alone
    <3>5. flight'[a] = flight[a]
      <4>1. work'[q].at # "over" BY <1>3 DEF Serves
      <4> QED BY <3>4, <4>1 DEF Idle
    <3> QED BY <3>3, <3>4, <3>5 DEF Alone, Holds
  <2>2. CASE work'[q] # work[q]
    <3>1. work'[q].at # "over" BY <1>3 DEF Serves
    <3>2. work[q] = Unused /\ flight'[a].at = "asking" /\ flight'[a].req = q
      <4>1. PICK r \in Requests :
              /\ \A p \in Requests \ {r} : work'[p] = work[p]
              /\ \/ work[r] = Unused /\ flight'[a].at = "asking" /\ flight'[a].req = r
                 \/ work'[r] = [at |-> "over"]
        BY <2>2, Zenon
      <4>2. r = q BY <4>1, <2>2
      <4> QED BY <4>1, <4>2, <3>1
    <3>3. work[q].at = "unused" BY <3>2 DEF Unused
    <3> QED BY <3>2, <3>3 DEF ReferencesIssued, AppRefs
  <2> QED BY <2>1, <2>2
<1>4. ASSUME NEW b \in Apps \ {a} PROVE ~Holds(b, f)'
  <2>1. ~Holds(b, f) BY DEF Alone
  <2>2. PICK x, y, z, l : /\ x = mem[b].token /\ y = disk[b].token
                          /\ z = flight[b].pair.token /\ l = leaving[b].token
    OBVIOUS
  <2>3. /\ mem'[b].token = x /\ disk'[b].token = y /\ flight'[b] = flight[b]
        /\ flight'[b].pair.token = z /\ leaving'[b] = leaving[b] /\ leaving'[b].token = l
    BY <2>2
  <2>4. ~Of(x, f)' /\ ~Of(y, f)' BY <2>1, <2>2, <1>1 DEF Holds
  <2>5. ~(flight[b].at = "saving" /\ Of(z, f)') BY <2>1, <2>2, <1>1 DEF Holds
  <2>6. ~(leaving[b].at = "posted" /\ Of(l, f)') BY <2>1, <2>2, <1>1 DEF Holds
  <2>7. ~(flight[b].at = "asking" /\ Serves(flight[b].req, f)')
    <3> SUFFICES ASSUME flight[b].at = "asking" PROVE ~Serves(flight[b].req, f)' OBVIOUS
    <3>1. PICK q \in Requests : q = flight[b].req BY Asking
    <3>2. flight'[b].req = q BY <2>3, <3>1
    <3> QED BY <3>1, <3>2, <1>3
  <2> QED BY <2>3, <2>4, <2>5, <2>6, <2>7 DEF Holds
<1>5. Alone(a, f)' BY <1>3, <1>4 DEF Alone
<1> QED BY <1>2, <1>5

\* The app's own steps that leave it undisturbed.
LEMMA AliveOwn ==
  ASSUME Types, Types', ReferencesIssued, NoRefusal, NEW a \in Apps, NEW f,
         f = Family(Heir(a)), AliveInv(a), Alone(a, f), causes'[a] = {}, causes[a] = {},
         \/ Age(a) \/ RefreshSucceeds(a) \/ SaveTokens(a) \/ RefreshRefused(a) \/ RefreshErrs(a)
         \/ RefreshLost(a) \/ StartLogout(a) \/ RevokeOnLogout(a) \/ FinishLogout(a) \/ Restart(a) \/ KilledClearing(a)
  PROVE  AliveInv(a)' /\ Alone(a, Family(Heir(a)))'
<1> USE DEF clientVars, serverVars, history
<1>1. /\ Good(Heir(a)) /\ Of(Heir(a), f) /\ leaving[a] = Idle
      /\ flight[a].at \in {"idle", "asking", "saving"} /\ mem[a].access = 0 /\ mem[a].token # None
      /\ mem[a] \in Pair /\ disk[a] \in Pair
  BY HeirOwn DEF Types, TokenTypes
<1>g. ASSUME UNCHANGED rows PROVE \A x : Good(x)' = Good(x)
  BY <1>g DEF Good, IsRow, Live
<1>2. CASE Age(a)
  <2>1. UNCHANGED <<rows, work, flight, leaving>> /\ flight[a].at # "saving" /\ Loaded(a).fresh
    BY <1>2 DEF Age
  <2>2. mem' = [mem EXCEPT ![a].fresh = FALSE] /\ disk' = [disk EXCEPT ![a].fresh = FALSE] BY <1>2 DEF Age
  <2>3. mem[a].fresh
    <3>1. mem[a].access # None BY <1>1 DEF None
    <3> QED BY <2>1, <3>1 DEF Loaded
  <2>4. flight[a].at = "idle" BY <2>1, <2>3, <1>1 DEF AliveInv, Idle
  <2>5. flight[a] = Idle /\ AtRest(a) BY <2>4 DEF AliveInv
  <2>6. mem'[a] = disk'[a] /\ mem'[a].access = 0 /\ mem'[a].token = mem[a].token
    <3>1. mem'[a] = [mem[a] EXCEPT !.fresh = FALSE] /\ disk'[a] = [disk[a] EXCEPT !.fresh = FALSE]
      BY <2>2 DEF Types, TokenTypes
    <3> QED BY <3>1, <2>5, <1>1 DEF AtRest, Pair
  <2>7. \A b \in Apps \ {a} : mem'[b] = mem[b] /\ disk'[b] = disk[b] BY <2>2
  <2>8. PICK h : h = mem[a].token OBVIOUS
  <2>9. Heir(a)' = h /\ Heir(a) = h BY <2>1, <2>4, <2>6, <2>8 DEF Heir
  <2>10. Good(h)' BY <2>1, <2>9, <1>1, <1>g
  <2>11. AliveInv(a)' BY <2>1, <2>5, <2>6, <2>8, <2>10, <1>1 DEF AliveInv, AtRest, Good
  <2> QED BY <2>1, <2>7, <2>9, <2>11, <1>1, AliveMoved
<1>3. CASE RefreshSucceeds(a) \/ RefreshRefused(a) \/ RefreshErrs(a)
  <2>1. PICK r \in Requests :
           /\ flight[a] = [at |-> "asking", req |-> r]
           /\ work[r].at = "answer" /\ work'[r] = [at |-> "over"]
           /\ \A q \in Requests \ {r} : work'[q] = work[q]
           /\ \A b \in Apps \ {a} : mem'[b] = mem[b] /\ disk'[b] = disk[b] /\ flight'[b] = flight[b]
           /\ UNCHANGED <<rows, leaving>>
           /\ work[r].status = "ok" =>
                /\ mem'[a] = [access |-> work[r].key, token |-> work[r].token, fresh |-> TRUE]
                /\ disk'[a] = [disk[a] EXCEPT !.access = work[r].key]
                /\ flight'[a] = [at |-> "saving", pair |-> mem'[a]]
    BY <1>3, ReceivedStep
  <2>2. flight[a].at = "asking" /\ flight[a].req = r BY <2>1
  <2>3. work[r].status = "ok" BY <2>1, <2>2 DEF AliveInv, Idle
  <2>4. work[r].key = 0 BY <2>1 DEF NoRefusal
  <2>5. PICK h : h = work[r].token OBVIOUS
  <2>6. Heir(a) = h BY <2>1, <2>2, <2>5 DEF Heir
  <2>7. /\ mem'[a].access = 0 /\ mem'[a].token = h /\ mem'[a].fresh
        /\ disk'[a] = [disk[a] EXCEPT !.access = 0]
        /\ flight'[a] = [at |-> "saving", pair |-> mem'[a]]
    BY <2>1, <2>3, <2>4, <2>5
  <2>8. disk'[a].access = 0 /\ flight'[a].at = "saving" /\ flight'[a].pair = mem'[a]
    BY <2>7, <1>1 DEF Pair
  <2>9. Good(h)' BY <2>1, <2>6, <1>1, <1>g
  <2>10. AliveInv(a)' BY <2>1, <2>7, <2>8, <2>9, <1>1 DEF AliveInv, Good
  <2>11. Heir(a)' = h BY <2>7, <2>8 DEF Heir
  <2> QED BY <2>1, <2>2, <2>6, <2>10, <2>11, <1>1, AliveMoved
<1>4. CASE SaveTokens(a)
  <2>1. /\ flight[a].at = "saving" /\ UNCHANGED <<rows, work, mem, leaving>>
        /\ disk' = [disk EXCEPT ![a].token = flight[a].pair.token, ![a].fresh = TRUE]
        /\ flight' = [flight EXCEPT ![a] = Idle]
    BY <1>4 DEF SaveTokens
  <2>2. /\ mem[a] = flight[a].pair /\ disk[a].access = 0 /\ mem[a].fresh /\ Good(mem[a].token)
    BY <2>1 DEF AliveInv, Idle
  <2>3. disk'[a].access = 0 /\ disk'[a].token = mem[a].token /\ disk'[a].fresh = TRUE
    BY <2>1, <2>2, <1>1 DEF Types, TokenTypes, Pair
  <2>4. disk'[a] = mem'[a]
    <3>1. disk'[a] \in Pair BY DEF Types, TokenTypes
    <3>2. mem[a].fresh = TRUE BY <2>2, <1>1 DEF Pair
    <3>3. disk'[a] = [access |-> 0, token |-> mem[a].token, fresh |-> TRUE] BY <3>1, <2>3 DEF Pair
    <3>4. mem[a] = [access |-> 0, token |-> mem[a].token, fresh |-> TRUE] BY <3>2, <1>1 DEF Pair
    <3> QED BY <3>3, <3>4, <2>1
  <2>5. flight'[a] = Idle /\ \A b \in Apps \ {a} : disk'[b] = disk[b] /\ flight'[b] = flight[b]
    BY <2>1 DEF Types, TokenTypes, FlightTypes
  <2>6. PICK h : h = mem[a].token OBVIOUS
  <2>7. Heir(a) = h /\ Heir(a)' = h BY <2>1, <2>5, <2>6 DEF Heir, Idle
  <2>8. Good(h)' BY <2>1, <2>7, <1>1, <1>g
  <2>9. AliveInv(a)' BY <2>1, <2>4, <2>5, <2>6, <2>8, <1>1 DEF AliveInv, AtRest, Good
  <2> QED BY <2>1, <2>5, <2>7, <2>9, <1>1, AliveMoved
<1>5. CASE RefreshLost(a) \/ StartLogout(a)
  <2>1. causes'[a] # {} BY <1>5 DEF RefreshLost, StartLogout, Blame, Types, Histories
  <2> QED BY <2>1
<1>6. CASE RevokeOnLogout(a) \/ FinishLogout(a) BY <1>6, <1>1 DEF RevokeOnLogout, FinishLogout, Idle
<1>7. CASE Restart(a)
  <2>1. flight[a] = Idle
    <3>1. CASE flight[a] # Idle BY <3>1, <1>7 DEF Restart, Blame, Types, Histories
    <3> QED BY <3>1
  <2>2. AtRest(a) BY <2>1 DEF AliveInv, Idle
  <2>3. UNCHANGED <<rows, work, disk>> BY <1>7 DEF Restart, Killed
  <2>4. /\ mem'[a] = disk[a] /\ flight'[a] = Idle /\ leaving'[a] = Idle
        /\ \A b \in Apps \ {a} : mem'[b] = mem[b] /\ flight'[b] = flight[b] /\ leaving'[b] = leaving[b]
    BY <1>7 DEF Restart, Killed, Types, TokenTypes, FlightTypes
  <2>5. UNCHANGED <<mem, flight, leaving>>
    BY <2>1, <2>2, <2>4, <1>1, <1>7 DEF Restart, Killed, AtRest, Types, TokenTypes, FlightTypes
  <2> QED BY <2>3, <2>5, AliveKept DEF Undisturbed, Of, IsRow, Family, Serves
<1>8. CASE KilledClearing(a)
  <2>1. causes'[a] = {"cleared"} BY <1>8 DEF KilledClearing, Types, Histories
  <2> QED BY <2>1
<1> QED BY <1>2, <1>3, <1>4, <1>5, <1>6, <1>7, <1>8

\* A call of the app, which refreshes if the access token is near its end.
LEMMA AliveStartCall ==
  ASSUME Types, Types', ReferencesIssued, NEW a \in Apps, NEW f,
         f = Family(Heir(a)), AliveInv(a), Alone(a, f),
         NEW p \in Calls, NEW v \in Validators, p[1] = a, StartCall(p, v)
  PROVE  AliveInv(a)' /\ Alone(a, Family(Heir(a)))'
<1> USE DEF clientVars, serverVars, history
<1>1. /\ Good(Heir(a)) /\ Of(Heir(a), f) /\ leaving[a] = Idle
      /\ mem[a].access = 0 /\ mem[a].token # None /\ mem[a].access # None /\ mem[a] \in Pair
  BY HeirOwn DEF Types, TokenTypes, None
<1>2. Loaded(a) = mem[a]
  <2>1. Loaded(a) \in Pair BY PiecesTypes
  <2>2. Loaded(a).access = mem[a].access /\ Loaded(a).token = mem[a].token BY <1>1 DEF Loaded
  <2>3. Loaded(a).fresh = mem[a].fresh BY <1>1 DEF Loaded, Pair
  <2> QED BY <1>1, <2>1, <2>2, <2>3 DEF Pair
<1>3. /\ UNCHANGED <<rows, mem, disk, leaving>>
      /\ UNCHANGED <<flight, work>> \/ (RefreshAccessToken(a) /\ ~mem[a].fresh)
  <2>1. /\ UNCHANGED <<rows, leaving, disk>> /\ mem' = [mem EXCEPT ![a] = mem[a]]
        /\ UNCHANGED <<flight, work>> \/ (RefreshAccessToken(a) /\ ~mem[a].fresh)
    BY <1>1, <1>2 DEF StartCall
  <2> QED BY <2>1 DEF Types, TokenTypes
<1>4. CASE UNCHANGED <<flight, work>>
  BY <1>3, <1>4, AliveKept DEF Undisturbed, Of, IsRow, Family, Serves
<1>5. CASE RefreshAccessToken(a) /\ ~mem[a].fresh /\ ~UNCHANGED <<flight, work>>
  <2>1. PICK r \in Requests :
           /\ work[r] = Unused /\ flight[a] = Idle
           /\ work'[r] = [at |-> "read", token |-> mem[a].token]
           /\ \A q \in Requests \ {r} : work'[q] = work[q]
           /\ flight'[a] = [at |-> "asking", req |-> r]
           /\ \A b \in Apps \ {a} : flight'[b] = flight[b]
    BY <1>2, <1>5, PostStep
  <2>2. mem[a] = disk[a] /\ Good(mem[a].token) BY <2>1 DEF AliveInv, AtRest, Idle
  <2>3. PICK h \in Tokens : h = mem[a].token BY <2>2 DEF Good
  <2>4. PICK w : w = work'[r] OBVIOUS
  <2>5. w.at = "read" /\ w.token = h BY <2>1, <2>3, <2>4
  <2>6. flight'[a].at = "asking" /\ flight'[a].req = r BY <2>1
  <2>7. Good(h)' BY <1>3, <2>2, <2>3 DEF Good, IsRow, Live
  <2>8. work'[flight'[a].req] = w BY <2>4, <2>6
  <2>9. Heir(a) = h /\ Heir(a)' = h BY <2>1, <2>3, <2>5, <2>6, <2>8 DEF Heir, Idle
  <2>10. AliveInv(a)'
    <3>1. mem'[a] = disk'[a] /\ mem'[a].access = 0 /\ ~mem'[a].fresh /\ mem'[a].token = h /\ leaving'[a] = Idle
      BY <1>1, <1>3, <1>5, <2>2, <2>3
    <3> QED BY <2>3, <2>5, <2>6, <2>7, <2>8, <3>1 DEF AliveInv
  <2> QED BY <1>1, <1>3, <2>1, <2>6, <2>9, <2>10, AliveMoved
<1> QED BY <1>3, <1>4, <1>5

\* A step of another app.
LEMMA AliveAside ==
  ASSUME Types, Types', NEW a \in Apps, NEW b \in Apps \ {a}, NEW f,
         f = Family(Heir(a)), AliveInv(a), Alone(a, f), Undisturbed(f),
         \A c \in Apps \ {b} : /\ mem'[c] = mem[c] /\ disk'[c] = disk[c]
                               /\ flight'[c] = flight[c] /\ leaving'[c] = leaving[c],
         \A r \in Requests : work'[r] = work[r] \/ (~Serves(r, f) /\ ~Serves(r, f)'),
         NEW x, mem'[b].token = x, ~Of(x, f),
         NEW y, disk'[b].token = y, ~Of(y, f),
         \/ flight'[b] = flight[b] \/ flight'[b] = Idle
         \/ flight'[b].at = "saving" /\ flight'[b].pair.token = x
         \/ \E r \in Requests : flight'[b] = [at |-> "asking", req |-> r] /\ ~Serves(r, f)',
         leaving'[b] = leaving[b] \/ leaving'[b].at # "posted" \/ leaving'[b].token = x
  PROVE  AliveInv(a)' /\ Alone(a, Family(Heir(a)))'
<1>1. \A u : ~Of(u, f) => ~Of(u, f)' BY DEF Undisturbed, Of
<1>2. ASSUME NEW r \in Requests PROVE Serves(r, f)' => Serves(r, f)
  <2> SUFFICES ASSUME work'[r] = work[r], Serves(r, f)' PROVE Serves(r, f) OBVIOUS
  <2>1. PICK u, w : u = work[r].token /\ w = work[r].next OBVIOUS
  <2>2. work'[r].token = u /\ work'[r].next = w BY <2>1
  <2> QED BY <1>1, <2>1, <2>2 DEF Serves
<1>3. ~Holds(b, f) BY DEF Alone
<1>4. flight[a].at = "asking" => work'[flight[a].req] = work[flight[a].req]
  BY HeirOwn
<1>5. ~Of(x, f)' /\ ~Of(y, f)' BY <1>1
<1>6. ~(flight'[b].at = "saving" /\ Of(flight[b].pair.token, f)')
  <2>1. CASE flight'[b] = flight[b]
    <3>1. PICK z : z = flight[b].pair.token OBVIOUS
    <3>2. flight'[b].pair.token = z BY <2>1, <3>1
    <3>3. flight[b].at = "saving" => ~Of(z, f) BY <1>3, <3>1 DEF Holds
    <3> QED BY <1>1, <2>1, <3>2, <3>3
  <2>2. CASE flight'[b] = Idle BY <2>2 DEF Idle
  <2>3. CASE flight'[b].at = "saving" /\ flight'[b].pair.token = x BY <2>3, <1>5
  <2>4. CASE \E r \in Requests : flight'[b] = [at |-> "asking", req |-> r] BY <2>4
  <2> QED BY <2>1, <2>2, <2>3, <2>4, Zenon
<1>7. ~(flight'[b].at = "asking" /\ Serves(flight[b].req, f)')
  <2>1. CASE flight'[b] = flight[b]
    <3> SUFFICES ASSUME flight[b].at = "asking" PROVE ~Serves(flight[b].req, f)' BY <2>1
    <3>1. PICK r \in Requests : r = flight[b].req BY Asking
    <3>2. flight'[b].req = r BY <2>1, <3>1
    <3>3. ~Serves(r, f) BY <1>3, <3>1 DEF Holds
    <3> QED BY <1>2, <3>2, <3>3
  <2>2. CASE flight'[b] = Idle BY <2>2 DEF Idle
  <2>3. CASE flight'[b].at = "saving" BY <2>3
  <2>4. ASSUME NEW r \in Requests, flight'[b] = [at |-> "asking", req |-> r], ~Serves(r, f)'
        PROVE  ~Serves(flight[b].req, f)'
    <3>1. flight'[b].req = r BY <2>4
    <3> QED BY <2>4, <3>1
  <2> QED BY <2>1, <2>2, <2>3, <2>4, Zenon
<1>8. ~(leaving'[b].at = "posted" /\ Of(leaving[b].token, f)')
  <2>1. CASE leaving'[b] = leaving[b]
    <3>1. PICK l : l = leaving[b].token OBVIOUS
    <3>2. leaving'[b].token = l BY <2>1, <3>1
    <3>3. leaving[b].at = "posted" => ~Of(l, f) BY <1>3, <3>1 DEF Holds
    <3> QED BY <1>1, <2>1, <3>2, <3>3
  <2>2. CASE leaving'[b].token = x BY <2>2, <1>5
  <2> QED BY <2>1, <2>2
<1>9. ~Holds(b, f)' BY <1>5, <1>6, <1>7, <1>8 DEF Holds
<1> QED BY <1>2, <1>4, <1>9, AliveKept

\* The steps of another app.
LEMMA AliveOther ==
  ASSUME Types, Types', FamilyInv, NEW a \in Apps, NEW b \in Apps \ {a}, NEW f,
         f = Family(Heir(a)), AliveInv(a), Alone(a, f),
         \/ Login(b) \/ Age(b) \/ RefreshSucceeds(b) \/ SaveTokens(b) \/ RefreshRefused(b) \/ RefreshErrs(b)
         \/ RefreshLost(b) \/ StartLogout(b) \/ RevokeOnLogout(b) \/ FinishLogout(b) \/ Restart(b) \/ KilledClearing(b)
         \/ \E p \in Calls, v \in Validators : p[1] = b /\ StartCall(p, v)
  PROVE  AliveInv(a)' /\ Alone(a, Family(Heir(a)))'
<1> USE DEF clientVars, serverVars, history
<1>1. ~Holds(b, f) BY DEF Alone
<1>2. ~Of(mem[b].token, f) /\ ~Of(disk[b].token, f) /\ ~Of(None, f)
  BY <1>1 DEF Holds, Of, None
<1>3. mem[b] \in Pair /\ disk[b] \in Pair BY DEF Types, TokenTypes
<1>u. UNCHANGED rows => Undisturbed(f) BY DEF Undisturbed, Of, IsRow, Family
<1>s. \A r \in Requests : work[r].at \in {"unused", "over"} => ~Serves(r, f) BY DEF Serves
<1>t. \A r \in Requests : work'[r].at \in {"unused", "over"} => ~Serves(r, f)' BY DEF Serves
<1>4. CASE Login(b)
  <2>1. PICK t \in Fresh :
          /\ Create(t, t)
          /\ mem' = [mem EXCEPT ![b] = [access |-> signer, token |-> t, fresh |-> TRUE]]
          /\ disk' = [disk EXCEPT ![b] = [access |-> signer, token |-> t, fresh |-> TRUE]]
          /\ UNCHANGED <<work, flight, leaving>>
    BY <1>4 DEF Login
  <2>2. t \in Tokens /\ rows[t] = Unissued /\ ~IsRow(t) BY DEF Fresh, IsRow
  <2>3. /\ rows'[t] = [state |-> "live", expired |-> FALSE, family |-> t]
        /\ \A x \in Tokens \ {t} : rows'[x] = rows[x]
    BY <2>1, <2>2 DEF Create, Types, RowTypes
  <2>4. f # t
    <3>1. Of(Heir(a), f) BY HeirOwn
    <3> QED BY <2>2, <3>1 DEF FamilyInv, FamiliesIssued, Of
  <2>5. Undisturbed(f)
    <3>1. ASSUME NEW x \in Tokens \ {t} PROVE (Of(x, f) => rows'[x] = rows[x]) /\ (Of(x, f)' => Of(x, f))
      BY <2>3 DEF Of, IsRow, Family
    <3>2. ~Of(t, f) BY <2>2 DEF Of
    <3>3. rows'[t].family = t BY <2>3
    <3>4. ~Of(t, f)' BY <3>3, <2>4 DEF Of, Family
    <3> QED BY <3>1, <3>2, <3>4 DEF Undisturbed
  <2>6. ~Of(t, f) BY <2>2 DEF Of
  <2>7. mem'[b].token = t /\ disk'[b].token = t BY <2>1 DEF Types, TokenTypes
  <2> QED BY <2>1, <2>5, <2>6, <2>7, AliveAside
<1>5. CASE Age(b)
  <2>1. mem'[b].token = mem[b].token /\ disk'[b].token = disk[b].token
    BY <1>5, <1>3 DEF Age, Types, TokenTypes, Pair
  <2> QED BY <1>5, <2>1, <1>2, <1>u, AliveAside DEF Age
<1>6. CASE RefreshSucceeds(b) \/ RefreshRefused(b) \/ RefreshErrs(b)
  <2>1. PICK r \in Requests :
           /\ flight[b] = [at |-> "asking", req |-> r]
           /\ work[r].at = "answer" /\ work'[r] = [at |-> "over"]
           /\ \A q \in Requests \ {r} : work'[q] = work[q]
           /\ \A c \in Apps \ {b} : mem'[c] = mem[c] /\ disk'[c] = disk[c] /\ flight'[c] = flight[c]
           /\ UNCHANGED <<rows, leaving>>
           /\ \/ /\ mem'[b] = [access |-> work[r].key, token |-> work[r].token, fresh |-> TRUE]
                 /\ disk'[b] = [disk[b] EXCEPT !.access = work[r].key]
                 /\ flight'[b] = [at |-> "saving", pair |-> mem'[b]]
              \/ /\ flight'[b] = Idle
                 /\ \/ mem'[b] = mem[b] /\ disk'[b] = disk[b]
                    \/ mem'[b] = Empty /\ disk'[b] = Empty
    BY <1>6, ReceivedStep
  <2>2. flight[b].at = "asking" /\ flight[b].req = r BY <2>1
  <2>3. ~Serves(r, f) BY <1>1, <2>2 DEF Holds
  <2>4. ~Of(work[r].token, f) BY <2>1, <2>3 DEF Serves
  <2>5. work'[r].at = "over" /\ ~Serves(r, f)'
    <3>1. work'[r].at = "over" BY <2>1
    <3> QED BY <3>1, <1>t
  <2>6. ~Of(mem'[b].token, f) /\ ~Of(disk'[b].token, f)
    <3>1. CASE mem'[b] = [access |-> work[r].key, token |-> work[r].token, fresh |-> TRUE]
               /\ disk'[b] = [disk[b] EXCEPT !.access = work[r].key]
      <4>1. mem'[b].token = work[r].token BY <3>1
      <4>2. disk'[b].token = disk[b].token BY <3>1, <1>3 DEF Pair
      <4> QED BY <4>1, <4>2, <2>4, <1>2
    <3>2. CASE mem'[b] = mem[b] /\ disk'[b] = disk[b] BY <3>2, <1>2
    <3>3. CASE mem'[b] = Empty /\ disk'[b] = Empty
      <4>1. mem'[b].token = None /\ disk'[b].token = None BY <3>3 DEF Empty
      <4> QED BY <4>1, <1>2
    <3> QED BY <3>1, <3>2, <3>3, <2>1
  <2>7. flight'[b] = Idle \/ (flight'[b].at = "saving" /\ flight'[b].pair.token = mem'[b].token)
    BY <2>1
  <2>8. PICK x, y : x = mem'[b].token /\ y = disk'[b].token OBVIOUS
  <2>9. \A q \in Requests : work'[q] = work[q] \/ (~Serves(q, f) /\ ~Serves(q, f)') BY <2>1, <2>3, <2>5
  <2> QED BY <2>1, <2>6, <2>7, <2>8, <2>9, <1>u, AliveAside
<1>7. CASE SaveTokens(b)
  <2>1. /\ flight[b].at = "saving" /\ UNCHANGED <<rows, work, mem, leaving>>
        /\ disk' = [disk EXCEPT ![b].token = flight[b].pair.token, ![b].fresh = TRUE]
        /\ flight' = [flight EXCEPT ![b] = Idle]
    BY <1>7 DEF SaveTokens
  <2>2. disk'[b].token = flight[b].pair.token BY <2>1, <1>3 DEF Types, TokenTypes, Pair
  <2>3. ~Of(flight[b].pair.token, f) BY <1>1, <2>1 DEF Holds
  <2>4. flight'[b] = Idle /\ \A c \in Apps \ {b} : disk'[c] = disk[c] /\ flight'[c] = flight[c]
    BY <2>1 DEF Types, TokenTypes, FlightTypes
  <2>5. PICK x, y : x = mem[b].token /\ y = flight[b].pair.token OBVIOUS
  <2> QED BY <2>1, <2>2, <2>3, <2>4, <2>5, <1>2, <1>u, AliveAside
<1>8. CASE RefreshLost(b) \/ StartLogout(b) \/ FinishLogout(b) \/ Restart(b) \/ KilledClearing(b)
  <2>1. UNCHANGED <<rows, work>> BY <1>8, Kills DEF RefreshLost, StartLogout, FinishLogout
  <2>2. \A c \in Apps \ {b} : /\ mem'[c] = mem[c] /\ disk'[c] = disk[c]
                              /\ flight'[c] = flight[c] /\ leaving'[c] = leaving[c]
    <3>1. CASE RefreshLost(b) BY <3>1 DEF RefreshLost
    <3>2. CASE StartLogout(b) BY <3>2 DEF StartLogout
    <3>3. CASE FinishLogout(b) BY <3>3 DEF FinishLogout, ClearTokens
    <3>4. CASE Restart(b) \/ KilledClearing(b) BY <3>4, Kills
    <3> QED BY <1>8, <3>1, <3>2, <3>3, <3>4
  <2>3. /\ mem'[b].token \in {mem[b].token, disk[b].token, None}
        /\ disk'[b].token \in {disk[b].token, None}
        /\ flight'[b] \in {flight[b], Idle}
        /\ \/ leaving'[b] = leaving[b] \/ leaving'[b].at # "posted"
           \/ leaving'[b].token = mem'[b].token
    <3> USE DEF Types, TokenTypes, FlightTypes
    <3>1. CASE RefreshLost(b) BY <3>1 DEF RefreshLost
    <3>2. CASE StartLogout(b) BY <3>2 DEF StartLogout
    <3>3. CASE FinishLogout(b) BY <3>3 DEF FinishLogout, ClearTokens, Empty, Idle
    <3>4. CASE Restart(b) \/ KilledClearing(b) BY <3>4, Kills DEF Idle
    <3> QED BY <1>8, <3>1, <3>2, <3>3, <3>4
  <2>4. PICK x, y : x = mem'[b].token /\ y = disk'[b].token OBVIOUS
  <2>5. ~Of(x, f) /\ ~Of(y, f) BY <2>3, <2>4, <1>2
  <2> QED BY <2>1, <2>2, <2>3, <2>4, <2>5, <1>u, AliveAside
<1>9. CASE RevokeOnLogout(b)
  <2>1. /\ leaving[b].at = "posted" /\ RevokeRows({leaving[b].token})
        /\ leaving' = [leaving EXCEPT ![b] = [at |-> "revoked"]]
        /\ UNCHANGED <<work, mem, disk, flight>>
    BY <1>9 DEF RevokeOnLogout, RevokeToken
  <2>2. leaving[b] \in Leavings BY DEF Types, FlightTypes
  <2>3. leaving[b].token \in Tokens BY <2>1, <2>2 DEF Leavings, Idle
  <2>4. ~Of(leaving[b].token, f) BY <1>1, <2>1 DEF Holds
  <2>5. Undisturbed(f) BY <2>1, <2>3, <2>4, OthersRevoked
  <2>6. leaving'[b].at = "revoked" /\ \A c \in Apps \ {b} : leaving'[c] = leaving[c]
    BY <2>1 DEF Types, FlightTypes
  <2>7. PICK x, y : x = mem[b].token /\ y = disk[b].token OBVIOUS
  <2> QED BY <2>1, <2>5, <2>6, <2>7, <1>2, AliveAside
<1>10. ASSUME NEW p \in Calls, NEW v \in Validators, p[1] = b, StartCall(p, v)
       PROVE  AliveInv(a)' /\ Alone(a, Family(Heir(a)))'
  <2>1. /\ UNCHANGED <<rows, leaving>>
        /\ \A c \in Apps \ {b} : mem'[c] = mem[c] /\ disk'[c] = disk[c]
    BY <1>10 DEF StartCall, ClearTokens, Types, TokenTypes
  <2>2. /\ mem'[b].token \in {mem[b].token, disk[b].token, None}
        /\ disk'[b].token \in {disk[b].token, None}
    <3>1. Loaded(b).token \in {mem[b].token, disk[b].token} BY DEF Loaded
    <3>2. ClearTokens(b) \/ (mem' = [mem EXCEPT ![b] = Loaded(b)] /\ UNCHANGED disk)
      BY <1>10 DEF StartCall
    <3>3. CASE ClearTokens(b) BY <3>3 DEF ClearTokens, Empty, Types, TokenTypes
    <3>4. CASE mem' = [mem EXCEPT ![b] = Loaded(b)] /\ UNCHANGED disk
      <4>1. mem'[b] = Loaded(b) BY <3>4 DEF Types, TokenTypes
      <4> QED BY <3>1, <3>4, <4>1
    <3> QED BY <3>2, <3>3, <3>4
  <2>3. PICK x, y : x = mem'[b].token /\ y = disk'[b].token OBVIOUS
  <2>4. ~Of(x, f) /\ ~Of(y, f) BY <2>2, <2>3, <1>2
  <2>5. CASE UNCHANGED <<work, flight>>
    BY <2>1, <2>3, <2>4, <2>5, <1>u, AliveAside
  <2>6. CASE ~UNCHANGED <<work, flight>>
    <3>1. RefreshAccessToken(b) BY <1>10, <2>6 DEF StartCall
    <3>2. PICK r \in Requests :
             /\ work[r] = Unused
             /\ work'[r] = [at |-> "read", token |-> Loaded(b).token]
             /\ \A q \in Requests \ {r} : work'[q] = work[q]
             /\ flight'[b] = [at |-> "asking", req |-> r]
             /\ \A c \in Apps \ {b} : flight'[c] = flight[c]
      BY <2>6, <3>1, PostStep
    <3>3. ~Serves(r, f)
      <4>1. work[r].at = "unused" BY <3>2 DEF Unused
      <4> QED BY <4>1, <1>s
    <3>4. ~Of(Loaded(b).token, f) BY <1>2 DEF Loaded
    <3>5. ~Serves(r, f)'
      <4>1. PICK t : t = Loaded(b).token OBVIOUS
      <4>2. work'[r].at = "read" /\ work'[r].token = t BY <3>2, <4>1
      <4>3. ~Of(t, f)' BY <2>1, <3>4, <4>1 DEF Of, IsRow, Family
      <4> QED BY <4>2, <4>3 DEF Serves
    <3>6. \A q \in Requests : work'[q] = work[q] \/ (~Serves(q, f) /\ ~Serves(q, f)') BY <3>2, <3>3, <3>5
    <3> QED BY <2>1, <2>3, <2>4, <3>2, <3>5, <3>6, <1>u, AliveAside
  <2> QED BY <2>5, <2>6
<1> QED BY <1>4, <1>5, <1>6, <1>7, <1>8, <1>9, <1>10

\* A step of the session of an app that nothing has disturbed.
LEMMA SessionStep ==
  ASSUME Types, Types', FamilyInv, ReferencesIssued, SessionInv, [Next]_vars
  PROVE  SessionInv'
<1> USE DEF clientVars, serverVars, history
<1> SUFFICES ASSUME Stable' PROVE NoRefusal' /\ \A a \in Apps : causes'[a] = {} => AliveInv(a)' /\ Alone(a, Family(Heir(a)))'
  BY DEF SessionInv, Stable
<1>1. Stable /\ ~Replace /\ NoRefusal /\ signer = 0
  BY StableBefore DEF SessionInv, NoRefusal, KeysAtZero
<1>2. NoRefusal' BY <1>1, NoRefusalStep
<1>3. SUFFICES ASSUME NEW a \in Apps, causes'[a] = {}
               PROVE  AliveInv(a)' /\ Alone(a, Family(Heir(a)))'
  BY <1>2
<1>4. CASE Login(a)
  <2>1. flight[a] = Idle BY <1>3, <1>4 DEF Login, Types, Histories
  <2> QED BY <1>1, <1>4, <2>1, AliveLogin
<1>5. CASE ~Login(a)
  <2>b. ASSUME NEW c, BlameAll(c) PROVE FALSE BY <1>3, <2>b DEF BlameAll
  <2>c. ASSUME NEW b \in Apps, NEW c, Blame(b, c) PROVE causes[a] = {}
    BY <1>3, <2>c DEF Blame, Types, Histories
  <2>n. /\ \A r \in Requests : ~StatementFails(r)
        /\ ~LogoutAll /\ \A t \in Tokens : ~ExpireToken(t)
    BY <2>b DEF StatementFails, LogoutAll, ExpireToken
  <2>0. ASSUME NEW p \in Calls PROVE ~OnDemand(p) /\ ~Unauthorized(p)
    BY <1>1 DEF NoRefusal, CallAtZero, OnDemand, FetchKey, HandKeyOn, RetryValidation, Unauthorized, Idle
  <2>1. causes[a] = {}
    <3>1. UNCHANGED causes => causes[a] = {} BY <1>3
    <3>2. (KeysNext /\ UNCHANGED sessionVars) \/ UNCHANGED vars => UNCHANGED causes BY DEF sessionVars, vars
    <3>3. Serve \/ CleanupExpiredTokens => UNCHANGED causes
      BY DEF Serve, ReadToken, Replay, Rotate, RevokeOldToken, CleanupExpiredTokens
    <3>4. Deliver => UNCHANGED causes
      BY DEF Deliver, RefreshSucceeds, SaveTokens, RefreshRefused, RefreshErrs
    <3>5. Fetch \/ (\E p \in Calls : CallLost(p) \/ \E v \in Validators : StartCall(p, v)) => UNCHANGED causes
      BY DEF Fetch, Validate, OnDemand, FetchKey, HandKeyOn, RetryValidation, Unauthorized, CallLost, StartCall
    <3>6. ASSUME NEW b \in Apps,
                 Login(b) \/ Age(b) \/ RefreshLost(b) \/ StartLogout(b) \/ Restart(b) \/ KilledClearing(b)
                   \/ RevokeOnLogout(b) \/ FinishLogout(b)
          PROVE  causes[a] = {}
      <4>1. CASE Login(b) BY <1>3, <1>5, <4>1 DEF Login, Types, Histories
      <4>2. CASE Age(b) \/ RevokeOnLogout(b) BY <1>3, <4>2 DEF Age, RevokeOnLogout
      <4>3. CASE RefreshLost(b) \/ StartLogout(b) BY <4>3, <2>c DEF RefreshLost, StartLogout
      <4>4. CASE Restart(b) \/ KilledClearing(b)
        <5>1. CASE Restart(b) BY <5>1, <3>1, <2>c DEF Restart
        <5>2. CASE KilledClearing(b)
          <6>1. causes' = [causes EXCEPT ![b] = {"cleared"}] BY <5>2 DEF KilledClearing
          <6> QED BY <1>3, <6>1 DEF Types, Histories
        <5> QED BY <4>4, <5>1, <5>2
      <4>5. CASE FinishLogout(b)
        <5>1. causes' = [causes EXCEPT ![b] = IF flight[b] = Idle THEN {"out"} ELSE @ \cup {"overlap"}]
          BY <4>5 DEF FinishLogout
        <5> QED BY <1>3, <5>1 DEF Types, Histories
      <4> QED BY <3>6, <4>1, <4>2, <4>3, <4>4, <4>5
    <3> QED BY <3>1, <3>2, <3>3, <3>4, <3>5, <3>6, <1>1, <2>n DEF Next, Progress, Leave
  <2>2. PICK f : f = Family(Heir(a)) OBVIOUS
  <2>3. AliveInv(a) /\ Alone(a, f) BY <1>1, <2>1, <2>2 DEF SessionInv
  <2>u. ASSUME UNCHANGED <<rows, work, mem, disk, flight, leaving>>
        PROVE  AliveInv(a)' /\ Alone(a, Family(Heir(a)))'
    BY <2>2, <2>3, <2>u, AliveKept DEF Undisturbed, Of, IsRow, Family, Serves
  <2>4. CASE (KeysNext /\ UNCHANGED sessionVars) \/ UNCHANGED vars BY <2>4, <2>u DEF sessionVars, vars
  <2>5. ASSUME NEW p \in Calls, Validate(p) \/ CallLost(p)
        PROVE  AliveInv(a)' /\ Alone(a, Family(Heir(a)))'
    BY <2>5, <2>u DEF Validate, CallLost
  <2>6. CASE CleanupExpiredTokens
    <3>1. /\ UNCHANGED <<work, mem, disk, flight, leaving>>
          /\ rows' = [t \in Tokens |-> IF IsRow(t) /\ rows[t].expired THEN Purged ELSE rows[t]]
      BY <2>6 DEF CleanupExpiredTokens
    <3>2. Undisturbed(f) BY <3>1 DEF Undisturbed, Of, IsRow, Family
    <3>3. \A r \in Requests : Serves(r, f)' => Serves(r, f)
      <4> SUFFICES ASSUME NEW r \in Requests, Serves(r, f)' PROVE Serves(r, f) OBVIOUS
      <4>1. PICK x, y : x = work[r].token /\ y = work[r].next OBVIOUS
      <4>2. work'[r] = work[r] /\ work'[r].token = x /\ work'[r].next = y BY <3>1, <4>1
      <4>3. \A u : Of(u, f)' => Of(u, f) BY <3>2 DEF Undisturbed, Of
      <4> QED BY <4>1, <4>2, <4>3 DEF Serves
    <3> QED BY <2>2, <2>3, <3>1, <3>2, <3>3, AliveKept
  <2>7. ASSUME NEW r \in Requests, ReadToken(r) \/ Replay(r) \/ Rotate(r) \/ RevokeOldToken(r)
        PROVE  AliveInv(a)' /\ Alone(a, Family(Heir(a)))'
    <3>1. CASE flight[a].at = "asking" /\ flight[a].req = r BY <2>2, <2>3, <2>7, <3>1, AliveAsked
    <3>2. CASE ~(flight[a].at = "asking" /\ flight[a].req = r) BY <2>2, <2>3, <2>7, <3>2, AliveServed
    <3> QED BY <3>1, <3>2
  <2>8. ASSUME NEW b \in Apps,
               \/ Login(b) \/ Age(b) \/ RefreshSucceeds(b) \/ SaveTokens(b) \/ RefreshRefused(b)
               \/ RefreshErrs(b) \/ RefreshLost(b) \/ StartLogout(b) \/ RevokeOnLogout(b)
               \/ FinishLogout(b) \/ Restart(b) \/ KilledClearing(b)
        PROVE  AliveInv(a)' /\ Alone(a, Family(Heir(a)))'
    <3>1. CASE b = a BY <1>1, <1>3, <1>5, <2>1, <2>2, <2>3, <2>8, <3>1, AliveOwn
    <3>2. CASE b # a BY <2>2, <2>3, <2>8, <3>2, AliveOther
    <3> QED BY <3>1, <3>2
  <2>9. ASSUME NEW p \in Calls, NEW v \in Validators, StartCall(p, v)
        PROVE  AliveInv(a)' /\ Alone(a, Family(Heir(a)))'
    <3>1. PICK b \in Apps : b = p[1] BY DEF Calls
    <3>2. CASE b = a BY <2>2, <2>3, <2>9, <3>1, <3>2, AliveStartCall
    <3>3. CASE b # a BY <2>2, <2>3, <2>9, <3>1, <3>3, AliveOther
    <3> QED BY <3>2, <3>3
  <2> QED
    BY <1>1, <2>n, <2>0, <2>4, <2>5, <2>6, <2>7, <2>8, <2>9 DEF Next, Progress, Serve, Deliver, Fetch, Leave
<1> QED BY <1>4, <1>5

-----------------------------------------------------------------------------
(* The inductive invariant, and what it says.                               *)

Inv == Types /\ FamilyInv /\ LogoutInv /\ ClearedInv /\ ReferencesIssued /\ SessionInv

\* Nothing has happened yet.
LEMMA InitInv == Init => Inv
<1> SUFFICES ASSUME Init PROVE Inv OBVIOUS
<1>1. Types BY InitTypes
<1>2. \A t \in Tokens : rows[t] = Unissued /\ ~IsRow(t) BY DEF Init, IsRow
<1>3. FamilyInv BY <1>2 DEF Init, FamilyInv, OneHeir, FamiliesIssued, EndedFamiliesStayDead
<1>4. \A a \in Apps : mem[a] = Empty /\ disk[a] = Empty /\ flight[a] = Idle /\ leaving[a] = Idle /\ causes[a] = {"out"}
  BY DEF Init
<1>5. LogoutInv /\ ClearedInv BY <1>4 DEF LogoutInv, ClearedInv
<1>6. ReferencesIssued
  <2>1. \A r \in Requests : RequestRefs(r) BY DEF Init, RequestRefs, Unused
  <2>2. \A a \in Apps : AppRefs(a) BY <1>4 DEF AppRefs, Issued, Idle, Empty
  <2> QED BY <2>1, <2>2 DEF ReferencesIssued
<1>7. NoRefusal
  <2>1. KeysAtZero BY DEF Init, KeysInit, KeysAtZero, Resting, Zero
  <2>2. \A r \in Requests : work[r].at # "answer" BY DEF Init, Unused
  <2>3. \A a \in Apps : AppAtZero(a) BY <1>4 DEF AppAtZero, Zero, Empty, Idle
  <2>4. \A p \in Calls : CallAtZero(p) BY DEF Init, CallAtZero
  <2> QED BY <2>1, <2>2, <2>3, <2>4 DEF NoRefusal
<1>8. SessionInv BY <1>4, <1>7 DEF SessionInv
<1> QED BY <1>1, <1>3, <1>5, <1>6, <1>8 DEF Inv

\* Every step keeps the invariant.
LEMMA NextInv == Inv /\ [Next]_vars => Inv'
<1> SUFFICES ASSUME Inv, [Next]_vars PROVE Inv' OBVIOUS
<1>1. Types /\ FamilyInv /\ LogoutInv /\ ClearedInv /\ ReferencesIssued /\ SessionInv BY DEF Inv
<1>2. Types' BY <1>1, TypesStep
<1> QED BY <1>1, <1>2, FamilyStep, LogoutStep, ClearedStep, RefsStep, SessionStep DEF Inv

\* The inductive invariant holds of every behaviour.
LEMMA InvHolds == Spec => []Inv
BY InitInv, NextInv, PTL DEF Spec

\* The types of the proof are the types of the model.
LEMMA TypesSay == Types => TypeOK
BY DEF Types, TypeOK, RowTypes, WorkTypes, TokenTypes, Counts, Histories

\* Whatever rotations, reuse detection and logouts overlap on the server, a
\* family no token of which was rotated twice has one live token besides
\* those being revoked, and a family that has been ended is never revived.
THEOREM FamiliesSound == Spec => []FamiliesAreSound
<1>1. Inv => FamiliesAreSound
  BY TypesSay, HeirsCounted DEF Inv, FamilyInv, FamiliesAreSound
<1> QED BY <1>1, InvHolds, PTL

\* No call, refresh or late answer gives tokens back to an app that has
\* logged out with no refresh under way, or that was killed while its tokens
\* were thrown away.
THEOREM LogoutHolds == Spec => []LogoutSticks
<1>1. Inv => LogoutSticks
  <2> SUFFICES ASSUME Inv, NEW a \in Apps
               PROVE  /\ "out" \in causes[a] => Loaded(a) = Empty
                      /\ "cleared" \in causes[a] => Loaded(a).access = None /\ flight[a] = Idle
    BY DEF LogoutSticks
  <2>1. "out" \in causes[a] => Loaded(a) = Empty BY LoadedEmpty DEF Inv, LogoutInv
  <2>2. "cleared" \in causes[a] => Loaded(a).access = None /\ flight[a] = Idle
    BY DEF Inv, ClearedInv, Over, Loaded
  <2> QED BY <2>1, <2>2
<1> QED BY <1>1, InvHolds, PTL

\* An app that has suffered no fault, logout or overlap keeps a refresh token
\* the server takes, however its calls share their refreshes and whatever
\* befalls the other apps.
THEOREM SessionStaysAlive == Spec => []SessionAlive
<1>1. Inv => SessionAlive
  <2> SUFFICES ASSUME Inv, NEW a \in Apps, causes[a] = {}, flight[a] = Idle, \A h \in Halves : vault[h] = 0
               PROVE  /\ mem[a] = disk[a]
                      /\ mem[a].token # None /\ IsRow(mem[a].token) /\ Live(mem[a].token)
    BY DEF SessionAlive
  <2>1. AliveInv(a) BY DEF Inv, SessionInv, Stable
  <2>2. AtRest(a) BY <2>1 DEF AliveInv, Idle
  <2> QED BY <2>2 DEF AtRest, Good, None
<1> QED BY <1>1, InvHolds, PTL
=============================================================================
