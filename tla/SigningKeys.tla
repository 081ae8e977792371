----------------------------- MODULE SigningKeys ------------------------------
(***************************************************************************)
(* The keys of the access tokens.  An operator replaces the pair in Vault, *)
(* one secret at a time; the users service looks for a new pair on a       *)
(* timer, signs with it and pushes it to its own validator; every other    *)
(* service keeps a public key, polls for it, and fetches it once more when *)
(* a signature fails, at most once per gap.                                *)
(*                                                                         *)
(* A key is the number of its pair.  A check that would find nothing new   *)
(* changes nothing and is left out.                                        *)
(***************************************************************************)
EXTENDS Integers

CONSTANTS
  Services,      \* the services with a KeyRefresher: content, email
  Own,           \* the users service, whose validator is told of rotations
  MaxKey         \* bound: how often the operator replaces the pair

ASSUME SigningKeysAssumption == Own \notin Services /\ MaxKey \in Nat

Validators == Services \cup {Own}
Keys       == 0..MaxKey
Halves     == {"private", "public"}
None       == -1     \* nil, and null in the app

VARIABLES
  vault,         \* the two secrets
  rotator,       \* the KeyRotationManager's check in progress
  signer,        \* the JWTManager's private key
  publicKey,     \* each validator's key
  polled,        \* the old key that a poll under way has read, if any
  recent         \* services whose last on-demand fetch is within the gap

keyVars == <<vault, rotator, signer, publicKey, polled, recent>>

Resting == [at |-> "rest"]

Rotations ==
  {Resting}
    \cup [at : {"half"}, private : Keys]
    \cup [at : {"swap", "push"}, private : Keys, public : Keys]

KeysTypeOK ==
  /\ vault \in [Halves -> Keys]
  /\ rotator \in Rotations
  /\ signer \in Keys
  /\ publicKey \in [Validators -> Keys]
  /\ polled \in [Services -> Keys \cup {None}]
  /\ recent \subseteq Services

KeysInit ==
  /\ vault = [h \in Halves |-> 0]
  /\ rotator = Resting
  /\ signer = 0
  /\ publicKey = [v \in Validators |-> 0]
  /\ polled = [s \in Services |-> None]
  /\ recent = {}

-----------------------------------------------------------------------------
(* The operator stores a new pair "at the same paths", in either order.    *)

\* Polls may be under way that have read the key that is replaced.
Overtake ==
  \E late \in SUBSET {s \in Services : polled[s] = None} :
    polled' = [s \in Services |-> IF s \in late THEN vault["public"] ELSE polled[s]]

Put(h) ==
  /\ vault' = [vault EXCEPT ![h] = @ + 1]
  /\ IF h = "public" THEN Overtake ELSE UNCHANGED polled
  /\ UNCHANGED <<rotator, signer, publicKey, recent>>

PutFirst(h)  == vault["private"] = vault["public"] /\ vault[h] < MaxKey /\ Put(h)
PutSecond(h) == (\E o \in Halves : vault[h] < vault[o]) /\ Put(h)

-----------------------------------------------------------------------------
(* The users service: rotateKeys.                                          *)

Knows == signer = vault["private"] /\ publicKey[Own] = vault["public"]

ReadPrivateKey ==
  /\ rotator = Resting /\ ~Knows
  /\ rotator' = [at |-> "half", private |-> vault["private"]]
  /\ UNCHANGED <<vault, signer, publicKey, polled, recent>>

ReadPublicKey ==
  /\ rotator.at = "half"
  /\ rotator' = [at |-> "swap", private |-> rotator.private, public |-> vault["public"]]
  /\ UNCHANGED <<vault, signer, publicKey, polled, recent>>

\* Either read fails: the check is over and the keys stay.
RotationFails ==
  /\ rotator.at = "half"
  /\ rotator' = Resting
  /\ UNCHANGED <<vault, signer, publicKey, polled, recent>>

\* onRotation, first call: the JWTManager signs with the new key.
UpdateKeys ==
  /\ rotator.at = "swap"
  /\ signer' = rotator.private
  /\ rotator' = [rotator EXCEPT !.at = "push"]
  /\ UNCHANGED <<vault, publicKey, polled, recent>>

\* Altered: the middleware keeps the key of the start.
PushNothing ==
  /\ rotator.at = "push"
  /\ rotator' = Resting
  /\ UNCHANGED <<vault, signer, publicKey, polled, recent>>

\* onRotation, second call: the router's validator.
PushPublicKey ==
  /\ rotator.at = "push"
  /\ publicKey' = [publicKey EXCEPT ![Own] = rotator.public]
  /\ rotator' = Resting
  /\ UNCHANGED <<vault, signer, polled, recent>>

RotateKeys == ReadPrivateKey \/ ReadPublicKey \/ UpdateKeys \/ PushPublicKey

-----------------------------------------------------------------------------
(* The other services: KeyRefresher.                                       *)

UpdatePublicKey(s, key) == publicKey' = [publicKey EXCEPT ![s] = key]

\* A round of the poll: refresh reads the key and hands it on.  Only if a
\* replacement comes in between does it matter that these are two steps.
PollInTime(s) ==
  /\ polled[s] = None /\ publicKey[s] # vault["public"]
  /\ UpdatePublicKey(s, vault["public"])
  /\ UNCHANGED <<vault, rotator, signer, polled, recent>>

PollOvertaken(s) ==
  /\ polled[s] # None
  /\ UpdatePublicKey(s, polled[s])
  /\ polled' = [polled EXCEPT ![s] = None]
  /\ UNCHANGED <<vault, rotator, signer, recent>>

Poll(s) == PollInTime(s) \/ PollOvertaken(s)

GapOver(s) ==
  /\ s \in recent
  /\ recent' = recent \ {s}
  /\ UNCHANGED <<vault, rotator, signer, publicKey, polled>>

\* parseAndValidate: a key id that differs is only logged, the signature decides.
Verifies(v, key) == key = publicKey[v]

\* ValidateToken asks its hook, and the hook has not been used within the gap.
MayFetch(v) == v \in Services /\ v \notin recent

KeysNext ==
  \/ \E h \in Halves : PutSecond(h)
  \/ RotateKeys \/ RotationFails
  \/ \E s \in Services : Poll(s) \/ GapOver(s)

\* Both timers go on for ever, and fail at times but not for ever.
KeysFairness ==
  /\ WF_keyVars(ReadPrivateKey \/ UpdateKeys \/ PushPublicKey)
  /\ SF_keyVars(ReadPublicKey)
  /\ \A s \in Services : WF_keyVars(Poll(s))
=============================================================================
