------------------------------- MODULE ApiKeys -------------------------------
(***************************************************************************)
(* A merchant's API keys: creation under a name no active key has,         *)
(* deactivation and rotation by id, and the KYC approval, which saves the  *)
(* merchant together with the keys it loaded with it.  Each handler awaits *)
(* between its load and its save.                                          *)
(***************************************************************************)
EXTENDS Absent, Naturals

CONSTANTS KeyId,     \* bound: the api_keys rows a behaviour may create
          KeyName, KeyRequest,
          MaxSecret  \* bound: key strings generated

ASSUME ApiKeyAssumption == MaxSecret \in Nat \ {0} /\ None \notin KeyId

KeyRow == [exists : BOOLEAN, name : KeyName \cup {None}, isActive : BOOLEAN,
           secret : 0..MaxSecret, owned : BOOLEAN]
NoKey == [exists |-> FALSE, name |-> None, isActive |-> FALSE, secret |-> 0,
          owned |-> FALSE]

KeyStep == {"idle", "insert", "deactivate", "rotate", "approve"}

VARIABLES
    key,         \* api_keys rows; owned: the row's merchant is set
    kstep,       \* per request: the save it is about to make
    aim,         \* per request: the row it creates or has loaded
    held,        \* per request: that row as it was loaded, or is to be created
    collection,  \* per approval: the keys loaded with the merchant
    secrets,     \* key strings generated so far, up to MaxSecret
    \* History.
    namesakes,   \* names whose creations overlapped
    restored,    \* keys a save made active, or the merchant's, again
    latecomers   \* keys created while an approval was in progress

keyVars == <<key, kstep, aim, held, collection, secrets, namesakes, restored, latecomers>>

KeysTypeOK ==
    /\ key \in [KeyId -> KeyRow]
    /\ kstep \in [KeyRequest -> KeyStep]
    /\ aim \in [KeyRequest -> KeyId \cup {None}]
    /\ held \in [KeyRequest -> KeyRow]
    /\ collection \in [KeyRequest -> SUBSET KeyId]
    /\ secrets \in 0..MaxSecret
    /\ namesakes \subseteq KeyName
    /\ restored \subseteq KeyId
    /\ latecomers \subseteq KeyId

KeysInit ==
    /\ key = [k \in KeyId |-> NoKey]
    /\ kstep = [q \in KeyRequest |-> "idle"]
    /\ aim = [q \in KeyRequest |-> None]
    /\ held = [q \in KeyRequest |-> NoKey]
    /\ collection = [q \in KeyRequest |-> {}]
    /\ secrets = 0
    /\ namesakes = {}
    /\ restored = {}
    /\ latecomers = {}

BeginKeys(q, at, k, row, found) ==
    /\ kstep[q] = "idle"
    /\ kstep' = [kstep EXCEPT ![q] = at]
    /\ aim' = [aim EXCEPT ![q] = k]
    /\ held' = [held EXCEPT ![q] = row]
    /\ collection' = [collection EXCEPT ![q] = found]

EndKeys(q) ==
    /\ kstep' = [kstep EXCEPT ![q] = "idle"]
    /\ aim' = [aim EXCEPT ![q] = None]
    /\ held' = [held EXCEPT ![q] = NoKey]
    /\ collection' = [collection EXCEPT ![q] = {}]

Bearing(n) == {k \in KeyId : key[k].owned /\ key[k].isActive /\ key[k].name = n}
Owned == {k \in KeyId : key[k].owned}
Creating == {k \in KeyId : \E q \in KeyRequest : kstep[q] = "insert" /\ aim[q] = k}

\* The row gets a key string that no row has had.
Generate(row) == [row EXCEPT !.secret = secrets + 1]
Generates == secrets < MaxSecret /\ secrets' = secrets + 1

-----------------------------------------------------------------------------
(* ApiKeysService.                                                          *)

New(n) == [exists |-> TRUE, name |-> n, isActive |-> TRUE, secret |-> 0, owned |-> TRUE]

CreateWith(q, k, n) ==
    /\ ~key[k].exists /\ k \notin Creating
    /\ BeginKeys(q, "insert", k, New(n), {})
    /\ namesakes' = IF \E o \in KeyRequest : kstep[o] = "insert" /\ held[o].name = n
                    THEN namesakes \cup {n} ELSE namesakes
    /\ UNCHANGED <<key, secrets, restored, latecomers>>

\* Mutant: the name is not looked up.
CreateForMerchantUnchecked(q, k, n) == CreateWith(q, k, n)

\* createForMerchant; a name in use is refused and changes nothing.
CreateForMerchant(q, k, n) == Bearing(n) = {} /\ CreateWith(q, k, n)

InsertKey(q) ==
    /\ kstep[q] = "insert"
    /\ Generates
    /\ key' = [key EXCEPT ![aim[q]] = Generate(held[q])]
    /\ latecomers' = IF \E o \in KeyRequest : kstep[o] = "approve"
                     THEN latecomers \cup {aim[q]} ELSE latecomers
    /\ EndKeys(q)
    /\ UNCHANGED <<namesakes, restored>>

\* deactivate and rotateKey load the row by its id, whatever its state.
LoadKey(q, k) ==
    /\ key[k].exists
    /\ \E at \in {"deactivate", "rotate"} : BeginKeys(q, at, k, key[k], {})
    /\ UNCHANGED <<key, secrets, namesakes, restored, latecomers>>

\* A save writes the columns of the loaded row; its merchant was not loaded.
SaveKey(q, row) ==
    LET k == aim[q] IN
    /\ key' = [key EXCEPT ![k] = [row EXCEPT !.owned = key[k].owned]]
    /\ restored' = IF row.isActive /\ ~key[k].isActive THEN restored \cup {k} ELSE restored
    /\ EndKeys(q)
    /\ UNCHANGED <<namesakes, latecomers>>

Deactivate(q) ==
    /\ kstep[q] = "deactivate"
    /\ SaveKey(q, [held[q] EXCEPT !.isActive = FALSE])
    /\ UNCHANGED secrets

RotateKey(q) ==
    /\ kstep[q] = "rotate"
    /\ Generates
    /\ SaveKey(q, Generate(held[q]))

-----------------------------------------------------------------------------
(* MerchantsService.updateVerificationStatus, on a KYC approval.            *)

\* Mutant: only the keys in use are loaded.
FindMerchantActive(q) ==
    /\ BeginKeys(q, "approve", None, NoKey, {k \in Owned : key[k].isActive})
    /\ UNCHANGED <<key, secrets, namesakes, restored, latecomers>>

FindMerchant(q) ==
    /\ BeginKeys(q, "approve", None, NoKey, Owned)
    /\ UNCHANGED <<key, secrets, namesakes, restored, latecomers>>

\* The save makes the merchant's keys those of the collection it loaded.
SaveMerchant(q) ==
    /\ kstep[q] = "approve"
    /\ key' = [k \in KeyId |-> [key[k] EXCEPT !.owned = (k \in collection[q])]]
    /\ restored' = restored \cup (collection[q] \ Owned)
    /\ EndKeys(q)
    /\ UNCHANGED <<secrets, namesakes, latecomers>>

\* The replica dies or an await rejects.
KeyRequestFails(q) ==
    /\ kstep[q] # "idle"
    /\ EndKeys(q)
    /\ UNCHANGED <<key, secrets, namesakes, restored, latecomers>>

KeyEndpoints(q) ==
    \E k \in KeyId : LoadKey(q, k) \/ \E n \in KeyName : CreateForMerchant(q, k, n)

KeysNext ==
    \E q \in KeyRequest :
        \/ KeyEndpoints(q)
        \/ InsertKey(q) \/ Deactivate(q) \/ RotateKey(q)
        \/ FindMerchant(q) \/ SaveMerchant(q)
        \/ KeyRequestFails(q)

KeysSpec == KeysInit /\ [][KeysNext]_keyVars

-----------------------------------------------------------------------------
(* Properties.                                                              *)

Twins(a, b) == a # b /\ \E n \in KeyName : {a, b} \subseteq Bearing(n)

\* Two active keys of a merchant share a name only if their creations
\* overlapped, or a rotation or an approval brought one of them back.
TwinsExplained ==
    \A a, b \in KeyId : Twins(a, b) => \/ key[a].name \in namesakes
                                       \/ {a, b} \cap restored # {}

\* A key loses its merchant only if it was created during an approval.
OrphansExplained ==
    \A k \in KeyId : key[k].exists /\ ~key[k].owned => k \in latecomers
=============================================================================
