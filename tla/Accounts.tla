------------------------------ MODULE Accounts ------------------------------
(***************************************************************************)
(* AuthService's accounts, with the merchants rows: registration,          *)
(* administrators, the reset of a password, merchants an administrator     *)
(* makes, and profiles.  A registration is three saves without a           *)
(* transaction; every other writer of a row loads the whole row and saves  *)
(* it later.  Each call is made at most once, and a merchant, a password   *)
(* or a token is named by the call that made it.  No mail of the service   *)
(* is ever sent: it names its templates, and templates are found by uuid.  *)
(***************************************************************************)
EXTENDS Absent, FiniteSets

CONSTANTS AccountCall, Email,
          UserId,   \* bound: users rows
          Founder   \* the user there is at the start

ASSUME AccountAssumption == Founder \in UserId /\ None \notin AccountCall \cup Email \cup UserId

Roles == {"super_admin", "admin", "merchant"}
Maker == AccountCall \cup {None}

UserRow == [exists : BOOLEAN, email : Email \cup {None}, role : Roles,
            password : Maker, token : Maker, live : BOOLEAN]
NoUser == [exists |-> FALSE, email |-> None, role |-> "merchant", password |-> None,
           token |-> None, live |-> FALSE]

VARIABLES
    user,      \* users rows; live: the reset token has not expired
    registered, \* per call, None for the founder's: the address in the merchants
               \* row it made, or None
    apiKey,    \* those whose merchant has its first API key
    acall,     \* per call: where it is and what it holds
    \* History.
    overlap,   \* addresses two creations of which overlapped
    halved,    \* registrations that died after the merchant's save
    gone,      \* rows that were removed
    stale,     \* rows a save wrote over that had changed since it loaded them
    latest,    \* per row: the call that last created it or reset its password
    spent      \* tokens that have reset a password

accountRows == <<user, registered, apiKey>>
accountHistory == <<overlap, halved, gone, stale, latest, spent>>
accountVars == <<accountRows, acall, accountHistory>>

AccountStep == {"new", "merchant", "user", "key", "create", "profile", "admin", "forgot", "reset",
                "remove", "end"}
\* u, k: the user and the merchant it loaded.  A call about a merchant alone
\* holds its address in row, which is no user's.
AccountLocal == [at : AccountStep, u : UserId \cup {None}, k : Maker, read : UserRow, row : UserRow]
NewAccountCall == [at |-> "new", u |-> None, k |-> None, read |-> NoUser, row |-> NoUser]

AccountsTypeOK ==
    /\ user \in [UserId -> UserRow]
    /\ registered \in [Maker -> Email \cup {None}] /\ apiKey \subseteq Maker
    /\ acall \in [AccountCall -> AccountLocal]
    /\ overlap \subseteq Email /\ halved \subseteq AccountCall
    /\ gone \subseteq UserId /\ stale \subseteq UserId
    /\ latest \in [UserId -> Maker]
    /\ spent \subseteq AccountCall

AccountsInit ==
    /\ \E e \in Email, role \in Roles :
          /\ user = [u \in UserId |-> IF u = Founder
                        THEN [NoUser EXCEPT !.exists = TRUE, !.email = e, !.role = role]
                        ELSE NoUser]
          /\ registered = [k \in Maker |-> IF k = None /\ role = "merchant" THEN e ELSE None]
          /\ apiKey = IF role = "merchant" THEN {None} ELSE {}
    /\ acall = [c \in AccountCall |-> NewAccountCall]
    /\ overlap = {} /\ halved = {} /\ gone = {} /\ stale = {} /\ spent = {}
    /\ latest = [u \in UserId |-> None]

Users == {u \in UserId : user[u].exists}
Addresses == {registered[k] : k \in Maker} \ {None}
Proceed(c, at) == acall' = [acall EXCEPT ![c].at = at]
-----------------------------------------------------------------------------
(* register and createAdmin.                                                *)

Creations(e) == {c \in AccountCall : /\ acall[c].at \in {"merchant", "user", "admin"}
                                     /\ acall[c].row.email = e}

StartCreation(c, at, e, role) ==
    /\ acall' = [acall EXCEPT ![c] =
           [NewAccountCall EXCEPT !.at = at,
               !.row = [NoUser EXCEPT !.exists = TRUE, !.email = e, !.role = role,
                                      !.password = c]]]
    /\ overlap' = IF Creations(e) # {} THEN overlap \cup {e} ELSE overlap
    /\ UNCHANGED <<accountRows, halved, gone, stale, latest, spent>>

Refuse(c) == Proceed(c, "end") /\ UNCHANGED <<accountRows, accountHistory>>

\* Mutant: the address is not looked up.
RegisterUnchecked(c, e) == acall[c].at = "new" /\ StartCreation(c, "merchant", e, "merchant")

Register(c, e) ==
    /\ acall[c].at = "new"
    /\ IF \E u \in Users : user[u].email = e THEN Refuse(c)
       ELSE StartCreation(c, "merchant", e, "merchant")

\* merchants.email is unique.
InsertMerchant(c, at, next) ==
    LET e == acall[c].row.email IN
    /\ acall[c].at = at
    /\ IF e \in Addresses THEN Proceed(c, "end") /\ UNCHANGED registered
       ELSE Proceed(c, next) /\ registered' = [registered EXCEPT ![c] = e]
    /\ UNCHANGED <<user, apiKey, accountHistory>>

RegisterMerchant(c) == InsertMerchant(c, "merchant", "user")

\* users.email is unique.
InsertUser(c, at, next) ==
    LET row == acall[c].row IN
    /\ acall[c].at = at
    /\ IF \E u \in Users : user[u].email = row.email
       THEN Proceed(c, "end") /\ UNCHANGED <<user, latest>>
       ELSE \E u \in UserId : /\ user[u] = NoUser
                              /\ user' = [user EXCEPT ![u] = row]
                              /\ latest' = [latest EXCEPT ![u] = c]
                              /\ Proceed(c, next)
    /\ UNCHANGED <<registered, apiKey, overlap, halved, gone, stale, spent>>

RegisterUser(c) == InsertUser(c, "user", "key")

\* The mail that follows fails the call.
RegisterApiKey(c) ==
    /\ acall[c].at = "key"
    /\ apiKey' = apiKey \cup {c}
    /\ Proceed(c, "end")
    /\ UNCHANGED <<user, registered, accountHistory>>

CreateAdmin(c, e, role) ==
    /\ acall[c].at = "new"
    /\ IF (\E u \in Users : user[u].email = e) \/ role = "merchant" THEN Refuse(c)
       ELSE StartCreation(c, "admin", e, role)

\* The notification that follows fails the call.
SaveAdmin(c) == InsertUser(c, "admin", "end")
-----------------------------------------------------------------------------
(* Merchants without a registration, and their profiles.                    *)

HoldAddress(c, at, k, e) ==
    /\ acall' = [acall EXCEPT ![c] = [NewAccountCall EXCEPT !.at = at, !.k = k,
                                                           !.row = [NoUser EXCEPT !.email = e]]]
    /\ UNCHANGED <<accountRows, accountHistory>>

\* MerchantsService: no user, no key.
CreateMerchant(c, e) ==
    /\ acall[c].at = "new"
    /\ IF e \in Addresses THEN Refuse(c) ELSE HoldAddress(c, "create", None, e)

SaveCreated(c) == InsertMerchant(c, "create", "end")

\* MerchantProfileService.  Without a new address, and in every other save of a
\* loaded merchant (Merchants), e is the one that was loaded.
UpdateProfile(c, k, e) ==
    /\ acall[c].at = "new" /\ registered[k] # None
    /\ HoldAddress(c, "profile", k, e)

SaveProfile(c) ==
    LET k == acall[c].k
        e == acall[c].row.email
    IN  /\ acall[c].at = "profile"
        /\ registered' = IF \E j \in Maker \ {k} : registered[j] = e THEN registered
                         ELSE [registered EXCEPT ![k] = e]
        /\ Proceed(c, "end")
        /\ UNCHANGED <<user, apiKey, accountHistory>>
-----------------------------------------------------------------------------
(* Calls that load a user and then save or remove it.                       *)

FindUser(c, u, at, row) ==
    /\ acall[c].at = "new" /\ u \in Users
    /\ acall' = [acall EXCEPT ![c] = [NewAccountCall EXCEPT !.at = at, !.u = u, !.read = user[u],
                                                           !.row = row]]
    /\ UNCHANGED <<accountRows, accountHistory>>

ForgotPassword(c, u) ==
    FindUser(c, u, "forgot", [user[u] EXCEPT !.token = c, !.live = TRUE])

\* Mutant: the token stays.
ResetPasswordOnly(c, u) ==
    /\ user[u].live
    /\ FindUser(c, u, "reset", [user[u] EXCEPT !.password = c])

\* Found by its token, unexpired; the token becomes empty and expired.
ResetPassword(c, u) ==
    /\ user[u].live
    /\ FindUser(c, u, "reset", [user[u] EXCEPT !.password = c, !.token = None, !.live = FALSE])

\* save writes the columns that differ from the row as it is now, and inserts
\* the row again when it was removed, if nobody has taken its address.
SaveUser(c) ==
    LET local == acall[c]
        u == local.u
    IN  /\ local.at \in {"forgot", "reset"}
        /\ IF \E v \in Users \ {u} : user[v].email = local.row.email
           THEN UNCHANGED <<user, stale, latest, spent>>
           ELSE /\ user' = [user EXCEPT ![u] = local.row]
                /\ stale' = IF user[u] # local.read THEN stale \cup {u} ELSE stale
                /\ IF local.at = "reset"
                   THEN /\ latest' = [latest EXCEPT ![u] = c]
                        /\ spent' = spent \cup {local.read.token}
                   ELSE UNCHANGED <<latest, spent>>
        /\ Proceed(c, "end")
        /\ UNCHANGED <<registered, apiKey, overlap, halved, gone>>

DeleteAdmin(c, u) ==
    /\ user[u].role # "super_admin"
    /\ FindUser(c, u, "remove", user[u])

\* Whatever the row is by now; the merchant stays.
RemoveUser(c) ==
    /\ acall[c].at = "remove"
    /\ user' = [user EXCEPT ![acall[c].u].exists = FALSE]
    /\ gone' = gone \cup {acall[c].u}
    /\ Proceed(c, "end")
    /\ UNCHANGED <<registered, apiKey, overlap, halved, stale, latest, spent>>
-----------------------------------------------------------------------------
\* An hour passes.
TokenExpires(u) ==
    /\ user[u].live
    /\ user' = [user EXCEPT ![u].live = FALSE]
    /\ UNCHANGED <<registered, apiKey, acall, accountHistory>>

\* An await rejects or the replica dies.
AccountCallFails(c) ==
    /\ acall[c].at \notin {"new", "end"}
    /\ halved' = IF acall[c].at = "user" THEN halved \cup {c} ELSE halved
    /\ Proceed(c, "end")
    /\ UNCHANGED <<accountRows, overlap, gone, stale, latest, spent>>

AuthEndpoints(c) ==
    \/ \E e \in Email : Register(c, e)
    \/ \E u \in UserId : ForgotPassword(c, u) \/ ResetPassword(c, u)

MerchantEndpoints(c) ==
    \E e \in Email : CreateMerchant(c, e) \/ \E k \in Maker : UpdateProfile(c, k, e)

SuperAdminEndpoints(c) ==
    \/ \E e \in Email, role \in Roles : CreateAdmin(c, e, role)
    \/ \E u \in UserId : DeleteAdmin(c, u)

AccountsNext ==
    \/ \E c \in AccountCall :
          \/ AuthEndpoints(c) \/ SuperAdminEndpoints(c) \/ MerchantEndpoints(c)
          \/ RegisterMerchant(c) \/ RegisterUser(c) \/ RegisterApiKey(c)
          \/ SaveCreated(c) \/ SaveProfile(c)
          \/ SaveAdmin(c) \/ SaveUser(c) \/ RemoveUser(c)
          \/ AccountCallFails(c)
    \/ \E u \in UserId : TokenExpires(u)

AccountsSpec == AccountsInit /\ [][AccountsNext]_accountVars
-----------------------------------------------------------------------------
\* Registrations that have saved their merchant.
Registrations == {c \in AccountCall : registered[c] # None /\ acall[c].row.exists}

\* There is a merchant's account of the address, or there was one that was
\* removed, or a late save brought another one of the address back.
HasAccount(e) ==
    \E u \in UserId : /\ user[u].email = e
                      /\ \/ user[u].role = "merchant" /\ (user[u].exists \/ u \in gone)
                         \/ u \in stale

\* auth.service.ts register: a registration that saved its merchant ends with
\* the account of its address, whatever merchants administrators make and
\* whatever address the merchant takes later, unless it died in the middle or
\* overlapped with another creation of an account of that address.
MerchantsHaveAccounts ==
    \A c \in Registrations \ halved :
        LET e == acall[c].row.email IN acall[c].at = "user" \/ e \in overlap \/ HasAccount(e)

\* auth.service.ts forgotPassword, resetPassword: a user's password is the one
\* of its last reset and a token that has been used is not in its row, unless
\* a save wrote over a row that had changed since it was loaded.
ResetsHold ==
    \A u \in Users \ stale : user[u].password = latest[u] /\ user[u].token \notin spent
=============================================================================
