--------------------------- MODULE BackOfficeProofs ---------------------------
(***************************************************************************)
(* Proofs about the modules of what surrounds a payment, which share no    *)
(* variable and are proved one after the other, for any calls, rows and    *)
(* bounds.                                                                 *)
(***************************************************************************)
EXTENDS Accounts, FraudPrevention, MarketplaceSellers, RequestPipeline,
        ApiKeys, MerchantDocuments, FiniteSetTheorems, TLAPS

-----------------------------------------------------------------------------
(***************************************************************************)
(* Accounts: registration, merchants and passwords.                        *)
(***************************************************************************)
-----------------------------------------------------------------------------
(* The inductive invariant.                                                 *)

Creates(c) == acall[c].at \in {"merchant", "user", "admin"}
Saves(c) == acall[c].at \in {"forgot", "reset"}

\* A token in a row was put there by a call on that row, which has ended.
SetBy(t, u) == t \in AccountCall /\ acall[t].at = "end" /\ acall[t].u = u

\* What a call holds where it is.
Holding(c) ==
    LET local == acall[c] IN
    /\ local.row.exists => local.row.email \in Email
    /\ Creates(c) => /\ local.row.exists /\ local.row.email \in Email
                     /\ local.row.password = c /\ local.row.token = None /\ ~local.row.live
                     /\ local.at # "admin" => local.row.role = "merchant"
    /\ Saves(c) => /\ local.u \in UserId /\ local.read.exists /\ local.row.exists
                   /\ local.read.email \in Email
                   /\ local.row.email = local.read.email /\ user[local.u].email = local.read.email
                   /\ local.row.role = local.read.role /\ user[local.u].role = local.read.role
                   /\ local.read.token # None => SetBy(local.read.token, local.u)
    /\ local.at = "forgot" => local.row.password = local.read.password /\ local.row.token = c
    /\ local.at = "reset" => /\ local.row.password = c /\ local.row.token = None
                             /\ ~local.row.live /\ local.read.token # None
    /\ local.at = "remove" => local.u \in UserId
    /\ local.at \in {"new", "merchant", "create", "profile"} => registered[c] = None
    /\ local.at \in {"create", "profile"} => local.row.email \in Email /\ ~local.row.exists
    /\ local.at = "profile" => registered[local.k] # None

Rows ==
    /\ \A u \in UserId : /\ user[u].exists => user[u].email \in Email
                         /\ user[u].token # None => SetBy(user[u].token, u)
                         /\ user[u].live => user[u].token # None
    /\ \A t \in spent : acall[t].at = "end"

AccountInv == AccountsTypeOK /\ (\A c \in AccountCall : Holding(c)) /\ Rows

\* Whoever is about to create an address is the only one, and finds a user of
\* it only if a late save has brought one back, unless creations overlapped.
Alone ==
    \A c \in AccountCall : Creates(c) /\ acall[c].row.email \notin overlap =>
        /\ \A d \in AccountCall : Creates(d) /\ acall[d].row.email = acall[c].row.email => d = c
        /\ \A u \in UserId : user[u].exists /\ user[u].email = acall[c].row.email => u \in stale

Inv == AccountInv /\ ResetsHold /\ Alone /\ MerchantsHaveAccounts

-----------------------------------------------------------------------------
LEMMA RowTypes == NoUser \in UserRow /\ NewAccountCall \in AccountLocal
<1>1. NoUser \in UserRow
  BY DEF NoUser, UserRow, Roles, Maker
<1> QED  BY <1>1 DEF NewAccountCall, AccountLocal, AccountStep, Maker

LEMMA AccountsStart == AccountsInit => Inv
<1> SUFFICES ASSUME AccountsInit PROVE Inv
  OBVIOUS
<1> USE AccountAssumption
<1>1. PICK e \in Email, role \in Roles :
         /\ user = [u \in UserId |-> IF u = Founder
                       THEN [NoUser EXCEPT !.exists = TRUE, !.email = e, !.role = role] ELSE NoUser]
         /\ registered = [k \in Maker |-> IF k = None /\ role = "merchant" THEN e ELSE None]
         /\ apiKey = IF role = "merchant" THEN {None} ELSE {}
  BY DEF AccountsInit
<1>2. /\ acall = [c \in AccountCall |-> NewAccountCall]
      /\ overlap = {} /\ halved = {} /\ gone = {} /\ stale = {} /\ spent = {}
      /\ latest = [u \in UserId |-> None]
  BY DEF AccountsInit
<1> DEFINE founder == [NoUser EXCEPT !.exists = TRUE, !.email = e, !.role = role]
<1>3. /\ founder \in UserRow /\ founder.email = e /\ founder.role = role /\ founder.exists
      /\ founder.password = None /\ founder.token = None /\ ~founder.live
  BY DEF NoUser, UserRow, Roles, Maker
<1>4. user[Founder] = founder /\ \A u \in UserId : user[u] \in {founder, NoUser}
  BY <1>1
<1> HIDE DEF founder
<1>5. user \in [UserId -> UserRow]
  BY <1>1, <1>3, RowTypes DEF founder
<1>6. AccountsTypeOK
  BY <1>1, <1>2, <1>5, RowTypes DEF AccountsTypeOK, Maker
<1>6a. \A c \in AccountCall : c \in Maker /\ registered[c] = None
  BY <1>1 DEF Maker
<1>7. \A c \in AccountCall : ~Creates(c) /\ ~Saves(c) /\ acall[c].at = "new"
  BY <1>2 DEF Creates, Saves, NewAccountCall
<1>8. \A c \in AccountCall : Holding(c)
  BY <1>2, <1>6a, <1>7 DEF Holding, NewAccountCall, NoUser
<1>9. Rows
  BY <1>2, <1>3, <1>4 DEF Rows, NoUser
<1>10. ResetsHold
  BY <1>2, <1>3, <1>4 DEF ResetsHold, Users, NoUser
<1>11. Alone
  BY <1>7 DEF Alone
<1>12. MerchantsHaveAccounts
  BY <1>6a DEF MerchantsHaveAccounts, Registrations
<1> QED  BY <1>6, <1>8, <1>9, <1>10, <1>11, <1>12 DEF Inv, AccountInv

-----------------------------------------------------------------------------
(* What steps have in common.                                               *)

LEMMA ProceedTypes ==
    ASSUME AccountsTypeOK, NEW c \in AccountCall, NEW at \in AccountStep, Proceed(c, at)
    PROVE  /\ acall' \in [AccountCall -> AccountLocal]
           /\ acall'[c].at = at
           /\ \A d \in AccountCall : /\ d # c => acall'[d] = acall[d]
                                     /\ acall'[d].u = acall[d].u /\ acall'[d].row = acall[d].row
                                     /\ acall'[d].read = acall[d].read /\ acall'[d].k = acall[d].k
<1>1. acall[c] \in AccountLocal
  BY DEF AccountsTypeOK
<1>2. [acall[c] EXCEPT !.at = at] \in AccountLocal
  BY <1>1 DEF AccountLocal
<1> QED  BY <1>1, <1>2 DEF Proceed, AccountsTypeOK, AccountLocal

\* Only call c may make a merchant, and none is removed.
Only(c) == \A k \in Maker : /\ registered[k] # None => registered'[k] # None
                            /\ k # c /\ registered[k] = None => registered'[k] = None

\* A call that has not ended steps, and no row changes address or role: the
\* other calls hold what they held.
LEMMA HoldingKept ==
    ASSUME AccountInv, NEW c \in AccountCall, acall[c].at # "end",
           \A d \in AccountCall \ {c} : acall'[d] = acall[d],
           \A u \in UserId : user[u].email \in Email =>
               user'[u].email = user[u].email /\ user'[u].role = user[u].role,
           Only(c)
    PROVE  /\ \A t, u : SetBy(t, u) => acall'[t].at = "end" /\ acall'[t].u = u
           /\ \A d \in AccountCall \ {c} : Holding(d)'
           /\ \A t \in spent : t # c /\ acall'[t].at = "end"
<1>1. \A t, u : SetBy(t, u) => acall'[t].at = "end" /\ acall'[t].u = u
  BY DEF SetBy
<1>2. ASSUME NEW d \in AccountCall \ {c} PROVE Holding(d)'
  <2>1. Holding(d) /\ acall'[d] = acall[d]
    BY DEF AccountInv
  <2>2. Saves(d) => /\ user'[acall[d].u].email = user[acall[d].u].email
                    /\ user'[acall[d].u].role = user[acall[d].u].role
    BY <2>1 DEF Holding
  <2>3. /\ acall[d].at \in {"new", "merchant", "create", "profile"} => registered'[d] = None
        /\ acall[d].at = "profile" => registered'[acall[d].k] # None
    BY <2>1 DEF Holding, Only, Maker, AccountInv, AccountsTypeOK, AccountLocal
  <2> QED  BY <1>1, <2>1, <2>2, <2>3 DEF Holding, Creates, Saves, SetBy
<1>3. \A t \in spent : t # c /\ acall'[t].at = "end"
  BY DEF AccountInv, Rows, AccountsTypeOK
<1> QED  BY <1>1, <1>2, <1>3

\* A step of one call that leaves the users alone.
LEMMA QuietKeeps ==
    ASSUME Inv, NEW c \in AccountCall, acall[c].at # "end",
           UNCHANGED <<user, gone, stale, latest, spent>>,
           registered' \in [Maker -> Email \cup {None}], Only(c), apiKey' \subseteq Maker,
           overlap' \subseteq Email, overlap \subseteq overlap',
           halved' \subseteq AccountCall, halved \subseteq halved',
           acall' \in [AccountCall -> AccountLocal],
           \A d \in AccountCall \ {c} : acall'[d] = acall[d],
           Holding(c)', Alone',
           c \in Registrations' \ halved' =>
               \/ acall'[c].at = "user" \/ acall'[c].row.email \in overlap'
               \/ c \in Registrations /\ acall[c].at # "user" /\ acall'[c].row = acall[c].row
               \/ \E u \in UserId : user[u].email = acall'[c].row.email /\ u \in stale
    PROVE  Inv'
<1> USE DEF Inv
<1>1. AccountsTypeOK'
  BY DEF AccountInv, AccountsTypeOK
<1>2. /\ \A t, u : SetBy(t, u) => acall'[t].at = "end" /\ acall'[t].u = u
      /\ \A d \in AccountCall \ {c} : Holding(d)'
      /\ \A t \in spent : t # c /\ acall'[t].at = "end"
  BY HoldingKept
<1>3. (\A d \in AccountCall : Holding(d)') /\ Rows'
  BY <1>2 DEF AccountInv, Rows, SetBy
<1>4. ResetsHold'
  BY DEF ResetsHold, Users
<1>5. MerchantsHaveAccounts'
  <2> SUFFICES ASSUME NEW d \in Registrations', d \notin halved', acall'[d].at # "user",
                      NEW e, e = acall'[d].row.email, e \notin overlap'
               PROVE  HasAccount(e)'
    BY DEF MerchantsHaveAccounts
  <2>1. ASSUME NEW f \in Registrations, f \notin halved, acall[f].at # "user",
               acall[f].row.email \notin overlap
        PROVE  HasAccount(acall[f].row.email)
    BY <2>1 DEF MerchantsHaveAccounts
  <2>2. \A x : HasAccount(x) => HasAccount(x)'
    BY DEF HasAccount
  <2>3. d \in AccountCall /\ AccountCall \subseteq Maker
    BY DEF Registrations, Maker
  <2>4. CASE d # c
    <3>1. acall'[d] = acall[d] /\ registered[d] # None
      BY <2>3, <2>4 DEF Registrations, Only
    <3>2. d \in Registrations
      BY <2>3, <3>1 DEF Registrations
    <3>3. HasAccount(e)
      BY <2>1, <3>1, <3>2
    <3> QED  BY <2>2, <3>3
  <2>5. CASE d = c
    <3>1. CASE c \in Registrations /\ acall[c].at # "user" /\ acall'[c].row = acall[c].row
      <4>1. HasAccount(e)
        BY <2>1, <2>5, <3>1
      <4> QED  BY <2>2, <4>1
    <3>2. CASE \E u \in UserId : user[u].email = acall'[c].row.email /\ u \in stale
      BY <2>5, <3>2 DEF HasAccount
    <3> QED  BY <2>5, <3>1, <3>2
  <2> QED  BY <2>4, <2>5
<1> QED  BY <1>1, <1>3, <1>4, <1>5 DEF AccountInv

\* A call that creates nothing afterwards disturbs no creation.
LEMMA AloneKept ==
    ASSUME Alone, NEW c \in AccountCall, overlap \subseteq overlap', stale \subseteq stale',
           \A d \in AccountCall \ {c} : acall'[d] = acall[d],
           Creates(c)' => Creates(c) /\ acall'[c].row = acall[c].row,
           \A u \in UserId : user'[u].exists =>
               (user[u].exists /\ user'[u].email = user[u].email) \/ u \in stale'
    PROVE  Alone'
<1>1. \A d \in AccountCall : Creates(d)' => Creates(d) /\ acall'[d].row = acall[d].row
  BY DEF Creates
<1> QED  BY <1>1 DEF Alone, Creates

LEMMA CallEnds ==
    ASSUME Inv, NEW c \in AccountCall, acall[c].at # "end", Proceed(c, "end"),
           UNCHANGED <<user, overlap, gone, stale, latest, spent>>,
           registered' \in [Maker -> Email \cup {None}], Only(c), apiKey' \subseteq Maker,
           acall[c].at = "create" \/ registered'[c] = registered[c],
           halved' = IF acall[c].at = "user" THEN halved \cup {c} ELSE halved
    PROVE  Inv'
<1> USE DEF Inv, AccountInv
<1>1. "end" \in AccountStep
  BY DEF AccountStep
<1>2. /\ acall' \in [AccountCall -> AccountLocal] /\ acall'[c].at = "end"
      /\ acall'[c].row = acall[c].row
      /\ \A d \in AccountCall \ {c} : acall'[d] = acall[d]
  BY <1>1, ProceedTypes
<1>3. Holding(c)'
  BY <1>2 DEF Holding, Creates, Saves
<1>4. Alone'
  BY <1>2, AloneKept DEF Creates
<1>5. halved' \subseteq AccountCall /\ halved \subseteq halved'
  BY DEF AccountsTypeOK
<1>6. c \in Registrations' \ halved' =>
          c \in Registrations /\ acall[c].at # "user" /\ acall'[c].row = acall[c].row
  <2>1. acall[c].at = "create" => ~acall[c].row.exists
    BY DEF Holding
  <2> QED  BY <1>2, <2>1 DEF Registrations
<1> QED  BY <1>2, <1>3, <1>4, <1>5, <1>6, QuietKeeps DEF AccountsTypeOK
-----------------------------------------------------------------------------
(* Creations.                                                               *)

LEMMA StartKeeps ==
    ASSUME Inv, NEW c \in AccountCall, NEW at \in {"merchant", "admin"}, NEW e \in Email,
           NEW role \in Roles, at = "merchant" => role = "merchant",
           acall[c].at = "new", ~\E u \in Users : user[u].email = e,
           StartCreation(c, at, e, role)
    PROVE  Inv'
<1> USE DEF Inv, AccountInv
<1> DEFINE row == [NoUser EXCEPT !.exists = TRUE, !.email = e, !.role = role, !.password = c]
           local == [NewAccountCall EXCEPT !.at = at, !.row = row]
<1>1. /\ row \in UserRow /\ row.exists /\ row.email = e /\ row.role = role
      /\ row.password = c /\ row.token = None /\ ~row.live
  BY DEF NoUser, UserRow, Maker, Roles
<1> HIDE DEF row
<1>2. local \in AccountLocal /\ local.at = at /\ local.row = row
  BY <1>1, RowTypes DEF NewAccountCall, AccountLocal, AccountStep
<1>3. /\ acall' = [acall EXCEPT ![c] = local]
      /\ overlap' = IF Creations(e) # {} THEN overlap \cup {e} ELSE overlap
      /\ UNCHANGED <<accountRows, halved, gone, stale, latest, spent>>
  BY DEF StartCreation, row
<1> HIDE DEF local
<1>4. /\ acall' \in [AccountCall -> AccountLocal] /\ acall'[c] = local
      /\ \A d \in AccountCall \ {c} : acall'[d] = acall[d]
  BY <1>2, <1>3 DEF AccountsTypeOK
<1>5. registered[c] = None /\ registered' = registered
  BY <1>3 DEF Holding, accountRows
<1>5a. Holding(c)'
  BY <1>1, <1>2, <1>4, <1>5 DEF Holding, Creates, Saves
<1>6. Alone'
  <2> SUFFICES ASSUME NEW d \in AccountCall, Creates(d)', acall'[d].row.email \notin overlap'
               PROVE  /\ \A f \in AccountCall : Creates(f)' /\ acall'[f].row.email = acall'[d].row.email
                             => f = d
                      /\ \A u \in UserId : user[u].exists /\ user[u].email = acall'[d].row.email
                             => u \in stale
    BY <1>3 DEF Alone, accountRows
  <2>1. \A f \in AccountCall : acall[f].at \in {"merchant", "user", "admin"} /\ acall[f].row.email = e
            => e \in overlap'
    BY <1>3 DEF Creations
  <2>2. CASE d = c
    BY <1>1, <1>2, <1>4, <2>1, <2>2 DEF Creates, Users
  <2>3. CASE d # c
    BY <1>1, <1>2, <1>3, <1>4, <2>1, <2>3 DEF Creates, Alone
  <2> QED  BY <2>2, <2>3
<1>7. overlap' \subseteq Email /\ overlap \subseteq overlap'
  BY <1>3 DEF AccountsTypeOK
<1>8. c \notin Registrations' /\ Only(c)
  BY <1>5 DEF Registrations, Only
<1> QED  BY <1>3, <1>4, <1>5, <1>5a, <1>6, <1>7, <1>8, QuietKeeps DEF AccountsTypeOK, accountRows

\* A merchant gets an address: its first, from the call that makes it, or
\* another.
LEMMA AddressTypes ==
    ASSUME AccountInv, NEW c \in AccountCall, NEW k \in Maker, NEW e \in Email,
           k = c \/ registered[k] # None, registered' = [registered EXCEPT ![k] = e]
    PROVE  /\ registered' \in [Maker -> Email \cup {None}] /\ Only(c)
           /\ k # c => registered'[c] = registered[c]
BY AccountAssumption DEF AccountInv, AccountsTypeOK, Only, Maker

LEMMA InsertMerchantKeeps ==
    ASSUME Inv, NEW c \in AccountCall, RegisterMerchant(c) \/ SaveCreated(c)
    PROVE  Inv'
<1> USE DEF Inv, AccountInv
<1> DEFINE e == acall[c].row.email
<1>1. /\ acall[c].at \in {"merchant", "create"} /\ UNCHANGED <<user, apiKey, accountHistory>>
      /\ IF e \in Addresses THEN Proceed(c, "end") /\ UNCHANGED registered
         ELSE /\ Proceed(c, IF acall[c].at = "merchant" THEN "user" ELSE "end")
              /\ registered' = [registered EXCEPT ![c] = e]
  BY DEF RegisterMerchant, SaveCreated, InsertMerchant
<1>2. e \in Email /\ (acall[c].at = "merchant" => acall[c].row.role = "merchant")
  BY <1>1 DEF Holding, Creates
<1>3. c \in Maker
  BY DEF Maker
<1>4. CASE registered' = registered /\ Proceed(c, "end")
  BY <1>1, <1>4, CallEnds DEF accountHistory, AccountsTypeOK, Only
<1>5. CASE registered' = [registered EXCEPT ![c] = e]
           /\ Proceed(c, IF acall[c].at = "merchant" THEN "user" ELSE "end")
  <2>1. registered' \in [Maker -> Email \cup {None}] /\ Only(c)
    BY <1>2, <1>3, <1>5, AddressTypes
  <2>2. CASE acall[c].at = "create"
    BY <1>1, <1>5, <2>1, <2>2, CallEnds DEF accountHistory, AccountsTypeOK
  <2>3. CASE acall[c].at = "merchant"
    <3>1. Proceed(c, "user") /\ "user" \in AccountStep
      BY <1>5, <2>3 DEF AccountStep
    <3>2. /\ acall' \in [AccountCall -> AccountLocal] /\ acall'[c].at = "user"
          /\ acall'[c].row = acall[c].row
          /\ \A d \in AccountCall \ {c} : acall'[d] = acall[d]
      BY <3>1, ProceedTypes
    <3>3. Holding(c)'
      BY <2>3, <3>2 DEF Holding, Creates, Saves
    <3>4. Alone'
      BY <1>1, <2>3, <3>2, AloneKept DEF Creates, accountHistory
    <3> QED  BY <1>1, <2>1, <2>3, <3>2, <3>3, <3>4, QuietKeeps DEF accountHistory, AccountsTypeOK
  <2> QED  BY <1>1, <2>2, <2>3
<1> QED  BY <1>1, <1>4, <1>5

\* A call about a merchant loads, or looks up, what it needs.
LEMMA HoldKeeps ==
    ASSUME Inv, NEW c \in AccountCall, NEW k \in Maker, NEW e \in Email,
           NEW at \in {"create", "profile"}, at = "profile" => registered[k] # None,
           acall[c].at = "new", HoldAddress(c, at, k, e)
    PROVE  Inv'
<1> USE DEF Inv, AccountInv
<1> DEFINE row == [NoUser EXCEPT !.email = e]
           local == [NewAccountCall EXCEPT !.at = at, !.k = k, !.row = row]
<1>1. row \in UserRow /\ ~row.exists /\ row.email = e
  BY DEF NoUser, UserRow, Roles, Maker
<1> HIDE DEF row
<1>2. local \in AccountLocal /\ local.at = at /\ local.row = row /\ local.k = k
  BY <1>1, RowTypes DEF NewAccountCall, AccountLocal, AccountStep
<1>3. acall' = [acall EXCEPT ![c] = local] /\ UNCHANGED <<accountRows, accountHistory>>
  BY DEF HoldAddress, row
<1> HIDE DEF local
<1>4. /\ acall' \in [AccountCall -> AccountLocal] /\ acall'[c] = local
      /\ \A d \in AccountCall \ {c} : acall'[d] = acall[d]
  BY <1>2, <1>3 DEF AccountsTypeOK
<1>5. registered' = registered /\ registered[c] = None
  BY <1>3 DEF Holding, accountRows
<1>6. Holding(c)'
  BY <1>1, <1>2, <1>4, <1>5 DEF Holding, Creates, Saves
<1>7. Alone'
  BY <1>2, <1>3, <1>4, AloneKept DEF Creates, accountRows, accountHistory
<1>8. c \notin Registrations' /\ Only(c)
  BY <1>5 DEF Registrations, Only
<1> QED  BY <1>3, <1>4, <1>5, <1>6, <1>7, <1>8, QuietKeeps DEF AccountsTypeOK, accountRows, accountHistory

LEMMA ProfileKeeps ==
    ASSUME Inv, NEW c \in AccountCall, SaveProfile(c)
    PROVE  Inv'
<1> USE DEF Inv, AccountInv
<1> DEFINE k == acall[c].k
           e == acall[c].row.email
<1>1. /\ acall[c].at = "profile" /\ Proceed(c, "end") /\ UNCHANGED <<user, apiKey, accountHistory>>
      /\ registered' = registered \/ registered' = [registered EXCEPT ![k] = e]
  BY DEF SaveProfile
<1>2. k \in Maker /\ e \in Email /\ registered[k] # None /\ registered[c] = None
  BY <1>1 DEF Holding, AccountsTypeOK, AccountLocal
<1>3. registered' \in [Maker -> Email \cup {None}] /\ Only(c) /\ registered'[c] = registered[c]
  BY <1>1, <1>2, AddressTypes DEF AccountsTypeOK, Only
<1> QED  BY <1>1, <1>3, CallEnds DEF accountHistory, AccountsTypeOK

LEMMA InsertKeeps ==
    ASSUME Inv, NEW c \in AccountCall, NEW at \in {"user", "admin"}, NEW next \in {"key", "end"},
           InsertUser(c, at, next)
    PROVE  Inv'
<1> USE AccountAssumption DEF Inv, AccountInv
<1> DEFINE row == acall[c].row
<1>1. acall[c].at = at /\ UNCHANGED <<registered, apiKey, overlap, halved, gone, stale, spent>>
  BY DEF InsertUser
<1>2. /\ row.exists /\ row.email \in Email /\ row.password = c /\ row.token = None /\ ~row.live
      /\ at = "user" => row.role = "merchant"
  BY <1>1 DEF Holding, Creates
<1>3. row \in UserRow
  BY DEF AccountsTypeOK, AccountLocal
<1>4. CASE \E u \in Users : user[u].email = row.email
  <2>1. Proceed(c, "end") /\ UNCHANGED <<user, latest>> /\ "end" \in AccountStep
    BY <1>4 DEF InsertUser, AccountStep
  <2>2. /\ acall' \in [AccountCall -> AccountLocal] /\ acall'[c].at = "end"
        /\ \A d \in AccountCall \ {c} : acall'[d] = acall[d]
    BY <2>1, ProceedTypes
  <2>3. Holding(c)'
    <3>1. acall'[c].row = row
      BY <2>1, ProceedTypes
    <3> QED  BY <1>2, <2>2, <3>1 DEF Holding, Creates, Saves
  <2>4. Alone'
    BY <1>1, <2>1, <2>2, AloneKept DEF Creates
  <2>5. row.email \notin overlap => \E u \in UserId : user[u].email = row.email /\ u \in stale
    BY <1>1, <1>4 DEF Alone, Creates, Users
  <2>6. acall'[c].row = row /\ Only(c)
    BY <1>1, <2>1, ProceedTypes DEF Only
  <2> QED  BY <1>1, <2>1, <2>2, <2>3, <2>4, <2>5, <2>6, QuietKeeps DEF AccountsTypeOK
<1>5. CASE ~\E u \in Users : user[u].email = row.email
  <2>1. PICK u \in UserId : /\ user[u] = NoUser
                            /\ user' = [user EXCEPT ![u] = row]
                            /\ latest' = [latest EXCEPT ![u] = c]
                            /\ Proceed(c, next)
    BY <1>5 DEF InsertUser
  <2>2. next \in AccountStep
    BY DEF AccountStep
  <2>3. /\ acall' \in [AccountCall -> AccountLocal] /\ acall'[c].at = next
        /\ acall'[c].row = acall[c].row
        /\ \A d \in AccountCall \ {c} : acall'[d] = acall[d]
    BY <2>1, <2>2, ProceedTypes
  <2> HIDE DEF row
  <2>4. /\ user' \in [UserId -> UserRow] /\ user'[u] = row /\ latest' \in [UserId -> Maker]
        /\ latest'[u] = c
        /\ \A v \in UserId \ {u} : user'[v] = user[v] /\ latest'[v] = latest[v]
    BY <1>3, <2>1 DEF AccountsTypeOK, Maker
  <2>5. user[u].email = None /\ None \notin Email
    BY <2>1 DEF NoUser
  <2>6. AccountsTypeOK'
    BY <1>1, <2>3, <2>4 DEF AccountsTypeOK
  <2>7. /\ \A t, v : SetBy(t, v) => acall'[t].at = "end" /\ acall'[t].u = v
        /\ \A d \in AccountCall \ {c} : Holding(d)'
        /\ \A t \in spent : t # c /\ acall'[t].at = "end"
    <3>1. Only(c)
      BY <1>1 DEF Only
    <3> QED  BY <1>1, <2>3, <2>4, <2>5, <3>1, HoldingKept
  <2>8. Holding(c)'
    BY <1>2, <2>3 DEF Holding, Creates, Saves, row
  <2>9. Rows'
    <3>1. ASSUME NEW v \in UserId
          PROVE  /\ user'[v].exists => user'[v].email \in Email
                 /\ user'[v].token # None => /\ user'[v].token \in AccountCall
                                              /\ acall'[user'[v].token].at = "end"
                                              /\ acall'[user'[v].token].u = v
                 /\ user'[v].live => user'[v].token # None
      <4>1. CASE v = u
        BY <1>2, <2>4, <4>1
      <4>2. CASE v # u
        <5>1. /\ user[v].exists => user[v].email \in Email
              /\ user[v].token # None => SetBy(user[v].token, v)
              /\ user[v].live => user[v].token # None
          BY DEF Rows
        <5>2. user'[v] = user[v]
          BY <2>4, <4>2
        <5> QED  BY <5>1, <5>2, <2>7 DEF SetBy
      <4> QED  BY <4>1, <4>2
    <3> QED  BY <1>1, <2>7, <3>1 DEF Rows, SetBy
  <2>10. ResetsHold'
    <3>1. None \notin spent
      BY DEF AccountsTypeOK
    <3> QED  BY <1>1, <1>2, <2>4, <3>1 DEF ResetsHold, Users
  <2>11. Alone'
    <3>1. \A d \in AccountCall : Creates(d)' => d # c /\ Creates(d) /\ acall'[d] = acall[d]
      BY <2>3 DEF Creates
    <3>2. \A d \in AccountCall : Creates(d) /\ d # c /\ acall[d].row.email = row.email
              => row.email \in overlap
      BY <1>1 DEF Alone, Creates, row
    <3> SUFFICES ASSUME NEW d \in AccountCall, Creates(d)', acall'[d].row.email \notin overlap'
                 PROVE  /\ \A f \in AccountCall : Creates(f)' /\ acall'[f].row.email = acall'[d].row.email
                               => f = d
                        /\ \A v \in UserId : user'[v].exists /\ user'[v].email = acall'[d].row.email
                               => v \in stale
      BY <1>1 DEF Alone
    <3>3. acall[d].row.email # row.email /\ acall[d].row.email \notin overlap
      BY <1>1, <3>1, <3>2
    <3> QED  BY <2>4, <3>1, <3>3 DEF Alone
  <2>12. MerchantsHaveAccounts'
    <3> SUFFICES ASSUME NEW d \in Registrations', d \notin halved, acall'[d].at # "user",
                        NEW e, e = acall'[d].row.email, e \notin overlap
                 PROVE  HasAccount(e)'
      BY <1>1 DEF MerchantsHaveAccounts
    <3>1. d \in Registrations /\ acall'[d].row = acall[d].row
      BY <1>1, <2>3 DEF Registrations
    <3>2. ASSUME e \in Email, HasAccount(e) PROVE HasAccount(e)'
      <4>1. PICK v \in UserId : /\ user[v].email = e
                                /\ \/ user[v].role = "merchant" /\ (user[v].exists \/ v \in gone)
                                   \/ v \in stale
        BY <3>2 DEF HasAccount
      <4>2. v # u
        BY <2>5, <3>2, <4>1
      <4> QED  BY <1>1, <2>4, <4>1, <4>2 DEF HasAccount
    <3>3. CASE d = c
      <4>1. acall[c].at = "user" \/ at = "admin"
        BY <1>1
      <4>2. CASE acall[c].at = "user"
        <5>1. e = row.email /\ row.role = "merchant"
          BY <1>1, <1>2, <3>1, <3>3, <4>2 DEF row
        <5> QED  BY <1>2, <2>4, <5>1 DEF HasAccount
      <4>3. CASE at = "admin"
        <5>1. HasAccount(e) /\ e \in Email
          BY <1>1, <1>2, <3>1, <3>3, <4>3 DEF MerchantsHaveAccounts, row
        <5> QED  BY <3>2, <5>1
      <4> QED  BY <4>1, <4>2, <4>3
    <3>4. CASE d # c
      <4>1. d \in AccountCall
        BY <3>1 DEF Registrations
      <4>2. HasAccount(e)
        BY <2>3, <3>1, <3>4, <4>1 DEF MerchantsHaveAccounts
      <4>3. e \in Email
        BY <3>1, <4>1 DEF Registrations, Holding
      <4> QED  BY <3>2, <4>2, <4>3
    <3> QED  BY <3>3, <3>4
  <2> QED  BY <2>6, <2>7, <2>8, <2>9, <2>10, <2>11, <2>12
<1> QED  BY <1>4, <1>5
-----------------------------------------------------------------------------
(* Calls on a row.                                                          *)

LEMMA FindKeeps ==
    ASSUME Inv, NEW c \in AccountCall, NEW u \in UserId,
           NEW at \in {"forgot", "reset", "remove"}, NEW row \in UserRow, FindUser(c, u, at, row),
           row.email = user[u].email,
           at # "remove" => row.exists /\ row.role = user[u].role,
           at = "forgot" => row.password = user[u].password /\ row.token = c,
           at = "reset" => /\ row.password = c /\ row.token = None /\ ~row.live /\ user[u].live
    PROVE  Inv'
<1> USE DEF Inv, AccountInv
<1> DEFINE local == [NewAccountCall EXCEPT !.at = at, !.u = u, !.read = user[u], !.row = row]
<1>1. local \in AccountLocal
  BY RowTypes DEF NewAccountCall, AccountLocal, AccountStep, AccountsTypeOK
<1>2. /\ acall[c].at = "new" /\ user[u].exists
      /\ acall' = [acall EXCEPT ![c] = local] /\ UNCHANGED <<accountRows, accountHistory>>
  BY DEF FindUser, Users
<1>3. /\ acall' \in [AccountCall -> AccountLocal] /\ acall'[c] = local
      /\ \A d \in AccountCall \ {c} : acall'[d] = acall[d]
  BY <1>1, <1>2 DEF AccountsTypeOK
<1>4. UNCHANGED <<user, registered, apiKey, overlap, halved, gone, stale, latest, spent>>
  BY <1>2 DEF accountRows, accountHistory
<1>5. /\ user[u].email \in Email
      /\ user[u].live => user[u].token # None
      /\ user[u].token # None => SetBy(user[u].token, u)
  BY <1>2 DEF Rows
<1>6. registered[c] = None /\ Only(c)
  BY <1>2, <1>4 DEF Holding, Only
<1>6a. \A t, v : SetBy(t, v) => acall'[t].at = "end" /\ acall'[t].u = v
  BY <1>2, <1>3, <1>4, <1>6, HoldingKept
<1>7. Holding(c)'
  <2>1. /\ local.at = at /\ local.u = u /\ local.read = user[u] /\ local.row = row
    BY RowTypes DEF NewAccountCall
  <2> HIDE DEF local
  <2>2. user[u].token # None => /\ user[u].token \in AccountCall
                                /\ acall'[user[u].token].at = "end" /\ acall'[user[u].token].u = u
    BY <1>5, <1>6a DEF SetBy
  <2> QED  BY <1>2, <1>3, <1>4, <1>5, <2>1, <2>2 DEF Holding, Creates, Saves, SetBy
<1>8. ~Creates(c)'
  BY <1>3, RowTypes DEF Creates, NewAccountCall
<1>9. Alone'
  BY <1>3, <1>4, <1>8, AloneKept
<1>10. c \notin Registrations'
  BY <1>4, <1>6 DEF Registrations
<1> QED  BY <1>2, <1>3, <1>4, <1>6, <1>7, <1>9, <1>10, QuietKeeps DEF AccountsTypeOK

LEMMA SaveKeeps ==
    ASSUME Inv, NEW c \in AccountCall, SaveUser(c)
    PROVE  Inv'
<1> USE AccountAssumption DEF Inv, AccountInv
<1> DEFINE local == acall[c]
           u == local.u
<1>1. /\ local.at \in {"forgot", "reset"} /\ Proceed(c, "end")
      /\ UNCHANGED <<registered, apiKey, overlap, halved, gone>>
  BY DEF SaveUser
<1>2. CASE \E v \in Users \ {u} : user[v].email = local.row.email
  BY <1>1, <1>2, CallEnds DEF SaveUser, AccountsTypeOK, Only
<1>3. CASE ~\E v \in Users \ {u} : user[v].email = local.row.email
  <2>1. /\ user' = [user EXCEPT ![u] = local.row]
        /\ stale' = IF user[u] # local.read THEN stale \cup {u} ELSE stale
        /\ local.at = "reset" => /\ latest' = [latest EXCEPT ![u] = c]
                                 /\ spent' = spent \cup {local.read.token}
        /\ local.at = "forgot" => UNCHANGED <<latest, spent>>
    BY <1>1, <1>3 DEF SaveUser
  <2>2. /\ u \in UserId /\ local.read.exists /\ local.row.exists /\ local.read.email \in Email
        /\ local.row.email = local.read.email /\ user[u].email = local.read.email
        /\ local.row.role = local.read.role /\ user[u].role = local.read.role
        /\ local.read.token # None => SetBy(local.read.token, u)
        /\ local.at = "forgot" => local.row.password = local.read.password /\ local.row.token = c
        /\ local.at = "reset" => /\ local.row.password = c /\ local.row.token = None
                                 /\ ~local.row.live /\ local.read.token # None
    BY <1>1 DEF Holding, Saves
  <2>3. local.row \in UserRow /\ "end" \in AccountStep
    BY DEF AccountsTypeOK, AccountLocal, AccountStep
  <2>4. /\ acall' \in [AccountCall -> AccountLocal] /\ acall'[c].at = "end" /\ acall'[c].u = u
        /\ \A d \in AccountCall \ {c} : acall'[d] = acall[d]
    BY <1>1, <2>3, ProceedTypes
  <2> HIDE DEF local, u
  <2>5. /\ user' \in [UserId -> UserRow] /\ user'[u] = local.row
        /\ \A v \in UserId \ {u} : user'[v] = user[v]
    BY <2>1, <2>2, <2>3 DEF AccountsTypeOK
  <2>6. /\ latest' \in [UserId -> Maker] /\ \A v \in UserId \ {u} : latest'[v] = latest[v]
        /\ local.at = "reset" => latest'[u] = c
        /\ local.at = "forgot" => latest'[u] = latest[u]
    BY <1>1, <2>1, <2>2 DEF AccountsTypeOK, Maker
  <2>7. spent \subseteq spent' /\ spent' \subseteq AccountCall /\ stale \subseteq stale' /\ stale' \subseteq UserId
    BY <1>1, <2>1, <2>2 DEF AccountsTypeOK, SetBy
  <2>8. AccountsTypeOK'
    BY <1>1, <2>4, <2>5, <2>6, <2>7 DEF AccountsTypeOK
  <2>9. /\ \A t, v : SetBy(t, v) => acall'[t].at = "end" /\ acall'[t].u = v
        /\ \A d \in AccountCall \ {c} : Holding(d)'
        /\ \A t \in spent : t # c /\ acall'[t].at = "end"
    <3>1. Only(c)
      BY <1>1 DEF Only
    <3> QED  BY <1>1, <2>2, <2>4, <2>5, <3>1, HoldingKept DEF local
  <2>10. Holding(c)'
    <3>1. acall'[c].row = local.row
      BY <1>1, <2>3, ProceedTypes DEF local
    <3> QED  BY <2>2, <2>4, <3>1 DEF Holding, Creates, Saves
  <2>11. Rows'
    <3>1. ASSUME NEW v \in UserId
          PROVE  /\ user'[v].exists => user'[v].email \in Email
                 /\ user'[v].token # None => /\ user'[v].token \in AccountCall
                                              /\ acall'[user'[v].token].at = "end"
                                              /\ acall'[user'[v].token].u = v
                 /\ user'[v].live => user'[v].token # None
      <4>1. CASE v = u /\ local.at = "forgot"
        <5>1. user'[v].token = c
          BY <2>2, <2>5, <4>1
        <5> QED  BY <2>2, <2>4, <2>5, <4>1, <5>1
      <4>2. CASE v = u /\ local.at = "reset"
        BY <2>2, <2>5, <4>2
      <4>3. CASE v # u
        <5>1. /\ user[v].exists => user[v].email \in Email
              /\ user[v].token # None => SetBy(user[v].token, v)
              /\ user[v].live => user[v].token # None
          BY DEF Rows
        <5>2. user'[v] = user[v]
          BY <2>5, <4>3
        <5> QED  BY <5>1, <5>2, <2>9 DEF SetBy
      <4> QED  BY <1>1, <4>1, <4>2, <4>3 DEF local
    <3>2. \A t \in spent' : acall'[t].at = "end"
      BY <1>1, <2>1, <2>2, <2>9 DEF SetBy, local
    <3> QED  BY <3>1, <3>2 DEF Rows, SetBy
  <2>12. ResetsHold'
    <3> SUFFICES ASSUME NEW v \in UserId, user'[v].exists, v \notin stale'
                 PROVE  user'[v].password = latest'[v] /\ user'[v].token \notin spent'
      BY DEF ResetsHold, Users
    <3>1. CASE v = u
      <4>1. user[u] = local.read /\ u \notin stale
        BY <2>1, <2>7, <3>1
      <4>2. local.read.password = latest[u]
        BY <2>2, <4>1 DEF ResetsHold, Users
      <4>3. CASE local.at = "forgot"
        BY <2>1, <2>2, <2>5, <2>6, <2>9, <3>1, <4>2, <4>3
      <4>4. CASE local.at = "reset"
        BY <2>2, <2>5, <2>6, <2>7, <3>1, <4>4
      <4> QED  BY <1>1, <4>3, <4>4 DEF local
    <3>2. CASE v # u
      <4>1. user'[v] = user[v] /\ latest'[v] = latest[v] /\ v \notin stale
        BY <2>5, <2>6, <2>7, <3>2
      <4>2. user[v].password = latest[v] /\ user[v].token \notin spent
        BY <4>1 DEF ResetsHold, Users
      <4>3. user[v].token # None => SetBy(user[v].token, v)
        BY DEF Rows
      <4>4. local.at = "reset" => user[v].token # local.read.token
        BY <2>2, <3>2, <4>3 DEF SetBy
      <4> QED  BY <1>1, <2>1, <4>1, <4>2, <4>4 DEF local
    <3> QED  BY <3>1, <3>2
  <2>13. Alone'
    <3>1. ~Creates(c)'
      BY <2>4 DEF Creates
    <3>2. \A v \in UserId : user'[v].exists =>
              (user[v].exists /\ user'[v].email = user[v].email) \/ v \in stale'
      BY <2>1, <2>2, <2>5
    <3> QED  BY <1>1, <2>4, <2>7, <3>1, <3>2, AloneKept
  <2>14. MerchantsHaveAccounts'
    <3> SUFFICES ASSUME NEW d \in Registrations', d \notin halved, acall'[d].at # "user",
                        NEW e, e = acall'[d].row.email, e \notin overlap
                 PROVE  HasAccount(e)'
      BY <1>1 DEF MerchantsHaveAccounts
    <3>1. \A v \in UserId : /\ user'[v].email = user[v].email /\ user'[v].role = user[v].role
                            /\ user[v].exists => user'[v].exists
      BY <2>2, <2>5
    <3>2. acall'[d].row = acall[d].row
      BY <1>1, <2>3, ProceedTypes DEF Registrations
    <3>3. d \in Registrations /\ acall[d].at # "user"
      BY <1>1, <2>4, <3>2 DEF Registrations, local
    <3>4. HasAccount(e)
      BY <3>2, <3>3 DEF MerchantsHaveAccounts
    <3> QED  BY <1>1, <2>7, <3>1, <3>4 DEF HasAccount
  <2> QED  BY <2>8, <2>9, <2>10, <2>11, <2>12, <2>13, <2>14
<1> QED  BY <1>2, <1>3

LEMMA RemoveKeeps ==
    ASSUME Inv, NEW c \in AccountCall, RemoveUser(c)
    PROVE  Inv'
<1> USE DEF Inv, AccountInv
<1> DEFINE u == acall[c].u
<1>1. /\ acall[c].at = "remove" /\ Proceed(c, "end") /\ "end" \in AccountStep
      /\ user' = [user EXCEPT ![u].exists = FALSE] /\ gone' = gone \cup {u}
      /\ UNCHANGED <<registered, apiKey, overlap, halved, stale, latest, spent>>
  BY DEF RemoveUser, AccountStep
<1>2. u \in UserId
  BY <1>1 DEF Holding
<1>3. /\ acall' \in [AccountCall -> AccountLocal] /\ acall'[c].at = "end"
      /\ \A d \in AccountCall \ {c} : acall'[d] = acall[d]
  BY <1>1, ProceedTypes
<1> HIDE DEF u
<1>4. /\ user' \in [UserId -> UserRow]
      /\ \A v \in UserId : /\ user'[v].exists => user[v].exists
                           /\ user'[v].email = user[v].email /\ user'[v].role = user[v].role
                           /\ user'[v].password = user[v].password
                           /\ user'[v].token = user[v].token /\ user'[v].live = user[v].live
                           /\ user[v].exists => user'[v].exists \/ v \in gone'
  BY <1>1, <1>2 DEF AccountsTypeOK, UserRow
<1>5. AccountsTypeOK'
  BY <1>1, <1>2, <1>3, <1>4 DEF AccountsTypeOK
<1>6. /\ \A t, v : SetBy(t, v) => acall'[t].at = "end" /\ acall'[t].u = v
      /\ \A d \in AccountCall \ {c} : Holding(d)'
      /\ \A t \in spent : t # c /\ acall'[t].at = "end"
  <2>1. Only(c)
    BY <1>1 DEF Only
  <2> QED  BY <1>1, <1>3, <1>4, <2>1, HoldingKept
<1>7. Holding(c)'
  <2>1. acall'[c].row = acall[c].row
    BY <1>1, ProceedTypes
  <2> QED  BY <1>3, <2>1 DEF Holding, Creates, Saves
<1>8. Rows'
  BY <1>1, <1>4, <1>6 DEF Rows, SetBy
<1>9. ResetsHold'
  BY <1>1, <1>4 DEF ResetsHold, Users
<1>10. Alone'
  BY <1>1, <1>3, <1>4, AloneKept DEF Creates
<1>11. MerchantsHaveAccounts'
  <2> SUFFICES ASSUME NEW d \in Registrations', d \notin halved, acall'[d].at # "user",
                      NEW e, e = acall'[d].row.email, e \notin overlap
               PROVE  HasAccount(e)'
    BY <1>1 DEF MerchantsHaveAccounts
  <2>1. acall'[d].row = acall[d].row
    BY <1>1, ProceedTypes DEF Registrations
  <2>2. d \in Registrations /\ acall[d].at # "user"
    BY <1>1, <1>3, <2>1 DEF Registrations
  <2>3. HasAccount(e)
    BY <2>1, <2>2 DEF MerchantsHaveAccounts
  <2> QED  BY <1>1, <1>4, <2>3 DEF HasAccount
<1> QED  BY <1>5, <1>6, <1>7, <1>8, <1>9, <1>10, <1>11

\* A token expires, or nothing changes.
LEMMA ExpiryKeeps ==
    ASSUME Inv, (\E u \in UserId : TokenExpires(u)) \/ UNCHANGED accountVars
    PROVE  Inv'
<1> USE DEF Inv, AccountInv
<1>1. UNCHANGED <<registered, apiKey, acall, overlap, halved, gone, stale, latest, spent>>
  BY DEF TokenExpires, accountVars, accountRows, accountHistory
<1> DEFINE Alike(v) == /\ user'[v].exists = user[v].exists
                       /\ user'[v].email = user[v].email /\ user'[v].role = user[v].role
                       /\ user'[v].password = user[v].password /\ user'[v].token = user[v].token
                       /\ user'[v].live => user[v].live
<1>2. user' \in [UserId -> UserRow] /\ \A v \in UserId : Alike(v)
  <2>1. CASE UNCHANGED accountVars
    BY <2>1 DEF accountVars, accountRows, AccountsTypeOK
  <2>2. ASSUME NEW u \in UserId, TokenExpires(u)
        PROVE  user' \in [UserId -> UserRow] /\ \A v \in UserId : Alike(v)
    BY <2>2 DEF TokenExpires, AccountsTypeOK, UserRow
  <2> QED  BY <2>1, <2>2
<1>3. AccountsTypeOK'
  BY <1>1, <1>2 DEF AccountsTypeOK
<1>4. \A c \in AccountCall : Holding(c)'
  BY <1>1, <1>2 DEF Holding, SetBy, Creates, Saves
<1>5. Rows'
  BY <1>1, <1>2 DEF Rows, SetBy
<1>6. ResetsHold' /\ Alone'
  BY <1>1, <1>2 DEF ResetsHold, Alone, Users, Creates
<1>7. MerchantsHaveAccounts'
  <2>1. \A e : HasAccount(e) => HasAccount(e)'
    BY <1>1, <1>2 DEF HasAccount
  <2> QED  BY <1>1, <2>1 DEF MerchantsHaveAccounts, Registrations
<1> QED  BY <1>3, <1>4, <1>5, <1>6, <1>7
-----------------------------------------------------------------------------
LEMMA AccountSteps ==
    ASSUME Inv, [AccountsNext]_accountVars
    PROVE  Inv'
<1> USE DEF Inv, AccountInv
<1>1. ASSUME NEW c \in AccountCall, Refuse(c), acall[c].at = "new" PROVE Inv'
  BY <1>1, CallEnds DEF Refuse, accountRows, accountHistory, AccountsTypeOK, Only
<1>2. ASSUME NEW c \in AccountCall, NEW e \in Email, Register(c, e) PROVE Inv'
  BY <1>1, <1>2, StartKeeps DEF Register, Roles
<1>3. ASSUME NEW c \in AccountCall, NEW e \in Email, NEW role \in Roles, CreateAdmin(c, e, role)
      PROVE  Inv'
  BY <1>1, <1>3, StartKeeps DEF CreateAdmin
<1>4. ASSUME NEW c \in AccountCall, NEW u \in UserId, ForgotPassword(c, u) PROVE Inv'
  <2> DEFINE row == [user[u] EXCEPT !.token = c, !.live = TRUE]
  <2>1. /\ row \in UserRow /\ row.exists = user[u].exists /\ row.email = user[u].email
        /\ row.role = user[u].role /\ row.password = user[u].password /\ row.token = c
    BY DEF AccountsTypeOK, UserRow, Maker
  <2>2. FindUser(c, u, "forgot", row) /\ user[u].exists
    BY <1>4 DEF ForgotPassword, FindUser, Users
  <2> HIDE DEF row
  <2> QED  BY <2>1, <2>2, FindKeeps
<1>5. ASSUME NEW c \in AccountCall, NEW u \in UserId, ResetPassword(c, u) PROVE Inv'
  <2> DEFINE row == [user[u] EXCEPT !.password = c, !.token = None, !.live = FALSE]
  <2>1. /\ row \in UserRow /\ row.exists = user[u].exists /\ row.email = user[u].email
        /\ row.role = user[u].role /\ row.password = c /\ row.token = None /\ ~row.live
    BY DEF AccountsTypeOK, UserRow, Maker
  <2>2. FindUser(c, u, "reset", row) /\ user[u].exists /\ user[u].live
    BY <1>5 DEF ResetPassword, FindUser, Users
  <2> HIDE DEF row
  <2> QED  BY <2>1, <2>2, FindKeeps
<1>6. ASSUME NEW c \in AccountCall, NEW u \in UserId, DeleteAdmin(c, u) PROVE Inv'
  BY <1>6, FindKeeps DEF DeleteAdmin, AccountsTypeOK
<1>7. ASSUME NEW c \in AccountCall, RegisterApiKey(c) PROVE Inv'
  BY <1>7, CallEnds DEF RegisterApiKey, accountHistory, AccountsTypeOK, Maker, Only
<1>8. ASSUME NEW c \in AccountCall, AccountCallFails(c) PROVE Inv'
  BY <1>8, CallEnds DEF AccountCallFails, accountRows, AccountsTypeOK, Only
<1>9. ASSUME NEW c \in AccountCall, RegisterUser(c) \/ SaveAdmin(c) PROVE Inv'
  BY <1>9, InsertKeeps DEF RegisterUser, SaveAdmin
<1>10. ASSUME NEW c \in AccountCall, MerchantEndpoints(c) PROVE Inv'
  <2>1. None \in Maker
    BY DEF Maker
  <2>2. ASSUME NEW e \in Email, CreateMerchant(c, e) PROVE Inv'
    BY <1>1, <2>1, <2>2, HoldKeeps DEF CreateMerchant
  <2>3. ASSUME NEW e \in Email, NEW k \in Maker, UpdateProfile(c, k, e) PROVE Inv'
    BY <2>3, HoldKeeps DEF UpdateProfile
  <2> QED  BY <1>10, <2>2, <2>3 DEF MerchantEndpoints
<1> HIDE DEF Inv, AccountInv
<1> QED
  BY <1>2, <1>3, <1>4, <1>5, <1>6, <1>7, <1>8, <1>9, <1>10, InsertMerchantKeeps, ProfileKeeps,
     SaveKeeps, RemoveKeeps, ExpiryKeeps DEF AccountsNext, AuthEndpoints, SuperAdminEndpoints

LEMMA AccountsInvariant == AccountsSpec => []Inv
<1> QED  BY AccountsStart, AccountSteps, PTL DEF AccountsSpec

\* Every variable keeps its type.
THEOREM AccountsTypeCorrect == AccountsSpec => []AccountsTypeOK
<1>1. Inv => AccountsTypeOK
  BY DEF Inv, AccountInv
<1> QED  BY <1>1, AccountsInvariant, PTL

\* A registration that saved its merchant has the account of its address, but
\* for the reasons the property names, for any number of registrations,
\* administrators, merchants they make, changes of address and failures.
THEOREM MerchantsKeepAccounts == AccountsSpec => []MerchantsHaveAccounts
<1>1. Inv => MerchantsHaveAccounts
  BY DEF Inv
<1> QED  BY <1>1, AccountsInvariant, PTL

\* The last reset is the one that counts and no used token comes back, unless a
\* save wrote over a changed row, for any number of overlapping resets.
THEOREM ResetsStay == AccountsSpec => []ResetsHold
<1>1. Inv => ResetsHold
  BY DEF Inv
<1> QED  BY <1>1, AccountsInvariant, PTL

-----------------------------------------------------------------------------
(***************************************************************************)
(* FraudPrevention: the evaluation of payments.                            *)
(***************************************************************************)
-----------------------------------------------------------------------------
(* The inductive invariant.                                                 *)

\* What is saved where an evaluation is.
OnRecord(p) ==
    LET e == eval[p]
        amountSaved == e.amount >= 8 => <<p, "suspicious_amount">> \in fraudAlert
    IN  /\ e.at \in {"amountAlert", "velocityAlert", "predict", "approved"} => p \in riskScore
        /\ e.at = "velocityAlert" => amountSaved
        /\ e.at \in {"predict", "approved"} =>
               amountSaved /\ (e.velocity >= 6 => <<p, "velocity_check">> \in fraudAlert)

\* Until a rule has counted, what was due can only have grown; after that the
\* score it gave stands for it.
Weighed(p) ==
    LET e == eval[p] IN
    /\ e.at = "velocity" => due[p].scores <= RecentPayments
    /\ e.at \in {"velocity", "history"} => due[p].alerts <= RecentAlerts
    /\ e.at \in {"history", "score", "amountAlert", "velocityAlert", "predict", "approved"} =>
           /\ due[p].scores >= 50 => e.velocity >= 9
           /\ due[p].scores >= 20 => e.velocity >= 6
    /\ e.at \in {"score", "amountAlert", "velocityAlert", "predict", "approved"} =>
           /\ due[p].alerts >= 5 => e.merchant >= 8
           /\ due[p].alerts >= 2 => e.merchant >= 4

Judged(p) == eval[p].at = "approved" => RuleScore(p) < 20

FInv == /\ FraudTypeOK
        /\ \A p \in Evaluated : OnRecord(p) /\ Judged(p)
        /\ \A p \in Evaluated \ moved : Weighed(p)

-----------------------------------------------------------------------------
(* What is counted.                                                         *)

LEMMA Counting ==
    ASSUME FraudTypeOK
    PROVE  /\ RecentPayments \in Nat /\ RecentAlerts \in Nat
           /\ IsFiniteSet(riskScore \ old) /\ IsFiniteSet(fraudAlert \ yesterday)
<1>1. IsFiniteSet(riskScore \ old)
  BY FraudAssumption, FS_Subset DEF FraudTypeOK
<1>2. IsFiniteSet(FraudAlertType)
  <2>1. FraudAlertType = {"suspicious_amount"} \cup {"velocity_check"}
    BY DEF FraudAlertType
  <2> QED  BY <2>1, FS_Singleton, FS_Union
<1>3. IsFiniteSet(Evaluated \X FraudAlertType)
  BY <1>2, FraudAssumption, FS_Product
<1>4. IsFiniteSet(fraudAlert \ yesterday)
  BY <1>3, FS_Subset DEF FraudTypeOK
<1>5. Cardinality(riskScore \ old) \in Nat /\ Cardinality(fraudAlert \ yesterday) \in Nat
  BY <1>1, <1>4, FS_CardinalityType
<1> QED  BY <1>1, <1>4, <1>5 DEF RecentPayments, RecentAlerts, FraudTypeOK, RecentRows

\* Saved rows only add to what is counted while no window moves.
LEMMA CountsGrow ==
    ASSUME FraudTypeOK, FraudTypeOK', UNCHANGED <<earlier, old, yesterday>>,
           riskScore \subseteq riskScore', fraudAlert \subseteq fraudAlert'
    PROVE  /\ RecentPayments <= RecentPayments' /\ RecentAlerts <= RecentAlerts'
           /\ {RecentPayments, RecentPayments', RecentAlerts, RecentAlerts'} \subseteq Nat
<1>1. /\ RecentPayments \in Nat /\ RecentAlerts \in Nat
      /\ IsFiniteSet(riskScore \ old) /\ IsFiniteSet(fraudAlert \ yesterday)
  BY Counting
<1>2. /\ RecentPayments' \in Nat /\ RecentAlerts' \in Nat
      /\ IsFiniteSet(riskScore' \ old) /\ IsFiniteSet(fraudAlert' \ yesterday)
  <2>1. FraudTypeOK => /\ RecentPayments \in Nat /\ RecentAlerts \in Nat
                       /\ IsFiniteSet(riskScore \ old) /\ IsFiniteSet(fraudAlert \ yesterday)
    BY Counting
  <2>2. FraudTypeOK' => (/\ RecentPayments \in Nat /\ RecentAlerts \in Nat
                         /\ IsFiniteSet(riskScore \ old) /\ IsFiniteSet(fraudAlert \ yesterday))'
    BY Counting, PTL
  <2> QED  BY <2>2
<1>3. Cardinality(riskScore \ old) <= Cardinality(riskScore' \ old)
  BY <1>2, FS_Subset
<1>4. Cardinality(fraudAlert \ yesterday) <= Cardinality(fraudAlert' \ yesterday)
  BY <1>2, FS_Subset
<1>5. /\ Cardinality(riskScore \ old) \in Nat /\ Cardinality(riskScore' \ old) \in Nat
      /\ Cardinality(fraudAlert \ yesterday) \in Nat /\ Cardinality(fraudAlert' \ yesterday) \in Nat
  BY <1>1, <1>2, FS_CardinalityType
<1> QED
  BY <1>1, <1>2, <1>3, <1>4, <1>5 DEF RecentPayments, RecentAlerts, FraudTypeOK, RecentRows

-----------------------------------------------------------------------------
LEMMA FraudStarts == FraudInit => FInv
<1> SUFFICES ASSUME FraudInit PROVE FInv
  OBVIOUS
<1>1. FraudTypeOK
  BY FraudAssumption DEF FraudInit, FraudTypeOK, RecentRows, EvaluationStep
<1>2. \A p \in Evaluated : eval[p].at = "new"
  BY DEF FraudInit
<1> QED  BY <1>1, <1>2 DEF FInv, OnRecord, Judged, Weighed

\* One evaluation goes from e to f: the others keep what they have, since rows
\* are only added.
LEMMA EvaluationKeeps ==
    ASSUME FInv, NEW p \in Evaluated, FraudTypeOK',
           UNCHANGED <<earlier, old, yesterday, moved>>,
           riskScore \subseteq riskScore', fraudAlert \subseteq fraudAlert',
           \A q \in Evaluated \ {p} : eval'[q] = eval[q] /\ due'[q] = due[q],
           OnRecord(p)', Judged(p)', p \notin moved => Weighed(p)'
    PROVE  FInv'
<1>1. /\ RecentPayments <= RecentPayments' /\ RecentAlerts <= RecentAlerts'
      /\ {RecentPayments, RecentPayments', RecentAlerts, RecentAlerts'} \subseteq Nat
  BY CountsGrow DEF FInv
<1>2. \A q \in Evaluated : due[q].scores \in Nat /\ due[q].alerts \in Nat
  BY DEF FInv, FraudTypeOK, RecentRows
<1>3. ASSUME NEW q \in Evaluated, q # p PROVE OnRecord(q)' /\ Judged(q)'
  BY <1>3 DEF FInv, OnRecord, Judged, RuleScore
<1>4. ASSUME NEW q \in Evaluated \ moved, q # p PROVE Weighed(q)'
  <2>1. Weighed(q) /\ eval'[q] = eval[q] /\ due'[q] = due[q]
    BY <1>4 DEF FInv
  <2> QED  BY <1>1, <1>2, <2>1 DEF Weighed
<1> QED  BY <1>3, <1>4 DEF FInv

Entry == [at : EvaluationStep, amount : {0, 3, 5, 8}, velocity : {0, 3, 6, 9},
          merchant : {0, 4, 8}]

LEMMA EvaluatesTypes ==
    ASSUME FraudTypeOK, NEW p \in Evaluated, NEW e \in Entry, Evaluates(p, e)
    PROVE  /\ eval' \in [Evaluated -> Entry] /\ eval'[p] = e
           /\ \A q \in Evaluated \ {p} : eval'[q] = eval[q]
BY DEF FraudTypeOK, Evaluates, Entry

LEMMA BeginKeeps ==
    ASSUME FInv, NEW p \in Evaluated, NEW amount \in Charge, BeginEvaluation(p, amount)
    PROVE  FInv'
<1> DEFINE e == [eval[p] EXCEPT !.at = "velocity", !.amount = AmountScore(amount)]
<1>1. eval[p] \in Entry
  BY DEF FInv, FraudTypeOK, Entry
<1>2. AmountScore(amount) \in {0, 3, 5, 8}
  BY DEF AmountScore
<1>3. e \in Entry /\ e.at = "velocity"
  BY <1>1, <1>2 DEF Entry, EvaluationStep
<1>4. Evaluates(p, e) /\ UNCHANGED <<FraudTables, moved>>
  BY DEF BeginEvaluation
<1> HIDE DEF e
<1>5. /\ eval' \in [Evaluated -> Entry] /\ eval'[p] = e
      /\ \A q \in Evaluated \ {p} : eval'[q] = eval[q]
  BY <1>3, <1>4, EvaluatesTypes DEF FInv
<1>6. RecentPayments \in Nat /\ RecentAlerts \in Nat
  BY Counting DEF FInv
<1>7. RecentPayments' = RecentPayments /\ RecentAlerts' = RecentAlerts
  BY <1>4 DEF FraudTables, RecentPayments, RecentAlerts
<1>8. /\ due' \in [Evaluated -> RecentRows] /\ due'[p].scores = RecentPayments
      /\ due'[p].alerts = RecentAlerts
      /\ \A q \in Evaluated \ {p} : due'[q] = due[q]
  BY <1>6 DEF BeginEvaluation, FInv, FraudTypeOK, RecentRows
<1>9. FraudTypeOK'
  BY <1>4, <1>5, <1>8 DEF FInv, FraudTypeOK, FraudTables, Entry
<1>10. OnRecord(p)' /\ Judged(p)'
  BY <1>3, <1>5 DEF OnRecord, Judged
<1>11. Weighed(p)'
  BY <1>3, <1>5, <1>6, <1>7, <1>8 DEF Weighed
<1> QED  BY <1>4, <1>5, <1>8, <1>9, <1>10, <1>11, EvaluationKeeps DEF FraudTables

LEMMA VelocityKeeps ==
    ASSUME FInv, NEW p \in Evaluated, EvaluateVelocity(p)
    PROVE  FInv'
<1> DEFINE e == [eval[p] EXCEPT !.at = "history", !.velocity = VelocityScore(RecentPayments)]
<1>1. eval[p] \in Entry
  BY DEF FInv, FraudTypeOK, Entry
<1>2. RecentPayments \in Nat /\ RecentAlerts \in Nat /\ due[p] \in RecentRows
  BY Counting DEF FInv, FraudTypeOK
<1>3. VelocityScore(RecentPayments) \in {0, 3, 6, 9}
  BY DEF VelocityScore
<1>4. e \in Entry /\ e.at = "history" /\ e.velocity = VelocityScore(RecentPayments)
  BY <1>1, <1>3 DEF Entry, EvaluationStep
<1>5. Evaluates(p, e) /\ UNCHANGED <<FraudTables, due, moved>> /\ eval[p].at = "velocity"
  BY DEF EvaluateVelocity
<1> HIDE DEF e
<1>6. /\ eval' \in [Evaluated -> Entry] /\ eval'[p] = e
      /\ \A q \in Evaluated \ {p} : eval'[q] = eval[q]
  BY <1>4, <1>5, EvaluatesTypes DEF FInv
<1>7. FraudTypeOK'
  BY <1>5, <1>6 DEF FInv, FraudTypeOK, FraudTables, Entry
<1>8. OnRecord(p)' /\ Judged(p)'
  BY <1>4, <1>6 DEF OnRecord, Judged
<1>9. ASSUME p \notin moved PROVE Weighed(p)'
  <2>1. due[p].scores <= RecentPayments /\ due[p].alerts <= RecentAlerts
    BY <1>5, <1>9 DEF FInv, Weighed
  <2>2. RecentAlerts' = RecentAlerts
    BY <1>5 DEF FraudTables, RecentAlerts
  <2>3. /\ due[p].scores >= 50 => VelocityScore(RecentPayments) >= 9
        /\ due[p].scores >= 20 => VelocityScore(RecentPayments) >= 6
    BY <1>2, <2>1 DEF VelocityScore, RecentRows
  <2> QED  BY <1>4, <1>5, <1>6, <2>1, <2>2, <2>3 DEF Weighed
<1> QED  BY <1>5, <1>6, <1>7, <1>8, <1>9, EvaluationKeeps DEF FraudTables

LEMMA HistoryKeeps ==
    ASSUME FInv, NEW p \in Evaluated, EvaluateMerchantHistory(p)
    PROVE  FInv'
<1> DEFINE e == [eval[p] EXCEPT !.at = "score", !.merchant = MerchantScore(RecentAlerts)]
<1>1. eval[p] \in Entry
  BY DEF FInv, FraudTypeOK, Entry
<1>2. RecentAlerts \in Nat /\ due[p] \in RecentRows
  BY Counting DEF FInv, FraudTypeOK
<1>3. MerchantScore(RecentAlerts) \in {0, 4, 8}
  BY DEF MerchantScore
<1>4. /\ e \in Entry /\ e.at = "score" /\ e.merchant = MerchantScore(RecentAlerts)
      /\ e.velocity = eval[p].velocity
  BY <1>1, <1>3 DEF Entry, EvaluationStep
<1>5. Evaluates(p, e) /\ UNCHANGED <<FraudTables, due, moved>> /\ eval[p].at = "history"
  BY DEF EvaluateMerchantHistory
<1> HIDE DEF e
<1>6. /\ eval' \in [Evaluated -> Entry] /\ eval'[p] = e
      /\ \A q \in Evaluated \ {p} : eval'[q] = eval[q]
  BY <1>4, <1>5, EvaluatesTypes DEF FInv
<1>7. FraudTypeOK'
  BY <1>5, <1>6 DEF FInv, FraudTypeOK, FraudTables, Entry
<1>8. OnRecord(p)' /\ Judged(p)'
  BY <1>4, <1>6 DEF OnRecord, Judged
<1>9. ASSUME p \notin moved PROVE Weighed(p)'
  <2>1. /\ due[p].alerts <= RecentAlerts
        /\ due[p].scores >= 50 => eval[p].velocity >= 9
        /\ due[p].scores >= 20 => eval[p].velocity >= 6
    BY <1>5, <1>9 DEF FInv, Weighed
  <2>2. /\ due[p].alerts >= 5 => MerchantScore(RecentAlerts) >= 8
        /\ due[p].alerts >= 2 => MerchantScore(RecentAlerts) >= 4
    BY <1>2, <2>1 DEF MerchantScore, RecentRows
  <2> QED  BY <1>4, <1>5, <1>6, <2>1, <2>2 DEF Weighed
<1> QED  BY <1>5, <1>6, <1>7, <1>8, <1>9, EvaluationKeeps DEF FraudTables

\* After the rules the scores stay, whatever the step is.
LEMMA LaterKeeps ==
    ASSUME FInv, NEW p \in Evaluated, NEW at \in EvaluationStep,
           eval[p].at \in {"score", "amountAlert", "velocityAlert", "predict"},
           at \in {"amountAlert", "velocityAlert", "predict", "approved", "rejected"},
           Evaluates(p, [eval[p] EXCEPT !.at = at]),
           UNCHANGED <<earlier, old, yesterday, due, moved>>,
           riskScore \subseteq riskScore', riskScore' \subseteq Evaluated,
           fraudAlert \subseteq fraudAlert', fraudAlert' \subseteq Evaluated \X FraudAlertType,
           OnRecord(p)', at = "approved" => RuleScore(p) < 20
    PROVE  FInv'
<1> DEFINE e == [eval[p] EXCEPT !.at = at]
<1>1. eval[p] \in Entry
  BY DEF FInv, FraudTypeOK, Entry
<1>2. /\ e \in Entry /\ e.at = at /\ e.amount = eval[p].amount
      /\ e.velocity = eval[p].velocity /\ e.merchant = eval[p].merchant
  BY <1>1 DEF Entry
<1> HIDE DEF e
<1>3. /\ eval' \in [Evaluated -> Entry] /\ eval'[p] = e
      /\ \A q \in Evaluated \ {p} : eval'[q] = eval[q]
  BY <1>2, EvaluatesTypes DEF FInv, e
<1>4. FraudTypeOK'
  BY <1>3 DEF FInv, FraudTypeOK, Entry
<1>5. Judged(p)'
  BY <1>2, <1>3 DEF Judged, RuleScore
<1>6. ASSUME p \notin moved PROVE Weighed(p)'
  <2>1. Weighed(p)
    BY <1>6 DEF FInv
  <2> QED  BY <1>2, <1>3, <2>1 DEF Weighed
<1> QED  BY <1>3, <1>4, <1>5, <1>6, EvaluationKeeps

LEMMA SaveScoreKeeps ==
    ASSUME FInv, NEW p \in Evaluated, SaveRiskScore(p)
    PROVE  FInv'
<1>1. eval[p] \in Entry
  BY DEF FInv, FraudTypeOK, Entry
<1>2. /\ eval[p].at = "score" /\ riskScore' = riskScore \cup {p}
      /\ Evaluates(p, [eval[p] EXCEPT !.at = AlertStep(p)])
      /\ UNCHANGED <<earlier, fraudAlert, old, yesterday, due, moved>>
  BY DEF SaveRiskScore
<1>3. /\ AlertStep(p) \in {"amountAlert", "velocityAlert", "predict"}
      /\ AlertStep(p) # "amountAlert" => ~(eval[p].amount >= 8)
      /\ AlertStep(p) = "predict" => ~(eval[p].velocity >= 6)
  BY <1>2 DEF AlertStep
<1>4. /\ eval'[p].at = AlertStep(p) /\ eval'[p].amount = eval[p].amount
      /\ eval'[p].velocity = eval[p].velocity
  BY <1>1, <1>2 DEF Evaluates, FInv, FraudTypeOK, Entry
<1>5. OnRecord(p)'
  BY <1>2, <1>3, <1>4 DEF OnRecord
<1>6. riskScore' \subseteq Evaluated /\ fraudAlert' \subseteq Evaluated \X FraudAlertType
  BY <1>2 DEF FInv, FraudTypeOK
<1> QED  BY <1>2, <1>3, <1>5, <1>6, LaterKeeps DEF EvaluationStep

LEMMA AlertKeeps ==
    ASSUME FInv, NEW p \in Evaluated, CreateFraudAlert(p)
    PROVE  FInv'
<1>1. eval[p] \in Entry
  BY DEF FInv, FraudTypeOK, Entry
<1>2. /\ eval[p].at \in {"amountAlert", "velocityAlert"}
      /\ fraudAlert' = fraudAlert \cup {<<p, AlertType(eval[p].at)>>}
      /\ Evaluates(p, [eval[p] EXCEPT !.at = AlertStep(p)])
      /\ UNCHANGED <<earlier, riskScore, old, yesterday, due, moved>>
  BY DEF CreateFraudAlert
<1>3. /\ AlertStep(p) \in {"velocityAlert", "predict"}
      /\ AlertStep(p) = "velocityAlert" => eval[p].at = "amountAlert"
      /\ AlertStep(p) = "predict" /\ eval[p].velocity >= 6 => eval[p].at = "velocityAlert"
  BY <1>1, <1>2 DEF AlertStep, Entry
<1>4. /\ eval'[p].at = AlertStep(p) /\ eval'[p].amount = eval[p].amount
      /\ eval'[p].velocity = eval[p].velocity
  BY <1>1, <1>2 DEF Evaluates, FInv, FraudTypeOK, Entry
<1>5. /\ eval[p].at = "amountAlert" => <<p, "suspicious_amount">> \in fraudAlert'
      /\ eval[p].at = "velocityAlert" => <<p, "velocity_check">> \in fraudAlert'
      /\ AlertType(eval[p].at) \in FraudAlertType
  BY <1>2 DEF AlertType, FraudAlertType
<1>6. OnRecord(p)
  BY DEF FInv
<1>7. OnRecord(p)'
  BY <1>2, <1>3, <1>4, <1>5, <1>6 DEF OnRecord
<1>8. riskScore' \subseteq Evaluated /\ fraudAlert' \subseteq Evaluated \X FraudAlertType
  BY <1>2, <1>5 DEF FInv, FraudTypeOK
<1> QED  BY <1>2, <1>3, <1>7, <1>8, LaterKeeps DEF EvaluationStep

LEMMA JudgeKeeps ==
    ASSUME FInv, NEW p \in Evaluated, PredictAndJudge(p)
    PROVE  FInv'
<1>1. eval[p] \in Entry
  BY DEF FInv, FraudTypeOK, Entry
<1>2. PICK prediction \in Prediction : Evaluates(p, [eval[p] EXCEPT !.at =
              IF FinalScore(RuleScore(p), prediction) < 70 THEN "approved" ELSE "rejected"])
  BY DEF PredictAndJudge
<1> DEFINE at == IF FinalScore(RuleScore(p), prediction) < 70 THEN "approved" ELSE "rejected"
<1>3. /\ eval[p].at = "predict"
      /\ UNCHANGED <<earlier, riskScore, fraudAlert, old, yesterday, due, moved>>
  BY DEF PredictAndJudge, FraudTables
<1>4. at = "approved" => RuleScore(p) < 20
  BY <1>1 DEF FinalScore, RuleScore, Prediction, DeviceTrustScore, IpRisk, Entry
<1>5. at \in {"approved", "rejected"}
  OBVIOUS
<1> HIDE DEF at
<1>6. Evaluates(p, [eval[p] EXCEPT !.at = at])
  BY <1>2 DEF at
<1>7. /\ eval'[p].at = at /\ eval'[p].amount = eval[p].amount
      /\ eval'[p].velocity = eval[p].velocity
  BY <1>1, <1>6 DEF Evaluates, FInv, FraudTypeOK, Entry
<1>8. OnRecord(p)
  BY DEF FInv
<1>9. OnRecord(p)'
  BY <1>3, <1>5, <1>7, <1>8 DEF OnRecord
<1>10. riskScore' \subseteq Evaluated /\ fraudAlert' \subseteq Evaluated \X FraudAlertType
  BY <1>3 DEF FInv, FraudTypeOK
<1> QED  BY <1>3, <1>4, <1>5, <1>6, <1>9, <1>10, LaterKeeps DEF EvaluationStep

LEMMA FailureKeeps ==
    ASSUME FInv, NEW p \in Evaluated, EvaluationFails(p)
    PROVE  FInv'
<1>1. eval[p] \in Entry
  BY DEF FInv, FraudTypeOK, Entry
<1> DEFINE e == [eval[p] EXCEPT !.at = "rejected"]
<1>2. e \in Entry /\ e.at = "rejected"
  BY <1>1 DEF Entry, EvaluationStep
<1>3. Evaluates(p, e) /\ UNCHANGED <<FraudTables, due, moved>>
  BY DEF EvaluationFails
<1> HIDE DEF e
<1>4. /\ eval' \in [Evaluated -> Entry] /\ eval'[p] = e
      /\ \A q \in Evaluated \ {p} : eval'[q] = eval[q]
  BY <1>2, <1>3, EvaluatesTypes DEF FInv
<1>5. FraudTypeOK'
  BY <1>3, <1>4 DEF FInv, FraudTypeOK, FraudTables, Entry
<1>6. OnRecord(p)' /\ Judged(p)' /\ Weighed(p)'
  BY <1>2, <1>4 DEF OnRecord, Judged, Weighed
<1> QED  BY <1>3, <1>4, <1>5, <1>6, EvaluationKeeps DEF FraudTables

\* A window moves: the evaluations in progress are set apart, the others have
\* been weighed or have not begun.
LEMMA WindowKeeps ==
    ASSUME FInv, FiveMinutesPass \/ DayPasses
    PROVE  FInv'
<1>1. UNCHANGED <<riskScore, fraudAlert, eval, due>> /\ moved' = moved \cup InProgress
  BY DEF FiveMinutesPass, DayPasses
<1>2. FraudTypeOK'
  <2>1. earlier' \in RecentRows
    BY DEF FiveMinutesPass, DayPasses, FInv, FraudTypeOK, RecentRows
  <2>2. old' \subseteq Evaluated /\ yesterday' \subseteq fraudAlert
    BY DEF FiveMinutesPass, DayPasses, Created, FInv, FraudTypeOK
  <2> QED  BY <1>1, <2>1, <2>2 DEF FInv, FraudTypeOK, InProgress
<1>3. \A p \in Evaluated : OnRecord(p)' /\ Judged(p)'
  BY <1>1 DEF FInv, OnRecord, Judged, RuleScore
<1>4. ASSUME NEW p \in Evaluated \ moved' PROVE Weighed(p)'
  <2>1. p \notin moved /\ eval[p].at \notin Evaluating
    BY <1>1 DEF InProgress
  <2>2. eval[p].at \notin {"velocity", "history"}
    BY <2>1 DEF Evaluating, EvaluationStep
  <2>3. Weighed(p)
    BY <2>1 DEF FInv
  <2> QED  BY <1>1, <2>2, <2>3 DEF Weighed
<1> QED  BY <1>2, <1>3, <1>4 DEF FInv

LEMMA FraudSteps == FInv /\ [FraudNext]_fraudVars => FInv'
<1> SUFFICES ASSUME FInv, [FraudNext]_fraudVars PROVE FInv'
  OBVIOUS
<1>1. CASE UNCHANGED fraudVars
  BY <1>1 DEF fraudVars, FInv, FraudTypeOK, OnRecord, Judged, RuleScore, Weighed,
              RecentPayments, RecentAlerts
<1> QED
  BY <1>1, BeginKeeps, VelocityKeeps, HistoryKeeps, SaveScoreKeeps, AlertKeeps, JudgeKeeps,
     FailureKeeps, WindowKeeps DEF FraudNext

LEMMA FraudInvariant == FraudSpec => []FInv
<1> QED  BY FraudStarts, FraudSteps, PTL DEF FraudSpec

\* Every variable keeps its type, for any finite set of payments.
THEOREM FraudTypeCorrect == FraudSpec => []FraudTypeOK
<1>1. FInv => FraudTypeOK
  BY DEF FInv
<1> QED  BY <1>1, FraudInvariant, PTL

\* An approval has its score and its alerts saved, whatever overlaps or fails.
THEOREM ApprovalsOnRecord == FraudSpec => []ApprovedIsOnRecord
<1>1. FInv => ApprovedIsOnRecord
  BY DEF FInv, OnRecord, ApprovedIsOnRecord
<1> QED  BY <1>1, FraudInvariant, PTL

\* A burst is not approved, for any number of overlapping evaluations and of
\* earlier payments and alerts.
THEOREM BurstsRejected == FraudSpec => []BurstIsRejected
<1>1. FInv => BurstIsRejected
  <2> SUFFICES ASSUME FInv, NEW p \in Evaluated \ moved, eval[p].at = "approved"
               PROVE  /\ due[p].scores >= 50 /\ due[p].alerts >= 5 => eval[p].amount = 0
                      /\ due[p].scores >= 20 /\ due[p].alerts >= 5 => eval[p].amount < 8
                      /\ due[p].scores >= 50 /\ due[p].alerts >= 2 => eval[p].amount < 8
    BY DEF BurstIsRejected
  <2>1. Weighed(p) /\ RuleScore(p) < 20
    BY DEF FInv, Judged
  <2>2. eval[p] \in Entry /\ due[p] \in RecentRows
    BY DEF FInv, FraudTypeOK, Entry
  <2> QED  BY <2>1, <2>2 DEF Weighed, RuleScore, Entry, RecentRows
<1> QED  BY <1>1, FraudInvariant, PTL

-----------------------------------------------------------------------------
(***************************************************************************)
(* MarketplaceSellers: sellers, their rates and the splits of payments.    *)
(***************************************************************************)
-----------------------------------------------------------------------------
(* The inductive invariant.                                                 *)

\* What a call holds where it is: a payment it makes has the amount it was
\* asked for, and the two splits the rate that was loaded first.
Money(c) ==
    LET local == scall[c]
        fee == CalculateFee(local.amount, local.read.rate)
    IN  /\ payment[c] # None => payment[c] = local.amount
        /\ local.at \in {"new", "add", "save", "pay"} => payment[c] = None
        /\ local.at \in {"sellerSplit", "commissionSplit"} => payment[c] # None
        /\ local.at \in {"new", "add", "save", "pay", "sellerSplit"} => split[c].seller = None
        /\ local.at = "commissionSplit" => split[c].seller = 100 * local.amount - fee
        /\ local.at \in SellerStep \ {"end", "failed"} => split[c].commission = None
        /\ local.at = "end" /\ payment[c] # None => split[c].commission # None
        /\ split[c].commission # None =>
               payment[c] # None /\ split[c].seller + split[c].commission = 100 * local.amount

SplitInv == SellersTypeOK /\ \A c \in SellerCall : Money(c)

\* A loaded row exists and its save does not make it active.
Loads ==
    \A c \in SellerCall : scall[c].at = "save" =>
        LET local == scall[c] IN
        /\ local.r \in SellerRow /\ seller[local.r].exists
        /\ local.read.exists /\ local.row.exists
        /\ local.row.isActive => local.read.isActive

\* Without overlapping additions the seller has one row, whoever is about to
\* add it finds none, and no other call is.
OneRow ==
    /\ \A r \in SellerRow : seller[r].isActive => seller[r].exists
    /\ removed => \E r \in SellerRow : seller[r].exists
    /\ ~twins =>
         /\ \A r, s \in SellerRow : seller[r].exists /\ seller[s].exists => r = s
         /\ \A c \in SellerCall : scall[c].at = "add" => \A r \in SellerRow : ~seller[r].exists
         /\ \A c, d \in SellerCall : scall[c].at = "add" /\ scall[d].at = "add" => c = d

RowInv == SellersTypeOK /\ Loads /\ OneRow /\ RemovedSellerIsOut

-----------------------------------------------------------------------------
LEMMA SellersStart == SellersInit => SplitInv /\ RowInv
<1> SUFFICES ASSUME SellersInit PROVE SplitInv /\ RowInv
  OBVIOUS
<1> USE SellerAssumption DEF SellersInit
<1>1. SellersTypeOK
  <2>1. NoSeller \in SellerRecord /\ [seller |-> None, commission |-> None] \in SplitRow
    BY DEF SellerRecord, NoSeller, SplitRow
  <2>2. NewSellerCall \in SellerLocal
    BY <2>1 DEF SellerLocal, SellerStep, NewSellerCall
  <2>3. {removed, twins, overwritten} \subseteq BOOLEAN
    OBVIOUS
  <2> QED  BY <2>1, <2>2, <2>3 DEF SellersTypeOK
<1>2. \A c \in SellerCall : Money(c)
  BY DEF Money, NewSellerCall, NoSeller
<1>3. Loads /\ OneRow /\ RemovedSellerIsOut
  BY DEF Loads, OneRow, RemovedSellerIsOut, NewSellerCall, NoSeller
<1> QED  BY <1>1, <1>2, <1>3 DEF SplitInv, RowInv

\* Every step keeps the types.
LEMMA SellerTypeSteps ==
    ASSUME SellersTypeOK, NEW c \in SellerCall,
           \/ MarketplaceEndpoints(c)
           \/ InsertSeller(c) \/ SaveSeller(c)
           \/ CreateMarketplacePayment(c) \/ CreateSellerSplit(c) \/ CreateCommissionSplit(c)
           \/ SellerCallFails(c)
    PROVE  SellersTypeOK'
<1> USE SellerAssumption
<1>1. NewSellerCall \in SellerLocal
  BY DEF NewSellerCall, NoSeller, SellerLocal, SellerRecord, SellerStep
<1>2. scall[c] \in SellerLocal
  BY DEF SellersTypeOK
<1>3. ASSUME NEW at \in SellerStep, SellerAt(c, at) PROVE scall' \in [SellerCall -> SellerLocal]
  BY <1>2, <1>3 DEF SellerAt, SellersTypeOK, SellerLocal
<1>4. ASSUME NEW local \in SellerLocal, SellerHolds(c, local)
      PROVE  scall' \in [SellerCall -> SellerLocal]
  BY <1>4 DEF SellerHolds, SellersTypeOK
<1>5. ASSUME NEW rate \in Rate, AddSeller(c, rate) PROVE SellersTypeOK'
  <2>1. [NewSellerCall EXCEPT !.at = "add", !.row.rate = rate] \in SellerLocal
    BY <1>1 DEF SellerLocal, SellerRecord, SellerStep
  <2>2. scall' \in [SellerCall -> SellerLocal]
    BY <1>3, <1>4, <1>5, <2>1 DEF AddSeller, SellerStep
  <2>3. twins' \in BOOLEAN
    BY <1>5 DEF AddSeller, SellersTypeOK
  <2> QED  BY <1>5, <2>2, <2>3 DEF AddSeller, SellersTypeOK
<1>6. ASSUME NEW r \in SellerRow, NEW row \in SellerRecord, FindSeller(c, r, row) PROVE SellersTypeOK'
  <2>1. [NewSellerCall EXCEPT !.at = "save", !.r = r, !.read = seller[r], !.row = row] \in SellerLocal
    BY <1>1 DEF SellerLocal, SellerStep, SellersTypeOK
  <2> QED  BY <1>4, <1>6, <2>1 DEF FindSeller, SellersTypeOK
<1>7. ASSUME NEW r \in SellerRow, RemoveSeller(c, r) PROVE SellersTypeOK'
  <2>1. [seller[r] EXCEPT !.isActive = FALSE] \in SellerRecord
    BY DEF SellersTypeOK, SellerRecord
  <2> QED  BY <1>6, <1>7, <2>1 DEF RemoveSeller
<1>8. ASSUME NEW r \in SellerRow, NEW rate \in Rate, UpdateCommissionRate(c, r, rate)
      PROVE  SellersTypeOK'
  <2>1. [seller[r] EXCEPT !.rate = rate] \in SellerRecord
    BY DEF SellersTypeOK, SellerRecord
  <2> QED  BY <1>6, <1>8, <2>1 DEF UpdateCommissionRate
<1>9. ASSUME NEW amount \in Price, FindActiveSeller(c, amount) PROVE SellersTypeOK'
  <2>1. ASSUME NEW r \in SellerRow
        PROVE  [NewSellerCall EXCEPT !.at = "pay", !.r = r, !.read = seller[r], !.amount = amount]
                   \in SellerLocal
    BY <1>1 DEF SellerLocal, SellerStep, SellersTypeOK
  <2>2. scall' \in [SellerCall -> SellerLocal]
    BY <1>3, <1>4, <1>9, <2>1 DEF FindActiveSeller, SellerStep, SellerRows
  <2> QED  BY <1>9, <2>2 DEF FindActiveSeller, SellersTypeOK
<1>10. ASSUME InsertSeller(c) PROVE SellersTypeOK'
  <2>1. seller' \in [SellerRow -> SellerRecord]
    BY <1>2, <1>10 DEF InsertSeller, SellersTypeOK, SellerRecord, SellerLocal
  <2> QED  BY <1>3, <1>10, <2>1 DEF InsertSeller, SellersTypeOK, SellerStep
<1>11. ASSUME SaveSeller(c) PROVE SellersTypeOK'
  <2>1. seller' \in [SellerRow -> SellerRecord]
    BY <1>2, <1>11 DEF SaveSeller, SellersTypeOK, SellerLocal
  <2>2. removed' \in BOOLEAN /\ overwritten' \in BOOLEAN
    BY <1>2, <1>11 DEF SaveSeller, SellersTypeOK, SellerLocal, SellerRecord
  <2> QED  BY <1>3, <1>11, <2>1, <2>2 DEF SaveSeller, SellersTypeOK, SellerStep
<1>12. ASSUME CreateMarketplacePayment(c) PROVE SellersTypeOK'
  BY <1>2, <1>3, <1>12 DEF CreateMarketplacePayment, SellersTypeOK, SellerLocal, SellerStep
<1>13. ASSUME NEW who \in {"seller", "commission"}, NEW amount \in Int, CreateSplit(c, who, amount)
       PROVE  split' \in [SellerCall -> SplitRow]
  BY <1>13 DEF CreateSplit, SellersTypeOK, SplitRow
<1>14. CalculateFee(scall[c].amount, scall[c].read.rate) \in Int /\ scall[c].amount \in Int
  BY <1>2 DEF CalculateFee, SellerLocal, SellerRecord
<1>15. ASSUME CreateSellerSplit(c) PROVE SellersTypeOK'
  <2>1. split' \in [SellerCall -> SplitRow]
    BY <1>13, <1>14, <1>15 DEF CreateSellerSplit
  <2> QED  BY <1>3, <1>15, <2>1 DEF CreateSellerSplit, SellersTypeOK, SellerStep
<1>16. ASSUME CreateCommissionSplit(c) PROVE SellersTypeOK'
  <2>1. split' \in [SellerCall -> SplitRow]
    BY <1>13, <1>14, <1>16 DEF CreateCommissionSplit
  <2> QED  BY <1>3, <1>16, <2>1 DEF CreateCommissionSplit, SellersTypeOK, SellerStep
<1>17. ASSUME SellerCallFails(c) PROVE SellersTypeOK'
  BY <1>3, <1>17 DEF SellerCallFails, SellersTypeOK, SellerStep
<1> QED
  BY <1>5, <1>7, <1>8, <1>9, <1>10, <1>11, <1>12, <1>15, <1>16, <1>17 DEF MarketplaceEndpoints

-----------------------------------------------------------------------------
(* A payment and its splits.                                                *)

\* A call whose payment and splits are not touched, and which does not reach a
\* point where it should have made them.
LEMMA MoneyKept ==
    ASSUME SellersTypeOK, NEW c \in SellerCall, Money(c),
           payment'[c] = payment[c], split'[c] = split[c],
           \/ scall'[c] = scall[c]
           \/ /\ scall[c].at \in {"new", "add", "save"}
              /\ scall'[c].at \in {"add", "save", "pay", "end", "failed"}
           \/ scall'[c] = [scall[c] EXCEPT !.at = "failed"]
    PROVE  Money(c)'
<1>1. CASE scall'[c] = scall[c]
  BY <1>1 DEF Money
<1>2. CASE /\ scall[c].at \in {"new", "add", "save"}
           /\ scall'[c].at \in {"add", "save", "pay", "end", "failed"}
  BY <1>2 DEF Money, SellerStep
<1>3. CASE scall'[c] = [scall[c] EXCEPT !.at = "failed"]
  BY <1>3 DEF Money, SellersTypeOK, SellerLocal
<1> QED  BY <1>1, <1>2, <1>3

LEMMA SplitSteps ==
    ASSUME SplitInv, NEW c \in SellerCall,
           \/ MarketplaceEndpoints(c)
           \/ InsertSeller(c) \/ SaveSeller(c)
           \/ CreateMarketplacePayment(c) \/ CreateSellerSplit(c) \/ CreateCommissionSplit(c)
           \/ SellerCallFails(c)
    PROVE  SplitInv'
<1> USE SellerAssumption DEF SplitInv
<1>1. SellersTypeOK'
  BY SellerTypeSteps
<1> SUFFICES ASSUME NEW d \in SellerCall PROVE Money(d)'
  BY <1>1
<1>2. scall[c] \in SellerLocal
  BY DEF SellersTypeOK
<1>3. CASE d # c
  <2>1. payment'[d] = payment[d] /\ split'[d] = split[d] /\ scall'[d] = scall[d]
    BY <1>3 DEF MarketplaceEndpoints, AddSeller, FindSeller, RemoveSeller, UpdateCommissionRate,
                FindActiveSeller, InsertSeller, SaveSeller, CreateMarketplacePayment, CreateSplit,
                CreateSellerSplit, CreateCommissionSplit, SellerCallFails, SellerHolds, SellerAt,
                SellersTypeOK
  <2> QED  BY <2>1, MoneyKept
<1>4. CASE d = c /\ (MarketplaceEndpoints(c) \/ InsertSeller(c) \/ SaveSeller(c))
  <2>1. payment' = payment /\ split' = split
    BY <1>4 DEF MarketplaceEndpoints, AddSeller, FindSeller, RemoveSeller, UpdateCommissionRate,
                FindActiveSeller, InsertSeller, SaveSeller
  <2> USE <1>2 DEF SellerHolds, SellerAt, SellersTypeOK, NewSellerCall, SellerLocal
  <2> DEFINE Goes == /\ scall[c].at \in {"new", "add", "save"}
                     /\ scall'[c].at \in {"add", "save", "pay", "end"}
  <2>2. ASSUME NEW rate \in Rate, AddSeller(c, rate) PROVE Goes
    <3> DEFINE local == [NewSellerCall EXCEPT !.at = "add", !.row.rate = rate]
    <3>1. local.at = "add"
      OBVIOUS
    <3>2. scall[c].at = "new" /\ (SellerAt(c, "end") \/ scall' = [scall EXCEPT ![c] = local])
      BY <2>2 DEF AddSeller
    <3> HIDE DEF local
    <3> QED  BY <3>1, <3>2
  <2>3. ASSUME NEW r \in SellerRow, NEW row, FindSeller(c, r, row) PROVE Goes
    <3> DEFINE local == [NewSellerCall EXCEPT !.at = "save", !.r = r, !.read = seller[r], !.row = row]
    <3>1. local.at = "save"
      OBVIOUS
    <3>2. scall[c].at = "new" /\ scall' = [scall EXCEPT ![c] = local]
      BY <2>3 DEF FindSeller
    <3> HIDE DEF local
    <3> QED  BY <3>1, <3>2
  <2>4. ASSUME NEW amount \in Price, FindActiveSeller(c, amount) PROVE Goes
    <3>1. CASE SellerAt(c, "end")
      BY <2>4, <3>1 DEF FindActiveSeller
    <3>2. CASE ~SellerAt(c, "end")
      <4>1. PICK r \in SellerRow : SellerHolds(c,
               [NewSellerCall EXCEPT !.at = "pay", !.r = r, !.read = seller[r], !.amount = amount])
        BY <2>4, <3>2 DEF FindActiveSeller, SellerRows
      <4> DEFINE local == [NewSellerCall EXCEPT !.at = "pay", !.r = r, !.read = seller[r],
                                                !.amount = amount]
      <4>2. local.at = "pay"
        OBVIOUS
      <4>3. scall[c].at = "new" /\ scall' = [scall EXCEPT ![c] = local]
        BY <2>4, <4>1 DEF FindActiveSeller
      <4> HIDE DEF local
      <4> QED  BY <4>2, <4>3
    <3> QED  BY <3>1, <3>2
  <2>5. ASSUME InsertSeller(c) \/ SaveSeller(c) PROVE Goes
    BY <2>5 DEF InsertSeller, SaveSeller
  <2>6. Goes
    <3> HIDE DEF Goes
    <3> QED  BY <1>4, <2>2, <2>3, <2>4, <2>5 DEF MarketplaceEndpoints, RemoveSeller, UpdateCommissionRate
  <2> QED  BY <1>4, <2>1, <2>6, MoneyKept
<1>5. CASE d = c /\ SellerCallFails(c)
  BY <1>5, MoneyKept DEF SellerCallFails, SellerAt, SellersTypeOK
<1>6. CASE d = c /\ CreateMarketplacePayment(c)
  <2>1. /\ scall'[c] = [scall[c] EXCEPT !.at = "sellerSplit"] /\ scall[c].at = "pay"
        /\ payment'[c] = scall[c].amount /\ split' = split
    BY <1>6 DEF CreateMarketplacePayment, SellerAt, SellersTypeOK
  <2> QED  BY <1>2, <1>6, <2>1 DEF Money, SellerStep, SellerLocal
<1>7. CASE d = c /\ CreateSellerSplit(c)
  <2>1. /\ scall'[c] = [scall[c] EXCEPT !.at = "commissionSplit"] /\ scall[c].at = "sellerSplit"
        /\ split'[c].seller = 100 * scall[c].amount - CalculateFee(scall[c].amount, scall[c].read.rate)
        /\ split'[c].commission = split[c].commission /\ payment' = payment
    BY <1>7 DEF CreateSellerSplit, CreateSplit, SellerAt, SellersTypeOK, SplitRow
  <2> QED  BY <1>2, <1>7, <2>1 DEF Money, SellerStep, SellerLocal
<1>8. CASE d = c /\ CreateCommissionSplit(c)
  <2> DEFINE fee == CalculateFee(scall[c].amount, scall[c].read.rate)
  <2>1. /\ scall'[c] = [scall[c] EXCEPT !.at = "end"] /\ scall[c].at = "commissionSplit"
        /\ split'[c].commission = fee
        /\ split'[c].seller = split[c].seller /\ payment' = payment
    BY <1>8 DEF CreateCommissionSplit, CreateSplit, SellerAt, SellersTypeOK, SplitRow
  <2>2. fee \in Int /\ scall[c].amount \in Int
    BY <1>2 DEF CalculateFee, SellerLocal, SellerRecord
  <2>3. split[c].seller = 100 * scall[c].amount - fee
    BY <2>1 DEF Money
  <2> HIDE DEF fee
  <2>4. split'[c].seller + split'[c].commission = 100 * scall[c].amount
    BY <2>1, <2>2, <2>3
  <2> QED  BY <1>2, <1>8, <2>1, <2>2, <2>4 DEF Money, SellerStep, SellerLocal
<1> QED  BY <1>3, <1>4, <1>5, <1>6, <1>7, <1>8

-----------------------------------------------------------------------------
(* A removed seller.                                                        *)

LEMMA RowSteps ==
    ASSUME RowInv, NEW c \in SellerCall,
           \/ MarketplaceEndpoints(c)
           \/ InsertSeller(c) \/ SaveSeller(c)
           \/ CreateMarketplacePayment(c) \/ CreateSellerSplit(c) \/ CreateCommissionSplit(c)
           \/ SellerCallFails(c)
    PROVE  RowInv'
<1> USE SellerAssumption DEF RowInv
<1>1. SellersTypeOK'
  BY SellerTypeSteps
<1>2. scall[c] \in SellerLocal
  BY DEF SellersTypeOK
\* Steps that leave the rows alone and lead to no addition and no save.
<1>3. ASSUME UNCHANGED <<seller, removed, twins, overwritten>>,
             NEW local \in SellerLocal, scall' = [scall EXCEPT ![c] = local],
             local.at \notin {"add", "save"}
      PROVE  RowInv'
  <2>1. \A d \in SellerCall : scall'[d].at \in {"add", "save"} => scall'[d] = scall[d]
    BY <1>3 DEF SellersTypeOK
  <2>2. Loads'
    BY <1>3, <2>1 DEF Loads
  <2>3. OneRow'
    BY <1>3, <2>1 DEF OneRow
  <2> QED  BY <1>1, <1>3, <2>2, <2>3 DEF RemovedSellerIsOut
<1>4. ASSUME NEW rate \in Rate, AddSeller(c, rate) PROVE RowInv'
  <2>1. CASE SellerRows # {}
    BY <1>2, <1>3, <1>4, <2>1 DEF AddSeller, SellerAt, SellersTypeOK, SellerLocal, SellerStep
  <2>2. CASE SellerRows = {}
    <3>1. /\ scall' = [scall EXCEPT ![c] = [NewSellerCall EXCEPT !.at = "add", !.row.rate = rate]]
          /\ twins' = (twins \/ \E o \in SellerCall : scall[o].at = "add")
          /\ UNCHANGED <<seller, removed, overwritten>>
          /\ \A r \in SellerRow : ~seller[r].exists
      BY <1>4, <2>2 DEF AddSeller, SellerHolds, SellerRows
    <3>2. Loads'
      BY <3>1 DEF Loads, NewSellerCall, SellersTypeOK
    <3>3. OneRow'
      BY <3>1 DEF OneRow, NewSellerCall, SellersTypeOK
    <3> QED  BY <1>1, <3>1, <3>2, <3>3 DEF RemovedSellerIsOut
  <2> QED  BY <2>1, <2>2
<1>5. ASSUME NEW r \in SellerRow, NEW row \in SellerRecord, FindSeller(c, r, row),
             row.exists = seller[r].exists, row.isActive => seller[r].isActive
      PROVE  RowInv'
  <2>1. /\ scall' = [scall EXCEPT ![c] =
                       [NewSellerCall EXCEPT !.at = "save", !.r = r, !.read = seller[r], !.row = row]]
        /\ seller[r].exists /\ UNCHANGED <<seller, removed, twins, overwritten>>
    BY <1>5 DEF FindSeller, SellerHolds, SellerRows
  <2>2. Loads'
    BY <1>5, <2>1 DEF Loads, NewSellerCall, SellersTypeOK
  <2>3. OneRow'
    BY <2>1 DEF OneRow, NewSellerCall, SellersTypeOK
  <2> QED  BY <1>1, <2>1, <2>2, <2>3 DEF RemovedSellerIsOut
<1>6. ASSUME NEW r \in SellerRow, RemoveSeller(c, r) PROVE RowInv'
  BY <1>5, <1>6 DEF RemoveSeller, SellersTypeOK, SellerRecord
<1>7. ASSUME NEW r \in SellerRow, NEW rate \in Rate, UpdateCommissionRate(c, r, rate) PROVE RowInv'
  BY <1>5, <1>7 DEF UpdateCommissionRate, SellersTypeOK, SellerRecord
<1>8. ASSUME NEW amount \in Price, FindActiveSeller(c, amount) PROVE RowInv'
  <2>1. CASE SellerAt(c, "end")
    <3>1. [scall[c] EXCEPT !.at = "end"] \in SellerLocal
      BY <1>2 DEF SellerLocal, SellerStep
    <3>2. scall' = [scall EXCEPT ![c] = [scall[c] EXCEPT !.at = "end"]]
      BY <2>1 DEF SellerAt, SellersTypeOK
    <3> QED  BY <1>2, <1>3, <1>8, <3>1, <3>2 DEF FindActiveSeller, SellerLocal
  <2>2. CASE ~SellerAt(c, "end")
    <3>1. PICK r \in SellerRow : SellerHolds(c,
             [NewSellerCall EXCEPT !.at = "pay", !.r = r, !.read = seller[r], !.amount = amount])
      BY <1>8, <2>2 DEF FindActiveSeller, SellerRows
    <3> DEFINE local == [NewSellerCall EXCEPT !.at = "pay", !.r = r, !.read = seller[r],
                                              !.amount = amount]
    <3>2. NewSellerCall \in SellerLocal
      BY DEF NewSellerCall, NoSeller, SellerLocal, SellerRecord, SellerStep
    <3>3. local \in SellerLocal /\ local.at = "pay"
      BY <3>2 DEF SellerLocal, SellerStep, SellersTypeOK
    <3>4. scall' = [scall EXCEPT ![c] = local]
      BY <3>1 DEF SellerHolds
    <3> HIDE DEF local
    <3> QED  BY <1>3, <1>8, <3>3, <3>4 DEF FindActiveSeller
  <2> QED  BY <2>1, <2>2
<1>9. ASSUME InsertSeller(c) PROVE RowInv'
  <2>1. PICK s \in SellerRow :
           /\ ~seller[s].exists
           /\ seller' = [seller EXCEPT ![s] = [exists |-> TRUE, isActive |-> TRUE,
                                               rate |-> scall[c].row.rate]]
    BY <1>9 DEF InsertSeller, SellerRows
  <2>2. /\ scall[c].at = "add" /\ scall' = [scall EXCEPT ![c].at = "end"]
        /\ UNCHANGED <<removed, twins, overwritten>>
    BY <1>9 DEF InsertSeller, SellerAt
  <2>3. Loads'
    BY <2>1, <2>2 DEF Loads, SellersTypeOK
  <2>4. OneRow'
    BY <2>1, <2>2 DEF OneRow, SellersTypeOK
  <2>5. RemovedSellerIsOut'
    BY <2>2 DEF OneRow, RemovedSellerIsOut
  <2> QED  BY <1>1, <2>3, <2>4, <2>5
<1>10. ASSUME SaveSeller(c) PROVE RowInv'
  <2> DEFINE local == scall[c]
  <2>1. /\ local.at = "save" /\ scall' = [scall EXCEPT ![c].at = "end"]
        /\ seller' = [seller EXCEPT ![local.r] = local.row] /\ twins' = twins
        /\ removed' = (removed \/ (local.read.isActive /\ ~local.row.isActive))
        /\ overwritten' = (overwritten \/ seller[local.r] # local.read)
    BY <1>10 DEF SaveSeller, SellerAt
  <2>2. /\ local.r \in SellerRow /\ seller[local.r].exists
        /\ local.row.exists /\ local.row \in SellerRecord
        /\ local.row.isActive => local.read.isActive
    BY <1>2, <2>1 DEF Loads, SellerLocal
  <2> HIDE DEF local
  <2>3. \A r \in SellerRow : seller'[r].exists <=> seller[r].exists
    BY <2>1, <2>2 DEF SellersTypeOK
  <2>4. \A d \in SellerCall : scall'[d].at \in {"add", "save"} => scall'[d] = scall[d]
    BY <2>1 DEF SellersTypeOK
  <2>5. Loads'
    BY <2>3, <2>4 DEF Loads, SellersTypeOK
  <2>6. \A r \in SellerRow : seller'[r].isActive => seller'[r].exists
    BY <2>1, <2>2 DEF OneRow, SellersTypeOK
  <2>7. OneRow'
    BY <2>1, <2>2, <2>3, <2>4, <2>6 DEF OneRow
  <2>8. ASSUME removed', ~twins, ~overwritten', NEW r \in SellerRow PROVE ~seller'[r].isActive
    <3>1. ~overwritten /\ seller[local.r] = local.read
      BY <2>1, <2>8 DEF SellersTypeOK
    <3>2. CASE r = local.r
      BY <2>1, <2>2, <2>8, <3>1, <3>2 DEF RemovedSellerIsOut, SellersTypeOK
    <3>3. CASE r # local.r
      <4>1. ~seller[r].exists /\ seller'[r] = seller[r]
        BY <2>1, <2>2, <2>8, <3>3 DEF OneRow, SellersTypeOK
      <4> QED  BY <4>1 DEF OneRow
    <3> QED  BY <3>2, <3>3
  <2>9. RemovedSellerIsOut'
    BY <2>1, <2>8 DEF RemovedSellerIsOut
  <2> QED  BY <1>1, <2>5, <2>7, <2>9
<1>11. ASSUME \/ CreateMarketplacePayment(c) \/ CreateSellerSplit(c) \/ CreateCommissionSplit(c)
              \/ SellerCallFails(c)
       PROVE  RowInv'
  <2>1. PICK at \in {"sellerSplit", "commissionSplit", "end", "failed"} :
           scall' = [scall EXCEPT ![c].at = at]
    BY <1>11 DEF CreateMarketplacePayment, CreateSellerSplit, CreateCommissionSplit,
                 SellerCallFails, SellerAt
  <2>2. /\ [scall[c] EXCEPT !.at = at] \in SellerLocal
        /\ [scall[c] EXCEPT !.at = at].at \notin {"add", "save"}
        /\ scall' = [scall EXCEPT ![c] = [scall[c] EXCEPT !.at = at]]
    BY <1>2, <2>1 DEF SellerLocal, SellerStep, SellersTypeOK
  <2>3. UNCHANGED <<seller, removed, twins, overwritten>>
    BY <1>11 DEF CreateMarketplacePayment, CreateSellerSplit, CreateCommissionSplit, SellerCallFails
  <2> QED  BY <1>3, <2>2, <2>3
<1> QED  BY <1>4, <1>6, <1>7, <1>8, <1>9, <1>10, <1>11 DEF MarketplaceEndpoints

-----------------------------------------------------------------------------
LEMMA SellerStutters ==
    ASSUME UNCHANGED sellerVars
    PROVE  (SplitInv => SplitInv') /\ (RowInv => RowInv')
<1> USE DEF sellerVars
<1>1. SellersTypeOK => SellersTypeOK'
  BY DEF SellersTypeOK
<1>2. (\A c \in SellerCall : Money(c)) => \A c \in SellerCall : Money(c)'
  BY DEF Money
<1>3. Loads /\ OneRow /\ RemovedSellerIsOut => Loads' /\ OneRow' /\ RemovedSellerIsOut'
  BY DEF Loads, OneRow, RemovedSellerIsOut
<1> QED  BY <1>1, <1>2, <1>3 DEF SplitInv, RowInv

LEMMA SellersInvariant == SellersSpec => [](SplitInv /\ RowInv)
<1>1. SplitInv /\ RowInv /\ [SellersNext]_sellerVars => (SplitInv /\ RowInv)'
  BY SplitSteps, RowSteps, SellerStutters DEF SellersNext
<1> QED  BY <1>1, SellersStart, PTL DEF SellersSpec

\* Every variable keeps its type, for any rates and prices.
THEOREM SellersTypeCorrect == SellersSpec => []SellersTypeOK
<1>1. SplitInv => SellersTypeOK
  BY DEF SplitInv
<1> QED  BY <1>1, SellersInvariant, PTL

\* The two splits of a payment add up to it, whatever is done to the rate
\* between them, and only a failure leaves a payment without both.
THEOREM SplitsAddUp == SellersSpec => []SplitsMakeThePayment
<1>1. SplitInv => SplitsMakeThePayment
  <2> SUFFICES ASSUME SplitInv, NEW c \in SellerCall
               PROVE  /\ split[c].commission # None =>
                             split[c].seller + split[c].commission = 100 * payment[c]
                      /\ payment[c] # None /\ scall[c].at = "end" => split[c].commission # None
    BY DEF SplitsMakeThePayment
  <2> QED  BY DEF SplitInv, Money
<1> QED  BY <1>1, SellersInvariant, PTL

\* A removed seller stays out, but for overlapping additions and a save over
\* the removal, for any number of calls.
THEOREM RemovedStaysOut == SellersSpec => []RemovedSellerIsOut
<1>1. RowInv => RemovedSellerIsOut
  BY DEF RowInv
<1> QED  BY <1>1, SellersInvariant, PTL

-----------------------------------------------------------------------------
(***************************************************************************)
(* RequestPipeline: the interceptors around every request.                 *)
(***************************************************************************)
-----------------------------------------------------------------------------
(* The inductive invariant.                                                 *)

\* A request that has arrived has said what it asks for.
Arrived == \A q \in HttpRequest : http[q].at # "new" => http[q].call \in HttpCall

\* A request has an answer only when it is over or its answer is being kept,
\* and then it is its own, of a kind that is kept.
Answered ==
    \A q \in HttpRequest :
        /\ Succeeded(q) => http[q].at \in {"store", "end"}
        /\ http[q].at = "store" =>
               answer[q] = q /\ q \in handled /\ Asks(q).endpoint \in Cacheable

\* An exempt request does not look into the cache.
NotExempt ==
    \A q \in HttpRequest : http[q].at = "cache" => Asks(q).endpoint # "exempt"

\* What the cache remembers is the answer of a request that ran, of that key.
Kept(k, o) ==
    /\ o \in handled /\ answer[o] = o /\ http[o].call.endpoint \in Cacheable
    /\ k = <<http[o].call.method, http[o].call.query>>

Remembers == \A k \in Url, o \in HttpRequest : remembered[k] = o => Kept(k, o)

\* AnswersAreEarned, of a request and the one whose answer it got.
Credit(q, o) ==
    /\ o \in handled /\ answer[o] = o /\ http[o].call.method = http[q].call.method
    /\ http[o].call.query = http[q].call.query
    /\ q \in handled \/ (http[q].call.endpoint # "exempt" /\ http[o].call.endpoint \in Cacheable)

Earned == \A q, o \in HttpRequest : answer[q] = o => Credit(q, o)

HInv == PipelineTypeOK /\ Arrived /\ NotExempt /\ Answered /\ Remembers /\ Earned

-----------------------------------------------------------------------------
LEMMA PipelineStarts == PipelineInit => HInv
<1> SUFFICES ASSUME PipelineInit PROVE HInv
  OBVIOUS
<1> USE PipelineAssumption DEF PipelineInit
<1>1. PipelineTypeOK
  BY DEF PipelineTypeOK, HttpStep, Outcome
<1>2. \A q \in HttpRequest : ~Succeeded(q)
  BY DEF Succeeded
<1>3. Arrived /\ NotExempt /\ Answered /\ Remembers /\ Earned
  BY <1>2 DEF Arrived, NotExempt, Answered, Remembers, Earned, Succeeded
<1> QED  BY <1>1, <1>3 DEF HInv

\* A request that moves on without an answer of success, and before or after
\* its handler, disturbs nothing that has been answered or is remembered.
LEMMA MoveKeeps ==
    ASSUME HInv, NEW q \in HttpRequest, http[q].at \in {"new", "limit", "routeLimit", "cache", "handler"},
           NEW h \in [at : HttpStep \ {"new", "store"}, call : HttpCall],
           http' = [http EXCEPT ![q] = h],
           http[q].at # "new" => h.call = http[q].call,
           h.at = "cache" => h.call.endpoint # "exempt",
           NEW a \in {answer[q], "refused", "failed"},
           answer' = [answer EXCEPT ![q] = a],
           remembered' = remembered,
           handled' \in {handled, handled \cup {q}},
           used' \in [Client -> Nat], routeUsed' \in [Client -> Nat]
    PROVE  HInv'
<1> USE PipelineAssumption DEF HInv
<1>1. ~Succeeded(q) /\ ~Succeeded(q)' /\ answer[q] # q
  BY DEF Succeeded, Answered, PipelineTypeOK
<1>2. PipelineTypeOK'
  BY DEF PipelineTypeOK, Outcome
<1>3. \A o \in HttpRequest \ {q} : /\ http'[o] = http[o] /\ answer'[o] = answer[o]
                                   /\ o \in handled' <=> o \in handled
  BY DEF PipelineTypeOK
<1>4. Arrived'
  BY DEF Arrived, PipelineTypeOK
<1>5. Answered'
  BY <1>1, <1>3 DEF Answered, Succeeded, PipelineTypeOK, Asks
<1>5a. NotExempt'
  BY <1>3 DEF NotExempt, PipelineTypeOK, Asks
<1>6. Remembers'
  <2> SUFFICES ASSUME NEW k \in Url, NEW o \in HttpRequest, remembered[k] = o
               PROVE  Kept(k, o)'
    BY DEF Remembers
  <2>1. Kept(k, o) /\ o # q
    BY <1>1 DEF Remembers, Kept
  <2> QED  BY <2>1, <1>3 DEF Kept
<1>7. Earned'
  <2> SUFFICES ASSUME NEW o \in HttpRequest, NEW p \in HttpRequest, answer'[o] = p
               PROVE  Credit(o, p)'
    BY DEF Earned
  <2>1. o # q /\ answer[o] = p
    BY <1>1, <1>3 DEF Succeeded
  <2>2. Credit(o, p) /\ p # q
    BY <2>1, <1>1 DEF Earned, Credit
  <2> QED  BY <2>1, <2>2, <1>3 DEF Credit
<1> QED  BY <1>2, <1>4, <1>5, <1>5a, <1>6, <1>7

-----------------------------------------------------------------------------
LEMMA ArriveKeeps ==
    ASSUME HInv, NEW q \in HttpRequest, NEW asked \in HttpCall, Arrive(q, asked)
    PROVE  HInv'
<1> DEFINE h == [at |-> "limit", call |-> asked]
<1>1. h \in [at : HttpStep \ {"new", "store"}, call : HttpCall] /\ h.at # "cache"
  BY DEF HttpStep
<1>2. answer' = [answer EXCEPT ![q] = answer[q]]
  BY DEF Arrive, HInv, PipelineTypeOK
<1>3. used' \in [Client -> Nat] /\ routeUsed' \in [Client -> Nat]
  BY DEF Arrive, HInv, PipelineTypeOK
<1> HIDE DEF h
<1>4. http' = [http EXCEPT ![q] = h] /\ http[q].at = "new" /\ remembered' = remembered /\ handled' = handled
  BY DEF Arrive, h
<1> QED  BY <1>1, <1>2, <1>3, <1>4, MoveKeeps

\* Any of the steps that only move the request and may answer it with a failure.
LEMMA MovesKeeps ==
    ASSUME HInv, NEW q \in HttpRequest, http[q].at \in {"limit", "routeLimit", "cache", "handler"},
           NEW at \in HttpStep \ {"new", "store"}, Moves(q, at),
           at = "cache" => Asks(q).endpoint # "exempt",
           answer' = answer \/ Answers(q, "refused") \/ Answers(q, "failed"),
           remembered' = remembered, handled' \in {handled, handled \cup {q}},
           used' \in [Client -> Nat], routeUsed' \in [Client -> Nat]
    PROVE  HInv'
<1> DEFINE h == [http[q] EXCEPT !.at = at]
<1>1. http[q] \in [at : HttpStep, call : HttpCall]
  BY DEF HInv, PipelineTypeOK, Arrived
<1>2. /\ h \in [at : HttpStep \ {"new", "store"}, call : HttpCall] /\ h.call = http[q].call
      /\ h.at = "cache" => h.call.endpoint # "exempt"
  BY <1>1 DEF Asks
<1>3. http' = [http EXCEPT ![q] = h]
  BY DEF Moves, HInv, PipelineTypeOK
<1>4. \E a \in {answer[q], "refused", "failed"} : answer' = [answer EXCEPT ![q] = a]
  BY DEF Answers, HInv, PipelineTypeOK
<1> HIDE DEF h
<1> QED  BY <1>2, <1>3, <1>4, MoveKeeps

LEMMA LimitsKeep ==
    ASSUME HInv, NEW q \in HttpRequest,
           LimitClient(q) \/ LimitRoute(q) \/ LimiterFails(q)
    PROVE  HInv'
<1>1. used' \in [Client -> Nat] /\ routeUsed' \in [Client -> Nat]
  BY DEF LimitClient, LimitRoute, LimiterFails, HInv, PipelineTypeOK
<1>2. \E at \in {"routeLimit", "cache", "handler", "end"} :
          Moves(q, at) /\ (at = "cache" => Asks(q).endpoint # "exempt")
  BY DEF LimitClient, LimitRoute, LimiterFails, Lets, Onward
<1>3. answer' = answer \/ Answers(q, "refused")
  BY DEF LimitClient, LimitRoute, LimiterFails, Lets
<1>4. /\ http[q].at \in {"limit", "routeLimit", "cache", "handler"}
      /\ remembered' = remembered /\ handled' = handled
  BY DEF LimitClient, LimitRoute, LimiterFails
<1> QED  BY <1>1, <1>2, <1>3, <1>4, MovesKeeps DEF HttpStep

LEMMA LookUpKeeps ==
    ASSUME HInv, NEW q \in HttpRequest, LookUp(q)
    PROVE  HInv'
<1> USE PipelineAssumption
<1>1. used' \in [Client -> Nat] /\ routeUsed' \in [Client -> Nat]
  BY DEF LookUp, HInv, PipelineTypeOK
<1>2. CASE remembered[Key(q)] = None
  BY <1>1, <1>2, MovesKeeps DEF LookUp, HttpStep
<1>3. CASE remembered[Key(q)] # None
  <2> DEFINE o == remembered[Key(q)]
  <2> USE <1>3 DEF HInv
  <2>1. http[q].call \in HttpCall /\ ~Succeeded(q) /\ http[q].at = "cache"
    BY DEF LookUp, Arrived, Answered
  <2>2. /\ Key(q) \in Url /\ Key(q) = <<http[q].call.method, http[q].call.query>>
        /\ http[q].call.endpoint # "exempt"
    BY <2>1 DEF Asks, Key, Url, HttpCall, NotExempt
  <2>3. o \in HttpRequest /\ Kept(Key(q), o)
    BY <2>2 DEF Remembers, PipelineTypeOK
  <2>4. o # q
    BY <2>1, <2>3 DEF Kept, Succeeded
  <2>5. /\ http' = [http EXCEPT ![q].at = "end"] /\ answer' = [answer EXCEPT ![q] = o]
        /\ UNCHANGED <<used, routeUsed, remembered, handled>>
    BY DEF LookUp, Moves, Answers
  <2>6. Credit(q, o)
    BY <2>2, <2>3 DEF Kept, Credit
  <2> HIDE DEF o
  <2>7. PipelineTypeOK'
    BY <2>3, <2>5 DEF PipelineTypeOK, HttpStep, Outcome
  <2>8. Arrived' /\ NotExempt'
    BY <2>1, <2>5 DEF Arrived, NotExempt, Asks, PipelineTypeOK
  <2>9. Answered'
    BY <2>1, <2>5 DEF Answered, Succeeded, Asks, PipelineTypeOK
  <2>10. Remembers'
    BY <2>1, <2>5 DEF Remembers, Kept, Succeeded, PipelineTypeOK
  <2>11. Earned'
    BY <2>1, <2>4, <2>5, <2>6 DEF Earned, Credit, Succeeded, PipelineTypeOK
  <2> QED  BY <2>7, <2>8, <2>9, <2>10, <2>11
<1> QED  BY <1>2, <1>3

LEMMA HandleKeeps ==
    ASSUME HInv, NEW q \in HttpRequest, Handle(q)
    PROVE  HInv'
<1> USE PipelineAssumption DEF HInv
<1>1. PICK a \in {q, "failed"} :
         /\ answer' = [answer EXCEPT ![q] = a]
         /\ handled' = IF a = q THEN handled \cup {q} ELSE handled
         /\ http' = [http EXCEPT ![q].at = IF Stores(q, a) THEN "store" ELSE "end"]
  BY DEF Handle, Given, Answers, Moves
<1>2. http[q].at = "handler" /\ UNCHANGED <<used, routeUsed, remembered>>
  BY DEF Handle
<1>3. CASE a = "failed"
  <2>1. a # q
    BY <1>3
  <2>2. Moves(q, "end") /\ Answers(q, "failed") /\ handled' = handled
    BY <1>1, <1>3, <2>1 DEF Stores, Moves, Answers
  <2>3. used' \in [Client -> Nat] /\ routeUsed' \in [Client -> Nat]
    BY <1>2 DEF PipelineTypeOK
  <2> QED  BY <2>2, <2>3, <1>2, MovesKeeps DEF HttpStep
<1>4. CASE a = q
  <2>1. ~Succeeded(q)
    BY <1>2 DEF Answered
  <2>2. /\ answer' = [answer EXCEPT ![q] = q] /\ handled' = handled \cup {q}
        /\ http' = [http EXCEPT ![q].at =
                       IF Asks(q).endpoint \in Cacheable THEN "store" ELSE "end"]
    BY <1>1, <1>4 DEF Stores
  <2>3. PipelineTypeOK'
    BY <2>2, <1>2 DEF PipelineTypeOK, HttpStep, Outcome
  <2>4. Arrived' /\ NotExempt'
    BY <2>2, <1>2 DEF Arrived, NotExempt, Asks, PipelineTypeOK
  <2>5. Answered'
    BY <2>2 DEF Answered, Succeeded, Asks, PipelineTypeOK
  <2>6. Remembers'
    BY <2>1, <2>2, <1>2 DEF Remembers, Kept, Succeeded, PipelineTypeOK
  <2>7. Earned'
    BY <2>1, <2>2 DEF Earned, Credit, Succeeded, PipelineTypeOK
  <2> QED  BY <2>3, <2>4, <2>5, <2>6, <2>7
<1> QED  BY <1>3, <1>4

LEMMA StoreKeeps ==
    ASSUME HInv, NEW q \in HttpRequest, Store(q) \/ (http[q].at = "store" /\ RequestFails(q))
    PROVE  HInv'
<1> USE PipelineAssumption DEF HInv
<1>1. answer[q] = q /\ q \in handled /\ Asks(q).endpoint \in Cacheable /\ http[q].call \in HttpCall
  BY DEF Store, Answered, Arrived
<1>2. /\ http' = [http EXCEPT ![q].at = "end"] /\ answer' = answer /\ handled' = handled
      /\ UNCHANGED <<used, routeUsed>>
      /\ remembered' \in {remembered, [remembered EXCEPT ![Key(q)] = q]}
  BY DEF Store, RequestFails, Moves
<1>3. Key(q) \in Url /\ Key(q) = <<http[q].call.method, http[q].call.query>>
  BY <1>1 DEF Key, Url, Asks, HttpCall
<1>4. Kept(Key(q), q)
  BY <1>1, <1>3 DEF Kept, Asks
<1>5. PipelineTypeOK'
  BY <1>2 DEF PipelineTypeOK, HttpStep
<1>6. Arrived' /\ NotExempt'
  BY <1>1, <1>2 DEF Arrived, NotExempt, Asks, PipelineTypeOK
<1>7. Answered'
  BY <1>2 DEF Answered, Succeeded, Asks, PipelineTypeOK
<1>8. Remembers'
  <2> SUFFICES ASSUME NEW k \in Url, NEW o \in HttpRequest, remembered'[k] = o
               PROVE  Kept(k, o)'
    BY DEF Remembers
  <2>1. remembered[k] = o \/ (k = Key(q) /\ o = q)
    BY <1>2 DEF PipelineTypeOK
  <2>2. Kept(k, o)
    BY <2>1, <1>4 DEF Remembers
  <2> QED  BY <2>2, <1>2 DEF Kept, PipelineTypeOK
<1>9. Earned'
  BY <1>2 DEF Earned, Credit, PipelineTypeOK
<1> QED  BY <1>5, <1>6, <1>7, <1>8, <1>9

LEMMA RequestFailsKeeps ==
    ASSUME HInv, NEW q \in HttpRequest, RequestFails(q)
    PROVE  HInv'
<1>1. CASE http[q].at = "store"
  BY <1>1, StoreKeeps
<1>2. CASE http[q].at # "store"
  <2>1. Moves(q, "end") /\ Answers(q, "failed") /\ http[q].at \in {"cache", "handler"}
    BY <1>2 DEF RequestFails, Answers
  <2>2. /\ handled' \in {handled, handled \cup {q}} /\ remembered' = remembered
        /\ used' \in [Client -> Nat] /\ routeUsed' \in [Client -> Nat]
    BY DEF RequestFails, HInv, PipelineTypeOK
  <2> QED  BY <2>1, <2>2, MovesKeeps DEF HttpStep
<1> QED  BY <1>1, <1>2

\* Minutes, expiring entries and steps that change nothing.
LEMMA TimeKeeps ==
    ASSUME HInv,
           \/ \E i \in Client : MinuteEnds(i)
           \/ \E k \in Url : RememberedExpires(k)
           \/ UNCHANGED httpVars
    PROVE  HInv'
<1> USE DEF HInv
<1>1. /\ http' = http /\ answer' = answer /\ handled' = handled
      /\ used' \in [Client -> Nat] /\ routeUsed' \in [Client -> Nat]
      /\ remembered' \in [Url -> HttpRequest \cup {None}]
      /\ \A k \in Url : remembered'[k] \in {remembered[k], None}
  BY DEF MinuteEnds, RememberedExpires, httpVars, PipelineTypeOK
<1>2. PipelineTypeOK' /\ Arrived' /\ NotExempt' /\ Answered'
  BY <1>1 DEF PipelineTypeOK, Arrived, NotExempt, Answered, Asks, Succeeded
<1>3. Remembers'
  BY <1>1, PipelineAssumption DEF Remembers, Kept
<1>4. Earned'
  BY <1>1 DEF Earned, Credit
<1> QED  BY <1>2, <1>3, <1>4

LEMMA PipelineSteps == HInv /\ [PipelineNext]_httpVars => HInv'
<1> SUFFICES ASSUME HInv, [PipelineNext]_httpVars PROVE HInv'
  OBVIOUS
<1>1. ASSUME NEW q \in HttpRequest, NEW asked \in HttpCall, Arrive(q, asked) PROVE HInv'
  BY <1>1, ArriveKeeps
<1>2. ASSUME NEW q \in HttpRequest, LimitClient(q) \/ LimitRoute(q) \/ LimiterFails(q) PROVE HInv'
  BY <1>2, LimitsKeep
<1>3. ASSUME NEW q \in HttpRequest, LookUp(q) PROVE HInv'
  BY <1>3, LookUpKeeps
<1>4. ASSUME NEW q \in HttpRequest, Handle(q) PROVE HInv'
  BY <1>4, HandleKeeps
<1>5. ASSUME NEW q \in HttpRequest, Store(q) PROVE HInv'
  BY <1>5, StoreKeeps
<1>6. ASSUME NEW q \in HttpRequest, RequestFails(q) PROVE HInv'
  BY <1>6, RequestFailsKeeps
<1> QED  BY <1>1, <1>2, <1>3, <1>4, <1>5, <1>6, TimeKeeps DEF PipelineNext

LEMMA PipelineInvariant == PipelineSpec => []HInv
<1> QED  BY PipelineStarts, PipelineSteps, PTL DEF PipelineSpec

\* Every variable keeps its type, for any limits and any number of requests.
THEOREM PipelineTypeCorrect == PipelineSpec => []PipelineTypeOK
<1>1. HInv => PipelineTypeOK
  BY DEF HInv
<1> QED  BY <1>1, PipelineInvariant, PTL

\* A request that is told of success has run, or gets the answer of one of its
\* method and query string that did and may be kept, which no exempt request
\* does: whatever fails on the way and whenever an entry of the cache expires.
THEOREM SuccessIsEarned == PipelineSpec => []AnswersAreEarned
<1>1. HInv => AnswersAreEarned
  <2> SUFFICES ASSUME HInv, NEW q \in HttpRequest, NEW o \in HttpRequest, answer[q] = o
               PROVE  /\ o \in handled /\ answer[o] = o /\ Key(o) = Key(q)
                      /\ \/ q \in handled
                         \/ Asks(q).endpoint # "exempt" /\ Asks(o).endpoint \in Cacheable
    BY DEF AnswersAreEarned, Succeeded
  <2> QED  BY DEF HInv, Earned, Credit, Key, Asks
<1> QED  BY <1>1, PipelineInvariant, PTL

-----------------------------------------------------------------------------
(***************************************************************************)
(* ApiKeys: creation, deactivation, rotation and the KYC approval.         *)
(***************************************************************************)
\* A row that is not there is neither in use nor anyone's.
KeysThere == \A k \in KeyId : key[k].exists \/ ~(key[k].isActive \/ key[k].owned)

\* A creation has a row of its own, and meets its name only where another one
\* overlapped it or a save brought a key back.
KeysInserted ==
    \A q \in KeyRequest : kstep[q] = "insert" =>
        /\ aim[q] \in KeyId /\ ~key[aim[q]].exists
        /\ held[q].exists /\ held[q].owned
        /\ \A o \in KeyRequest \ {q} : kstep[o] = "insert" =>
               aim[o] # aim[q] /\ (held[o].name = held[q].name => held[q].name \in namesakes)
        /\ \A k \in Bearing(held[q].name) : held[q].name \in namesakes \/ k \in restored

\* What a deactivation or a rotation loaded has the name of its row.
KeysLoaded ==
    \A q \in KeyRequest : kstep[q] \in {"deactivate", "rotate"} =>
        /\ aim[q] \in KeyId /\ key[aim[q]].exists
        /\ held[q].exists /\ held[q].name = key[aim[q]].name

\* An approval misses the keys created since only.
KeysCollected ==
    \A q \in KeyRequest : kstep[q] = "approve" =>
        \A k \in KeyId : IF k \in collection[q] THEN key[k].exists
                         ELSE key[k].exists => k \in latecomers

KeysInv == /\ KeysTypeOK /\ KeysThere /\ KeysInserted /\ KeysLoaded /\ KeysCollected
           /\ TwinsExplained /\ OrphansExplained

\* A request that begins or ends leaves the steps of the others alone.
LEMMA KeysBegin ==
    ASSUME KeysTypeOK, NEW q \in KeyRequest, NEW at \in KeyStep, NEW k \in KeyId \cup {None},
           NEW row \in KeyRow, NEW found \in SUBSET KeyId, BeginKeys(q, at, k, row, found)
    PROVE  /\ kstep[q] = "idle"
           /\ kstep' \in [KeyRequest -> KeyStep] /\ aim' \in [KeyRequest -> KeyId \cup {None}]
           /\ held' \in [KeyRequest -> KeyRow] /\ collection' \in [KeyRequest -> SUBSET KeyId]
           /\ kstep'[q] = at /\ aim'[q] = k /\ held'[q] = row /\ collection'[q] = found
           /\ \A o \in KeyRequest \ {q} : /\ kstep'[o] = kstep[o] /\ aim'[o] = aim[o]
                                          /\ held'[o] = held[o] /\ collection'[o] = collection[o]
BY DEF KeysTypeOK, BeginKeys

LEMMA KeysEnd ==
    ASSUME KeysTypeOK, NEW q \in KeyRequest, EndKeys(q)
    PROVE  /\ kstep' \in [KeyRequest -> KeyStep] /\ aim' \in [KeyRequest -> KeyId \cup {None}]
           /\ held' \in [KeyRequest -> KeyRow] /\ collection' \in [KeyRequest -> SUBSET KeyId]
           /\ kstep'[q] = "idle"
           /\ \A o \in KeyRequest \ {q} : /\ kstep'[o] = kstep[o] /\ aim'[o] = aim[o]
                                          /\ held'[o] = held[o] /\ collection'[o] = collection[o]
<1>1. NoKey \in KeyRow /\ "idle" \in KeyStep /\ None \in KeyId \cup {None} /\ {} \in SUBSET KeyId
  BY ApiKeyAssumption DEF NoKey, KeyRow, KeyStep
<1> QED  BY <1>1 DEF KeysTypeOK, EndKeys

LEMMA KeysInitially == KeysInit => KeysInv
<1> SUFFICES ASSUME KeysInit PROVE KeysInv
  OBVIOUS
<1>1. NoKey \in KeyRow /\ "idle" \in KeyStep
  BY ApiKeyAssumption DEF NoKey, KeyRow, KeyStep
<1>2. KeysTypeOK
  BY <1>1, ApiKeyAssumption DEF KeysInit, KeysTypeOK
<1>3. \A k \in KeyId : ~key[k].exists /\ ~key[k].isActive /\ ~key[k].owned
  BY DEF KeysInit, NoKey
<1> QED
  BY <1>2, <1>3 DEF KeysInit, KeysInv, KeysThere, KeysInserted, KeysLoaded, KeysCollected,
     TwinsExplained, OrphansExplained, Twins, Bearing

\* A creation, refused when an active key of the merchant has the name.
LEMMA KeysCreate ==
    ASSUME KeysInv, NEW q \in KeyRequest, NEW k \in KeyId, NEW n \in KeyName,
           CreateForMerchant(q, k, n)
    PROVE  KeysInv'
<1> USE DEF CreateForMerchant, CreateWith
<1>1. New(n) \in KeyRow /\ New(n).name = n /\ New(n).exists /\ New(n).owned
  BY ApiKeyAssumption DEF New, KeyRow
<1>2. /\ kstep[q] = "idle"
      /\ kstep' \in [KeyRequest -> KeyStep] /\ aim' \in [KeyRequest -> KeyId \cup {None}]
      /\ held' \in [KeyRequest -> KeyRow] /\ collection' \in [KeyRequest -> SUBSET KeyId]
      /\ kstep'[q] = "insert" /\ aim'[q] = k /\ held'[q] = New(n)
      /\ \A o \in KeyRequest \ {q} : /\ kstep'[o] = kstep[o] /\ aim'[o] = aim[o]
                                     /\ held'[o] = held[o] /\ collection'[o] = collection[o]
  BY <1>1, KeysBegin DEF KeysInv, KeyStep
<1>3. KeysTypeOK'
  BY <1>2 DEF KeysInv, KeysTypeOK
<1>4. namesakes \subseteq namesakes'
  OBVIOUS
<1>5. /\ \A o \in KeyRequest \ {q} : kstep[o] = "insert" => aim[o] # k
      /\ \A o \in KeyRequest \ {q} : kstep[o] = "insert" /\ held[o].name = n => n \in namesakes'
  BY DEF Creating
<1>6. KeysInserted'
  BY <1>1, <1>2, <1>4, <1>5 DEF KeysInv, KeysInserted, Bearing
<1>7. KeysLoaded' /\ KeysCollected'
  BY <1>2 DEF KeysInv, KeysLoaded, KeysCollected
<1>8. KeysThere' /\ OrphansExplained' /\ TwinsExplained'
  BY <1>4 DEF KeysInv, KeysThere, OrphansExplained, TwinsExplained, Twins, Bearing
<1> QED  BY <1>3, <1>6, <1>7, <1>8 DEF KeysInv

\* The insertion of a key, which may be behind an approval's back.
LEMMA KeysInsert ==
    ASSUME KeysInv, NEW q \in KeyRequest, InsertKey(q)
    PROVE  KeysInv'
<1> USE DEF InsertKey
<1> DEFINE k == aim[q]
           row == Generate(held[q])
<1>1. /\ kstep' \in [KeyRequest -> KeyStep] /\ aim' \in [KeyRequest -> KeyId \cup {None}]
      /\ held' \in [KeyRequest -> KeyRow] /\ collection' \in [KeyRequest -> SUBSET KeyId]
      /\ kstep'[q] = "idle"
      /\ \A o \in KeyRequest \ {q} : /\ kstep'[o] = kstep[o] /\ aim'[o] = aim[o]
                                     /\ held'[o] = held[o] /\ collection'[o] = collection[o]
  BY KeysEnd DEF KeysInv
<1>2. held[q] \in KeyRow /\ secrets + 1 \in 0..MaxSecret
  BY ApiKeyAssumption DEF KeysInv, KeysTypeOK, Generates
<1>3. row \in KeyRow /\ row.name = held[q].name /\ row.exists /\ row.owned
  BY <1>2 DEF Generate, KeyRow, KeysInv, KeysInserted
<1>4. k \in KeyId /\ ~key[k].exists
  BY DEF KeysInv, KeysInserted
<1> HIDE DEF row
<1>5. /\ key' \in [KeyId -> KeyRow] /\ key'[k] = row
      /\ \A j \in KeyId \ {k} : key'[j] = key[j]
  BY <1>3, <1>4 DEF row, KeysInv, KeysTypeOK
<1>6. latecomers \subseteq latecomers' /\ latecomers' \subseteq KeyId
  BY <1>4 DEF KeysInv, KeysTypeOK
<1>7. KeysTypeOK'
  BY <1>1, <1>2, <1>5, <1>6 DEF KeysInv, KeysTypeOK, Generates
<1>8. \A o \in KeyRequest \ {q} : kstep[o] = "insert" =>
          aim[o] # k /\ (held[o].name = held[q].name => held[o].name \in namesakes)
  BY DEF KeysInv, KeysInserted
<1>9. KeysInserted'
  BY <1>1, <1>3, <1>5, <1>8 DEF KeysInv, KeysInserted, Bearing
<1>10. KeysLoaded'
  BY <1>1, <1>4, <1>5 DEF KeysInv, KeysLoaded
<1>11. KeysCollected'
  <2>1. \A o \in KeyRequest \ {q} : kstep[o] = "approve" => k \in latecomers'
    OBVIOUS
  <2> QED  BY <1>1, <1>3, <1>5, <1>6, <2>1 DEF KeysInv, KeysCollected
<1>12. KeysThere' /\ OrphansExplained'
  BY <1>3, <1>5, <1>6 DEF KeysInv, KeysThere, OrphansExplained
<1>13. TwinsExplained'
  <2>1. \A b \in Bearing(held[q].name) : held[q].name \in namesakes \/ b \in restored
    BY DEF KeysInv, KeysInserted
  <2> QED  BY <1>3, <1>5, <2>1 DEF KeysInv, TwinsExplained, Twins, Bearing
<1> QED  BY <1>7, <1>9, <1>10, <1>11, <1>12, <1>13 DEF KeysInv

\* A deactivation or a rotation loads a row.
LEMMA KeysLoad ==
    ASSUME KeysInv, NEW q \in KeyRequest, NEW k \in KeyId, LoadKey(q, k)
    PROVE  KeysInv'
<1>1. PICK at \in {"deactivate", "rotate"} : BeginKeys(q, at, k, key[k], {})
  BY DEF LoadKey
<1> USE DEF LoadKey
<1>2. /\ kstep[q] = "idle"
      /\ kstep' \in [KeyRequest -> KeyStep] /\ aim' \in [KeyRequest -> KeyId \cup {None}]
      /\ held' \in [KeyRequest -> KeyRow] /\ collection' \in [KeyRequest -> SUBSET KeyId]
      /\ kstep'[q] = at /\ aim'[q] = k /\ held'[q] = key[k]
      /\ \A o \in KeyRequest \ {q} : /\ kstep'[o] = kstep[o] /\ aim'[o] = aim[o]
                                     /\ held'[o] = held[o] /\ collection'[o] = collection[o]
  <2>1. at \in KeyStep /\ key[k] \in KeyRow
    BY <1>1 DEF KeyStep, KeysInv, KeysTypeOK
  <2> QED  BY <1>1, <2>1, KeysBegin DEF KeysInv
<1>3. KeysTypeOK'
  BY <1>2 DEF KeysInv, KeysTypeOK
<1>4. KeysInserted'
  BY <1>2 DEF KeysInv, KeysInserted, Bearing
<1>5. KeysLoaded' /\ KeysCollected'
  BY <1>2 DEF KeysInv, KeysLoaded, KeysCollected
<1>6. KeysThere' /\ OrphansExplained' /\ TwinsExplained'
  BY DEF KeysInv, KeysThere, OrphansExplained, TwinsExplained, Twins, Bearing
<1> QED  BY <1>3, <1>4, <1>5, <1>6 DEF KeysInv

\* The save of a loaded row: what it makes active again is on record.
LEMMA KeysSave ==
    ASSUME KeysInv, NEW q \in KeyRequest, NEW row \in KeyRow,
           kstep[q] \in {"deactivate", "rotate"}, SaveKey(q, row), secrets' \in 0..MaxSecret,
           row.exists, row.name = held[q].name
    PROVE  KeysInv'
<1> USE DEF SaveKey
<1> DEFINE k == aim[q]
           saved == [row EXCEPT !.owned = key[k].owned]
<1>1. /\ kstep' \in [KeyRequest -> KeyStep] /\ aim' \in [KeyRequest -> KeyId \cup {None}]
      /\ held' \in [KeyRequest -> KeyRow] /\ collection' \in [KeyRequest -> SUBSET KeyId]
      /\ kstep'[q] = "idle"
      /\ \A o \in KeyRequest \ {q} : /\ kstep'[o] = kstep[o] /\ aim'[o] = aim[o]
                                     /\ held'[o] = held[o] /\ collection'[o] = collection[o]
  BY KeysEnd DEF KeysInv
<1>2. k \in KeyId /\ key[k].exists /\ row.name = key[k].name
  BY DEF KeysInv, KeysLoaded
<1>3. key[k] \in KeyRow /\ key[k].owned \in BOOLEAN
  BY <1>2 DEF KeysInv, KeysTypeOK, KeyRow
<1>4. saved \in KeyRow /\ saved.exists /\ saved.name = key[k].name
  BY <1>2, <1>3 DEF KeyRow
<1>5. saved.owned = key[k].owned /\ saved.isActive = row.isActive
  BY <1>3 DEF KeyRow
<1> HIDE DEF saved
<1>6. /\ key' \in [KeyId -> KeyRow] /\ key'[k] = saved
      /\ \A j \in KeyId \ {k} : key'[j] = key[j]
  BY <1>2, <1>4 DEF saved, KeysInv, KeysTypeOK
<1>7. restored \subseteq restored' /\ restored' \subseteq KeyId
  BY <1>2 DEF KeysInv, KeysTypeOK
<1>8. KeysTypeOK'
  BY <1>1, <1>6, <1>7 DEF KeysInv, KeysTypeOK
<1>9. saved.isActive => key[k].isActive \/ k \in restored'
  BY <1>5
<1>10. \A j \in KeyId : /\ key'[j].exists <=> key[j].exists
                        /\ key'[j].owned <=> key[j].owned
                        /\ key'[j].name = key[j].name
                        /\ key'[j].isActive => key[j].isActive \/ j \in restored'
  BY <1>2, <1>4, <1>5, <1>6, <1>9
<1>11. KeysInserted'
  BY <1>1, <1>7, <1>10 DEF KeysInv, KeysInserted, Bearing
<1>12. KeysLoaded' /\ KeysCollected'
  BY <1>1, <1>10 DEF KeysInv, KeysLoaded, KeysCollected
<1>13. KeysThere'
  BY <1>2, <1>10, <1>4, <1>6 DEF KeysInv, KeysThere
<1>14. OrphansExplained' /\ TwinsExplained'
  BY <1>7, <1>10 DEF KeysInv, OrphansExplained, TwinsExplained, Twins, Bearing
<1> QED  BY <1>8, <1>11, <1>12, <1>13, <1>14 DEF KeysInv

LEMMA KeysDeactivate ==
    ASSUME KeysInv, NEW q \in KeyRequest, Deactivate(q)
    PROVE  KeysInv'
<1> DEFINE row == [held[q] EXCEPT !.isActive = FALSE]
<1>1. held[q] \in KeyRow /\ held[q].exists
  BY DEF Deactivate, KeysInv, KeysTypeOK, KeysLoaded
<1>2. row \in KeyRow /\ row.exists /\ row.name = held[q].name
  BY <1>1 DEF KeyRow
<1>3. kstep[q] \in {"deactivate", "rotate"} /\ SaveKey(q, row) /\ secrets' \in 0..MaxSecret
  BY DEF Deactivate, KeysInv, KeysTypeOK
<1> HIDE DEF row
<1> QED  BY <1>2, <1>3, KeysSave

LEMMA KeysRotate ==
    ASSUME KeysInv, NEW q \in KeyRequest, RotateKey(q)
    PROVE  KeysInv'
<1> DEFINE row == Generate(held[q])
<1>1. held[q] \in KeyRow /\ held[q].exists /\ secrets + 1 \in 0..MaxSecret
  BY ApiKeyAssumption DEF RotateKey, Generates, KeysInv, KeysTypeOK, KeysLoaded
<1>2. row \in KeyRow /\ row.exists /\ row.name = held[q].name
  BY <1>1 DEF KeyRow, Generate
<1>3. kstep[q] \in {"deactivate", "rotate"} /\ SaveKey(q, row) /\ secrets' \in 0..MaxSecret
  BY <1>1 DEF RotateKey, Generates
<1> HIDE DEF row
<1> QED  BY <1>2, <1>3, KeysSave

\* An approval loads the merchant with its keys.
LEMMA KeysFind ==
    ASSUME KeysInv, NEW q \in KeyRequest, FindMerchant(q)
    PROVE  KeysInv'
<1> USE DEF FindMerchant
<1>1. NoKey \in KeyRow /\ "approve" \in KeyStep /\ Owned \in SUBSET KeyId
  BY ApiKeyAssumption DEF NoKey, KeyRow, KeyStep, Owned
<1>2. /\ kstep[q] = "idle"
      /\ kstep' \in [KeyRequest -> KeyStep] /\ aim' \in [KeyRequest -> KeyId \cup {None}]
      /\ held' \in [KeyRequest -> KeyRow] /\ collection' \in [KeyRequest -> SUBSET KeyId]
      /\ kstep'[q] = "approve" /\ collection'[q] = Owned
      /\ \A o \in KeyRequest \ {q} : /\ kstep'[o] = kstep[o] /\ aim'[o] = aim[o]
                                     /\ held'[o] = held[o] /\ collection'[o] = collection[o]
  BY <1>1, KeysBegin DEF KeysInv
<1>3. KeysTypeOK'
  BY <1>2 DEF KeysInv, KeysTypeOK
<1>4. KeysInserted'
  BY <1>2 DEF KeysInv, KeysInserted, Bearing
<1>5. KeysLoaded'
  BY <1>2 DEF KeysInv, KeysLoaded
<1>6. KeysCollected'
  BY <1>2 DEF KeysInv, KeysCollected, KeysThere, OrphansExplained, Owned
<1>7. KeysThere' /\ OrphansExplained' /\ TwinsExplained'
  BY DEF KeysInv, KeysThere, OrphansExplained, TwinsExplained, Twins, Bearing
<1> QED  BY <1>3, <1>4, <1>5, <1>6, <1>7 DEF KeysInv

\* Its save: a key that comes back is on record, one that goes was created since.
LEMMA KeysApprove ==
    ASSUME KeysInv, NEW q \in KeyRequest, SaveMerchant(q)
    PROVE  KeysInv'
<1> USE DEF SaveMerchant
<1>1. /\ kstep' \in [KeyRequest -> KeyStep] /\ aim' \in [KeyRequest -> KeyId \cup {None}]
      /\ held' \in [KeyRequest -> KeyRow] /\ collection' \in [KeyRequest -> SUBSET KeyId]
      /\ kstep'[q] = "idle"
      /\ \A o \in KeyRequest \ {q} : /\ kstep'[o] = kstep[o] /\ aim'[o] = aim[o]
                                     /\ held'[o] = held[o] /\ collection'[o] = collection[o]
  BY KeysEnd DEF KeysInv
<1>2. \A k \in KeyId : /\ key'[k] \in KeyRow
                       /\ key'[k].exists <=> key[k].exists
                       /\ key'[k].isActive <=> key[k].isActive
                       /\ key'[k].name = key[k].name
                       /\ key'[k].owned <=> k \in collection[q]
  <2>1. \A r \in KeyRow, b \in BOOLEAN :
            /\ [r EXCEPT !.owned = b] \in KeyRow
            /\ [r EXCEPT !.owned = b].exists <=> r.exists
            /\ [r EXCEPT !.owned = b].isActive <=> r.isActive
            /\ [r EXCEPT !.owned = b].name = r.name
            /\ [r EXCEPT !.owned = b].owned <=> b
    BY DEF KeyRow
  <2> TAKE k \in KeyId
  <2> DEFINE b == k \in collection[q]
  <2>2. key[k] \in KeyRow /\ b \in BOOLEAN
    BY DEF KeysInv, KeysTypeOK
  <2>3. key'[k] = [key[k] EXCEPT !.owned = b]
    OBVIOUS
  <2> HIDE DEF b
  <2>4. /\ key'[k] \in KeyRow
        /\ key'[k].exists <=> key[k].exists
        /\ key'[k].isActive <=> key[k].isActive
        /\ key'[k].name = key[k].name
        /\ key'[k].owned <=> b
    <3> DEFINE s == [key[k] EXCEPT !.owned = b]
    <3>1. /\ s \in KeyRow /\ s.name = key[k].name /\ (s.owned <=> b)
          /\ (s.exists <=> key[k].exists) /\ (s.isActive <=> key[k].isActive)
      BY ONLY <2>1, <2>2
    <3>2. key'[k] = s
      BY <2>3
    <3> HIDE DEF s
    <3> QED  BY ONLY <3>1, <3>2
  <2> QED  BY <2>4 DEF b
<1>3. key' \in [KeyId -> KeyRow]
  BY <1>2
<1>4. restored \subseteq restored' /\ restored' \subseteq KeyId
  BY DEF KeysInv, KeysTypeOK
<1>5. KeysTypeOK'
  BY <1>1, <1>3, <1>4 DEF KeysInv, KeysTypeOK
<1>6. \A k \in KeyId : key'[k].owned => key[k].owned \/ k \in restored'
  BY <1>2 DEF Owned
<1> HIDE DEF SaveMerchant
<1>7. namesakes' = namesakes
  BY DEF SaveMerchant
<1>8. KeysInserted'
  BY <1>1, <1>2, <1>4, <1>6, <1>7 DEF KeysInv, KeysInserted, Bearing
<1>9. KeysLoaded' /\ KeysCollected'
  BY <1>1, <1>2 DEF KeysInv, KeysLoaded, KeysCollected, SaveMerchant
<1>10. KeysThere' /\ OrphansExplained'
  BY <1>2 DEF KeysInv, KeysThere, KeysCollected, OrphansExplained, SaveMerchant
<1>11. TwinsExplained'
  BY <1>2, <1>4, <1>6, <1>7 DEF KeysInv, TwinsExplained, Twins, Bearing
<1> QED  BY <1>5, <1>8, <1>9, <1>10, <1>11 DEF KeysInv

LEMMA KeysFail ==
    ASSUME KeysInv, NEW q \in KeyRequest, KeyRequestFails(q)
    PROVE  KeysInv'
<1> USE DEF KeyRequestFails
<1>1. /\ kstep' \in [KeyRequest -> KeyStep] /\ aim' \in [KeyRequest -> KeyId \cup {None}]
      /\ held' \in [KeyRequest -> KeyRow] /\ collection' \in [KeyRequest -> SUBSET KeyId]
      /\ kstep'[q] = "idle"
      /\ \A o \in KeyRequest \ {q} : /\ kstep'[o] = kstep[o] /\ aim'[o] = aim[o]
                                     /\ held'[o] = held[o] /\ collection'[o] = collection[o]
  BY KeysEnd DEF KeysInv
<1>2. KeysTypeOK' /\ KeysThere' /\ OrphansExplained' /\ TwinsExplained'
  BY <1>1 DEF KeysInv, KeysTypeOK, KeysThere, OrphansExplained, TwinsExplained, Twins, Bearing
<1>3. KeysInserted'
  BY <1>1 DEF KeysInv, KeysInserted, Bearing
<1>4. KeysLoaded' /\ KeysCollected'
  BY <1>1 DEF KeysInv, KeysLoaded, KeysCollected
<1> QED  BY <1>2, <1>3, <1>4 DEF KeysInv

LEMMA KeysStepKeeps == KeysInv /\ [KeysNext]_keyVars => KeysInv'
<1> SUFFICES ASSUME KeysInv, [KeysNext]_keyVars PROVE KeysInv'
  OBVIOUS
<1>1. CASE UNCHANGED keyVars
  BY <1>1 DEF keyVars, KeysInv, KeysTypeOK, KeysThere, KeysInserted, KeysLoaded, KeysCollected,
     TwinsExplained, OrphansExplained, Twins, Bearing
<1>2. CASE KeysNext
  BY <1>2, KeysCreate, KeysInsert, KeysLoad, KeysDeactivate, KeysRotate, KeysFind, KeysApprove,
     KeysFail DEF KeysNext, KeyEndpoints
<1> QED  BY <1>1, <1>2

LEMMA KeysInvHolds == KeysSpec => []KeysInv
BY KeysInitially, KeysStepKeeps, PTL DEF KeysSpec

\* The type invariant of the API keys.
THEOREM KeysTypeCorrect == KeysSpec => []KeysTypeOK
<1>1. KeysInv => KeysTypeOK
  BY DEF KeysInv
<1> QED  BY <1>1, KeysInvHolds, PTL

\* api-keys.service.ts createForMerchant: two active keys of one name are the
\* work of overlapping creations, or of a save that brought a key back.
THEOREM TwinsAreExplained == KeysSpec => []TwinsExplained
<1>1. KeysInv => TwinsExplained
  BY DEF KeysInv
<1> QED  BY <1>1, KeysInvHolds, PTL

\* merchants.service.ts updateVerificationStatus: only a key that was created
\* during an approval loses its merchant, however many approvals overlap.
THEOREM OrphansAreExplained == KeysSpec => []OrphansExplained
<1>1. KeysInv => OrphansExplained
  BY DEF KeysInv
<1> QED  BY <1>1, KeysInvHolds, PTL

-----------------------------------------------------------------------------
(***************************************************************************)
(* MerchantDocuments: customers, invoices, links and templates.            *)
(***************************************************************************)
\* What a call holds at each of its steps.
DocFits(l) ==
    /\ l.at \in {"customer", "link", "template"} => l.name \in DocumentName
    /\ l.at \in {"clear", "method", "count", "invoice", "edit", "withdraw"} => l.id \in DocumentRow
    /\ l.at = "clear" => l.isDefault
    /\ l.at \in {"edit", "withdraw"} => l.row.name \in DocumentName

\* A row that is there is a customer's, or has a name.
DocsThere ==
    /\ \A m \in DocumentRow : method[m] = NoMethod \/ method[m].customer \in DocumentRow
    /\ \A i \in Invoices : invoice[i].customer \in DocumentRow
    /\ \A t \in DocumentRow : template[t] = NoTemplate \/ template[t].name \in DocumentName

DocsBase == DocumentsTypeOK /\ DocsThere /\ \A q \in DocumentCall : DocFits(call[q])

\* A step is one call's, and what is on record stays there.
DocsTurn(q) ==
    /\ call' \in [DocumentCall -> DocumentLocal]
    /\ DocFits(call'[q])
    /\ \A o \in DocumentCall \ {q} : call'[o] = call[o]
    /\ crossed \subseteq crossed' /\ renamed \subseteq renamed'
    /\ revived \subseteq revived' /\ cut \subseteq cut'

-----------------------------------------------------------------------------
(* The steps.                                                               *)

LEMMA DocNames == /\ NewDocumentCall \in DocumentLocal /\ NoTemplate \in TemplateRow
                  /\ NoMethod \in MethodRow /\ NoLink \in LinkRow /\ NoInvoice \in InvoiceRow
                  /\ None \notin DocumentRow \cup DocumentName
                  /\ Same \notin DocumentRow \cup DocumentName
<1>1. NoTemplate \in TemplateRow /\ NoMethod \in MethodRow /\ NoLink \in LinkRow
  BY DEF NoTemplate, TemplateRow, NoMethod, MethodRow, NoLink, LinkRow
<1>2. NoInvoice \in InvoiceRow
  BY DEF NoInvoice, InvoiceRow, InvoiceStatus
<1>3. NewDocumentCall \in DocumentLocal
  BY <1>1 DEF NewDocumentCall, DocumentLocal, DocumentStep
<1> QED  BY <1>1, <1>2, <1>3, DocumentAssumption

LEMMA DocGoes ==
    ASSUME DocsBase, NEW q \in DocumentCall, NEW l \in DocumentLocal, DocFits(l), DocumentGoes(q, l),
           crossed \subseteq crossed', renamed \subseteq renamed',
           revived \subseteq revived', cut \subseteq cut'
    PROVE  DocsTurn(q) /\ call'[q] = l
BY DEF DocsBase, DocumentsTypeOK, DocumentGoes, DocsTurn

LEMMA DocEnds ==
    ASSUME DocsBase, NEW q \in DocumentCall, DocumentEnds(q),
           crossed \subseteq crossed', renamed \subseteq renamed',
           revived \subseteq revived', cut \subseteq cut'
    PROVE  DocsTurn(q) /\ call'[q].at = "end"
<1>1. call[q] \in DocumentLocal
  BY DEF DocsBase, DocumentsTypeOK
<1> DEFINE l == [call[q] EXCEPT !.at = "end"]
<1>2. l \in DocumentLocal /\ l.at = "end"
  BY <1>1 DEF DocumentLocal, DocumentStep
<1>3. call' = [call EXCEPT ![q] = l]
  BY DEF DocumentEnds
<1> HIDE DEF l
<1> QED  BY <1>2, <1>3 DEF DocsBase, DocumentsTypeOK, DocsTurn, DocFits

\* A meeting is recorded of the things a call may be at.
LEMMA DocMeets ==
    ASSUME DocsBase, NEW q, NEW at, NEW on \in DocumentTables,
           NEW x \in DocumentName \cup DocumentRow, Meets(q, at, on, x)
    PROVE  /\ crossed \subseteq crossed'
           /\ crossed' \subseteq (DocumentTables \X (DocumentName \cup DocumentRow \cup {None}))
BY DEF DocsBase, DocumentsTypeOK, Meets

\* The creation of a customer, a link or a template.
LEMMA DocReserves ==
    ASSUME DocsBase, NEW q \in DocumentCall, NEW kind \in {"customer", "link", "template"},
           NEW n \in DocumentName, NEW taken, Reserve(q, kind, n, taken)
    PROVE  /\ DocsTurn(q)
           /\ call'[q].at = "end" \/ (call'[q].at = kind /\ call'[q].name = n /\ ~taken)
           /\ crossed' \subseteq (DocumentTables \X (DocumentName \cup DocumentRow \cup {None}))
<1> DEFINE l == [NewDocumentCall EXCEPT !.at = kind, !.name = n]
<1>1. l \in DocumentLocal /\ l.at = kind /\ l.name = n
  BY DocNames DEF DocumentLocal, DocumentStep
<1>2. DocFits(l)
  BY <1>1 DEF DocFits
<1>3. CASE taken
  BY <1>3, DocEnds DEF Reserve, DocsBase, DocumentsTypeOK
<1>4. CASE ~taken
  <2>1. DocumentGoes(q, l) /\ Meets(q, kind, kind, n) /\ UNCHANGED <<renamed, cut, had, revived>>
    BY <1>4 DEF Reserve
  <2>2. kind \in DocumentTables
    BY DEF DocumentTables
  <2> HIDE DEF l
  <2>3. /\ crossed \subseteq crossed'
        /\ crossed' \subseteq (DocumentTables \X (DocumentName \cup DocumentRow \cup {None}))
    BY <2>1, <2>2, DocMeets
  <2>4. DocsTurn(q) /\ call'[q] = l
    BY <1>1, <1>2, <2>1, <2>3, DocGoes
  <2> QED  BY <1>1, <1>4, <2>3, <2>4
<1> QED  BY <1>3, <1>4

\* The load of a template.
LEMMA DocFinds ==
    ASSUME DocsBase, NEW q \in DocumentCall, NEW t \in DocumentRow, NEW at \in {"edit", "withdraw"},
           NEW row \in TemplateRow, row.name \in DocumentName, NEW id \in DocumentRow,
           FindTemplate(q, t, id, at, row), renamed \subseteq renamed', revived \subseteq revived'
    PROVE  /\ DocsTurn(q)
           /\ call'[q].at = at /\ call'[q].id = id /\ call'[q].row = row
<1> DEFINE l == [NewDocumentCall EXCEPT !.at = at, !.id = id, !.row = row]
<1>1. l \in DocumentLocal /\ l.at = at /\ l.id = id /\ l.row = row
  BY DocNames DEF DocumentLocal, DocumentStep
<1>2. DocFits(l)
  BY <1>1 DEF DocFits
<1>3. DocumentGoes(q, l) /\ UNCHANGED <<crossed, cut>>
  BY DEF FindTemplate
<1> HIDE DEF l
<1> QED  BY <1>1, <1>2, <1>3, DocGoes

\* The row an update saves, and the id it is saved under.
LEMMA DocAssigns ==
    ASSUME NEW row \in TemplateRow, row.name \in DocumentName, NEW edit \in TemplateEdit
    PROVE  /\ Assigned(row, edit) \in TemplateRow
           /\ Assigned(row, edit).name = Overlaid(edit.name, row.name)
           /\ Assigned(row, edit).name \in DocumentName
           /\ edit.mine = Same => Assigned(row, edit).mine = row.mine
           /\ Assigned(row, edit).isActive => row.isActive \/ edit.isActive = TRUE
           /\ \A t \in DocumentRow : Aimed(t, edit) \in DocumentRow
<1>1. /\ edit.name \in DocumentName \cup {Same} /\ edit.isActive \in BOOLEAN \cup {Same}
      /\ edit.mine \in BOOLEAN \cup {Same} /\ edit.id \in DocumentRow \cup {Same}
  BY DEF TemplateEdit
<1>2. row.isActive \in BOOLEAN /\ row.mine \in BOOLEAN
  BY DEF TemplateRow
<1>3. Overlaid(edit.name, row.name) \in DocumentName /\ \A t \in DocumentRow : Aimed(t, edit) \in DocumentRow
  BY <1>1 DEF Overlaid, Aimed
<1>4. ASSUME NEW column \in BOOLEAN \cup {Same}, NEW was \in BOOLEAN
      PROVE  /\ Overlaid(column, was) \in BOOLEAN
             /\ Overlaid(column, was) => was \/ column = TRUE
             /\ column = Same => Overlaid(column, was) = was
  <2>1. CASE column = Same
    BY <2>1 DEF Overlaid
  <2>2. CASE column # Same
    BY <2>2 DEF Overlaid
  <2> QED  BY <2>1, <2>2
<1> DEFINE n == Overlaid(edit.name, row.name)
           b == Overlaid(edit.isActive, row.isActive)
           m == Overlaid(edit.mine, row.mine)
<1>5. /\ b \in BOOLEAN /\ m \in BOOLEAN
      /\ b => row.isActive \/ edit.isActive = TRUE
      /\ edit.mine = Same => m = row.mine
  BY <1>1, <1>2, <1>4
<1>6. Assigned(row, edit) = [name |-> n, mine |-> m, isActive |-> b]
  BY DEF Assigned
<1>7. n \in DocumentName
  BY <1>3
<1> HIDE DEF n, b, m
<1>8. Assigned(row, edit) \in TemplateRow /\ Assigned(row, edit).name = n
  BY <1>5, <1>6, <1>7 DEF TemplateRow
<1>9. Assigned(row, edit).isActive = b /\ Assigned(row, edit).mine = m
  BY <1>6
<1> QED  BY <1>3, <1>5, <1>7, <1>8, <1>9 DEF n

\* What a step must leave of the rows for the base to hold after it.
DocRowsOK ==
    /\ customer \in [DocumentRow -> CustomerRow]
    /\ method \in [DocumentRow -> MethodRow]
    /\ invoice \in [DocumentRow -> InvoiceRow]
    /\ link \in [DocumentRow -> LinkRow]
    /\ template \in [DocumentRow -> TemplateRow]
    /\ \A m \in DocumentRow : method[m] = NoMethod \/ method[m].customer \in DocumentRow
    /\ \A i \in Invoices : invoice[i].customer \in DocumentRow
    /\ \A t \in DocumentRow : template[t] = NoTemplate \/ template[t].name \in DocumentName

DocRecordOK ==
    /\ crossed \subseteq (DocumentTables \X (DocumentName \cup DocumentRow \cup {None}))
    /\ renamed \subseteq DocumentName
    /\ cut \cup had \cup revived \subseteq DocumentRow

LEMMA DocBaseKeeps ==
    ASSUME DocsBase, NEW q \in DocumentCall, DocsTurn(q), DocRowsOK', DocRecordOK'
    PROVE  DocsBase'
<1>1. DocumentsTypeOK'
  BY DEF DocumentsTypeOK, DocsTurn, DocRowsOK, DocRecordOK
<1>2. \A o \in DocumentCall : DocFits(call'[o])
  BY DEF DocsTurn, DocsBase
<1>3. DocsThere'
  BY DEF DocsThere, DocRowsOK
<1>4. \A o \in DocumentCall : DocFits(call[o])'
  BY <1>2 DEF DocFits
<1> QED  BY <1>1, <1>3, <1>4 DEF DocsBase

LEMMA DocRowsStay == DocsBase => DocRowsOK /\ DocRecordOK
BY DEF DocsBase, DocumentsTypeOK, DocsThere, DocRowsOK, DocRecordOK

\* The steps that leave the rows alone.
LEMMA DocCallsBase ==
    ASSUME DocsBase, NEW q \in DocumentCall, DocsTurn(q), UNCHANGED tables, DocRecordOK'
    PROVE  DocsBase'
<1>1. DocRowsOK'
  BY DocRowsStay DEF tables, DocRowsOK, Invoices
<1> QED  BY <1>1, DocBaseKeeps

\* Customers and their methods.
LEMMA DocCustomers ==
    ASSUME DocsBase, NEW q \in DocumentCall,
           \/ CustomerEndpoints(q) \/ SaveCustomer(q) \/ ClearDefaults(q) \/ SaveMethod(q)
    PROVE  DocsTurn(q) /\ DocsBase'
<1> USE DocRowsStay
<1>1. ASSUME NEW n \in DocumentName, CreateCustomer(q, n) PROVE DocsTurn(q) /\ DocsBase'
  <2> DEFINE taken == \E c \in DocumentRow : customer[c] = n
  <2>1. Reserve(q, "customer", n, taken)
    BY <1>1 DEF CreateCustomer
  <2> HIDE DEF taken
  <2>2. DocsTurn(q) /\ ~call'[q].at \in {"edit", "withdraw"}
        /\ crossed' \subseteq (DocumentTables \X (DocumentName \cup DocumentRow \cup {None}))
    BY <2>1, DocReserves
  <2>3. UNCHANGED tables /\ DocRecordOK'
    BY <2>1, <2>2 DEF Reserve, DocRecordOK
  <2> QED  BY <2>2, <2>3, DocCallsBase
<1>2. ASSUME NEW c \in DocumentRow, NEW isDefault \in BOOLEAN, AddPaymentMethod(q, c, isDefault)
      PROVE  DocsTurn(q) /\ DocsBase'
  <2> DEFINE at == IF isDefault THEN "clear" ELSE "method"
             l == [NewDocumentCall EXCEPT !.at = at, !.id = c, !.isDefault = isDefault]
  <2>1. at \in DocumentStep /\ (at = "clear" => isDefault) /\ at \in {"clear", "method"}
    BY DEF DocumentStep
  <2> HIDE DEF at
  <2>2. l \in DocumentLocal /\ l.at = at /\ l.id = c /\ (l.isDefault <=> isDefault)
    BY <2>1, DocNames DEF DocumentLocal
  <2>3. DocumentGoes(q, l) /\ UNCHANGED tables /\ UNCHANGED docHistory
    BY <1>2 DEF AddPaymentMethod, at
  <2> HIDE DEF l
  <2>4. DocFits(l)
    BY <2>1, <2>2 DEF DocFits
  <2>5. DocsTurn(q) /\ call'[q] = l
    BY <2>2, <2>3, <2>4, DocGoes DEF docHistory
  <2>6. DocRecordOK'
    BY <2>3 DEF docHistory, DocRecordOK
  <2> QED  BY <2>1, <2>2, <2>3, <2>5, <2>6, DocCallsBase
<1>3. ASSUME NEW m \in DocumentRow, RemovePaymentMethod(q, m) PROVE DocsTurn(q) /\ DocsBase'
  <2>1. DocsTurn(q) /\ call'[q].at = "end"
    BY <1>3, DocEnds DEF RemovePaymentMethod
  <2>2. DocRowsOK' /\ DocRecordOK'
    BY <1>3, DocNames DEF RemovePaymentMethod, DocRowsOK, DocRecordOK, Invoices
  <2> QED  BY <1>3, <2>1, <2>2, DocBaseKeeps DEF RemovePaymentMethod
<1>4. ASSUME SaveCustomer(q) PROVE DocsTurn(q) /\ DocsBase'
  <2>1. DocsTurn(q) /\ call'[q].at = "end"
    BY <1>4, DocEnds DEF SaveCustomer, docHistory
  <2>2. DocRowsOK' /\ DocRecordOK'
    BY <1>4 DEF SaveCustomer, DocRowsOK, DocRecordOK, Invoices, docHistory, CustomerRow,
       DocsBase, DocFits
  <2> QED  BY <1>4, <2>1, <2>2, DocBaseKeeps DEF SaveCustomer
<1>5. ASSUME ClearDefaults(q) PROVE DocsTurn(q) /\ DocsBase'
  <2> DEFINE l == [call[q] EXCEPT !.at = "method"]
  <2>1. l \in DocumentLocal /\ l.at = "method" /\ l.id = call[q].id /\ DocumentGoes(q, l)
    BY <1>5 DEF ClearDefaults, DocsBase, DocumentsTypeOK, DocumentLocal, DocumentStep
  <2> HIDE DEF l
  <2>2. call[q].id \in DocumentRow /\ DocFits(l)
    BY <1>5, <2>1 DEF ClearDefaults, DocsBase, DocFits
  <2>3. crossed \subseteq crossed'
        /\ crossed' \subseteq (DocumentTables \X (DocumentName \cup DocumentRow \cup {None}))
    BY <1>5, <2>2, DocMeets DEF ClearDefaults, DocumentTables
  <2>4. DocsTurn(q) /\ call'[q] = l
    BY <1>5, <2>1, <2>2, <2>3, DocGoes DEF ClearDefaults
  <2>5. \A m \in DocumentRow : /\ method'[m] \in MethodRow
                               /\ method'[m].customer = method[m].customer
                               /\ method[m] = NoMethod => method'[m] = NoMethod
    <3> TAKE m \in DocumentRow
    <3>1. method[m] \in MethodRow
      BY DEF DocRowsOK
    <3>2. method'[m] \in {method[m], [method[m] EXCEPT !.isDefault = FALSE]}
      BY <1>5 DEF ClearDefaults
    <3>3. method[m] = NoMethod => method'[m] = method[m]
      BY <1>5, <2>2, DocNames DEF ClearDefaults, NoMethod
    <3> QED  BY <3>1, <3>2, <3>3 DEF MethodRow
  <2>6. method' \in [DocumentRow -> MethodRow]
    BY <1>5, <2>5 DEF ClearDefaults
  <2>7. DocRowsOK' /\ DocRecordOK'
    BY <1>5, <2>3, <2>5, <2>6 DEF ClearDefaults, DocRowsOK, DocRecordOK, Invoices
  <2> QED  BY <1>5, <2>1, <2>4, <2>7, DocBaseKeeps DEF ClearDefaults
<1>6. ASSUME SaveMethod(q) PROVE DocsTurn(q) /\ DocsBase'
  <2>1. DocsTurn(q) /\ call'[q].at = "end"
    BY <1>6, DocEnds DEF SaveMethod
  <2>2. call[q].id \in DocumentRow /\ call[q].isDefault \in BOOLEAN
    BY <1>6 DEF SaveMethod, DocsBase, DocumentsTypeOK, DocFits, DocumentLocal
  <2> DEFINE row == [customer |-> call[q].id, isDefault |-> call[q].isDefault]
  <2>3. row \in MethodRow /\ row.customer \in DocumentRow
    BY <2>2 DEF MethodRow
  <2>4. PICK m \in DocumentRow : method' = [method EXCEPT ![m] = row]
    BY <1>6 DEF SaveMethod
  <2> HIDE DEF row
  <2>5. DocRowsOK' /\ DocRecordOK'
    BY <1>6, <2>2, <2>3, <2>4 DEF SaveMethod, DocRowsOK, DocRecordOK, Invoices
  <2> QED  BY <1>6, <2>1, <2>5, DocBaseKeeps DEF SaveMethod
<1> QED  BY <1>1, <1>2, <1>3, <1>4, <1>5, <1>6 DEF CustomerEndpoints

\* Invoices, links and templates.
LEMMA DocPapers ==
    ASSUME DocsBase, NEW q \in DocumentCall,
           \/ InvoiceEndpoints(q) \/ GenerateInvoiceNumber(q) \/ SaveInvoice(q)
           \/ LinkEndpoints(q) \/ SaveLink(q)
    PROVE  DocsTurn(q) /\ DocsBase'
<1> USE DocRowsStay
<1>1. ASSUME NEW c \in DocumentRow, CreateInvoice(q, c) PROVE DocsTurn(q) /\ DocsBase'
  <2> DEFINE l == [NewDocumentCall EXCEPT !.at = "count", !.id = c]
  <2>1. l \in DocumentLocal /\ l.at = "count" /\ l.id = c
    BY DocNames DEF DocumentLocal, DocumentStep
  <2>2. DocumentGoes(q, l) /\ UNCHANGED tables /\ UNCHANGED docHistory
    BY <1>1 DEF CreateInvoice
  <2> HIDE DEF l
  <2>3. DocFits(l)
    BY <2>1 DEF DocFits
  <2>4. DocsTurn(q) /\ call'[q] = l
    BY <2>1, <2>2, <2>3, DocGoes DEF docHistory
  <2>5. DocRecordOK'
    BY <2>2 DEF docHistory, DocRecordOK
  <2> QED  BY <2>1, <2>2, <2>4, <2>5, DocCallsBase
<1>2. ASSUME NEW i \in DocumentRow, NEW s \in InvoiceStatus, UpdateInvoiceStatus(q, i, s)
      PROVE  DocsTurn(q) /\ DocsBase'
  <2>1. DocsTurn(q) /\ call'[q].at = "end"
    BY <1>2, DocEnds DEF UpdateInvoiceStatus, docHistory
  <2>2. invoice[i] \in InvoiceRow /\ invoice[i].customer \in DocumentRow
    BY <1>2 DEF UpdateInvoiceStatus, DocRowsOK
  <2> DEFINE row == [invoice[i] EXCEPT !.status = s]
  <2>3. row \in InvoiceRow /\ row.customer = invoice[i].customer
    BY <2>2 DEF InvoiceRow
  <2>4. invoice' = [invoice EXCEPT ![i] = row]
    BY <1>2 DEF UpdateInvoiceStatus
  <2> HIDE DEF row
  <2>5. DocRowsOK' /\ DocRecordOK'
    BY <1>2, <2>2, <2>3, <2>4 DEF UpdateInvoiceStatus, DocRowsOK, DocRecordOK, Invoices, docHistory
  <2> QED  BY <1>2, <2>1, <2>5, DocBaseKeeps DEF UpdateInvoiceStatus
<1>3. ASSUME GenerateInvoiceNumber(q) PROVE DocsTurn(q) /\ DocsBase'
  <2> DEFINE l == [call[q] EXCEPT !.at = "invoice", !.number = Cardinality(Invoices) + 1]
  <2>1. Cardinality(Invoices) + 1 \in Nat
    BY DocumentAssumption, FS_Subset, FS_CardinalityType DEF Invoices
  <2>2. call[q] \in DocumentLocal
    BY DEF DocsBase, DocumentsTypeOK
  <2>3. l \in DocumentLocal /\ l.at = "invoice" /\ l.id = call[q].id
    BY <2>1, <2>2 DEF DocumentLocal, DocumentStep
  <2>4. DocumentGoes(q, l) /\ UNCHANGED <<tables, renamed, cut, had, revived>>
    BY <1>3 DEF GenerateInvoiceNumber
  <2> HIDE DEF l
  <2>5. call[q].id \in DocumentRow /\ DocFits(l)
    BY <1>3, <2>3 DEF GenerateInvoiceNumber, DocsBase, DocFits
  <2>6. crossed \subseteq crossed'
        /\ crossed' \subseteq (DocumentTables \X (DocumentName \cup DocumentRow \cup {None}))
    BY <1>3 DEF GenerateInvoiceNumber, DocumentTables, DocRecordOK
  <2>7. DocsTurn(q) /\ call'[q] = l
    BY <2>3, <2>4, <2>5, <2>6, DocGoes
  <2>8. DocRecordOK'
    BY <2>4, <2>6 DEF DocRecordOK
  <2> QED  BY <2>3, <2>4, <2>7, <2>8, DocCallsBase
<1>4. ASSUME SaveInvoice(q) PROVE DocsTurn(q) /\ DocsBase'
  <2>1. DocsTurn(q) /\ call'[q].at = "end"
    BY <1>4, DocEnds DEF SaveInvoice, docHistory
  <2> DEFINE row == [customer |-> call[q].id, status |-> "draft", number |-> call[q].number]
  <2>2. call[q].id \in DocumentRow /\ call[q].number \in Nat
    BY <1>4 DEF SaveInvoice, DocsBase, DocumentsTypeOK, DocFits, DocumentLocal
  <2>3. row \in InvoiceRow /\ row.customer \in DocumentRow
    BY <2>2 DEF InvoiceRow, InvoiceStatus
  <2>4. PICK i \in DocumentRow \ Invoices : invoice' = [invoice EXCEPT ![i] = row]
    BY <1>4 DEF SaveInvoice
  <2> HIDE DEF row
  <2>5. DocRowsOK' /\ DocRecordOK'
    BY <1>4, <2>3, <2>4 DEF SaveInvoice, DocRowsOK, DocRecordOK, Invoices, docHistory
  <2> QED  BY <1>4, <2>1, <2>5, DocBaseKeeps DEF SaveInvoice
<1>5. ASSUME NEW n \in DocumentName, CreateLink(q, n) PROVE DocsTurn(q) /\ DocsBase'
  <2> DEFINE taken == \E k \in DocumentRow : link[k].slug = n
  <2>1. Reserve(q, "link", n, taken)
    BY <1>5 DEF CreateLink
  <2> HIDE DEF taken
  <2>2. DocsTurn(q) /\ ~call'[q].at \in {"edit", "withdraw"}
        /\ crossed' \subseteq (DocumentTables \X (DocumentName \cup DocumentRow \cup {None}))
    BY <2>1, DocReserves
  <2>3. UNCHANGED tables /\ DocRecordOK'
    BY <2>1, <2>2 DEF Reserve, DocRecordOK
  <2> QED  BY <2>2, <2>3, DocCallsBase
<1>6. ASSUME NEW k \in DocumentRow, DeactivateLink(q, k) PROVE DocsTurn(q) /\ DocsBase'
  <2>1. DocsTurn(q) /\ call'[q].at = "end"
    BY <1>6, DocEnds DEF DeactivateLink, docHistory
  <2> DEFINE row == [link[k] EXCEPT !.isActive = FALSE]
  <2>2. row \in LinkRow
    BY DEF DocRowsOK, LinkRow
  <2>3. link' = [link EXCEPT ![k] = row]
    BY <1>6 DEF DeactivateLink
  <2> HIDE DEF row
  <2>4. link' \in [DocumentRow -> LinkRow]
    BY <2>2, <2>3 DEF DocRowsOK
  <2>5. DocRowsOK' /\ DocRecordOK'
    BY <1>6, <2>4 DEF DeactivateLink, DocRowsOK, DocRecordOK, Invoices, docHistory
  <2> QED  BY <1>6, <2>1, <2>5, DocBaseKeeps DEF DeactivateLink
<1>7. ASSUME SaveLink(q) PROVE DocsTurn(q) /\ DocsBase'
  <2>1. DocsTurn(q) /\ call'[q].at = "end"
    BY <1>7, DocEnds DEF SaveLink, docHistory
  <2> DEFINE row == [slug |-> call[q].name, isActive |-> TRUE]
  <2>2. row \in LinkRow
    BY <1>7 DEF SaveLink, LinkRow, DocsBase, DocFits
  <2>3. \/ UNCHANGED link
        \/ \E k \in DocumentRow : link' = [link EXCEPT ![k] = row]
    BY <1>7 DEF SaveLink
  <2> HIDE DEF row
  <2>4. link' \in [DocumentRow -> LinkRow]
    BY <2>2, <2>3 DEF DocRowsOK
  <2>5. DocRowsOK' /\ DocRecordOK'
    BY <1>7, <2>4 DEF SaveLink, DocRowsOK, DocRecordOK, Invoices, docHistory
  <2> QED  BY <1>7, <2>1, <2>5, DocBaseKeeps DEF SaveLink
<1> QED  BY <1>1, <1>2, <1>3, <1>4, <1>5, <1>6, <1>7 DEF InvoiceEndpoints, LinkEndpoints

\* Templates, and the calls that fail.
LEMMA DocTemplates ==
    ASSUME DocsBase, NEW q \in DocumentCall,
           TemplateEndpoints(q) \/ SaveNewTemplate(q) \/ SaveTemplate(q) \/ DocumentCallFails(q)
    PROVE  DocsTurn(q) /\ DocsBase'
<1> USE DocRowsStay
<1>1. ASSUME NEW n \in DocumentName, CreateTemplate(q, n) PROVE DocsTurn(q) /\ DocsBase'
  <2> DEFINE taken == \E t \in DocumentRow : template[t].mine /\ template[t].name = n
  <2>1. Reserve(q, "template", n, taken)
    BY <1>1 DEF CreateTemplate
  <2> HIDE DEF taken
  <2>2. DocsTurn(q)
        /\ crossed' \subseteq (DocumentTables \X (DocumentName \cup DocumentRow \cup {None}))
    BY <2>1, DocReserves
  <2>3. UNCHANGED tables /\ DocRecordOK'
    BY <2>1, <2>2 DEF Reserve, DocRecordOK
  <2> QED  BY <2>2, <2>3, DocCallsBase
<1>2. ASSUME NEW t \in DocumentRow, DeactivateTemplate(q, t) PROVE DocsTurn(q) /\ DocsBase'
  <2> DEFINE row == [template[t] EXCEPT !.isActive = FALSE]
  <2>1. FindTemplate(q, t, t, "withdraw", row) /\ UNCHANGED <<renamed, revived>>
    BY <1>2 DEF DeactivateTemplate
  <2>2. template[t] \in TemplateRow /\ template[t].name \in DocumentName
    BY <2>1 DEF FindTemplate, DocRowsOK
  <2>3. row \in TemplateRow /\ row.name \in DocumentName
    BY <2>2 DEF TemplateRow
  <2> HIDE DEF row
  <2>4. DocsTurn(q)
    BY <2>1, <2>3, DocFinds
  <2>5. UNCHANGED tables /\ DocRecordOK'
    BY <2>1 DEF FindTemplate, DocRecordOK
  <2> QED  BY <2>4, <2>5, DocCallsBase
<1>3. ASSUME NEW t \in DocumentRow, NEW e \in TemplateEdit, UpdateTemplate(q, t, e)
      PROVE  DocsTurn(q) /\ DocsBase'
  <2> DEFINE row == Assigned(template[t], e)
             id == Aimed(t, e)
  <2>1. /\ FindTemplate(q, t, id, "edit", row) /\ Renames(t, e)
        /\ revived' = revived \/ revived' = revived \cup {id}
    BY <1>3 DEF UpdateTemplate
  <2>2. template[t] \in TemplateRow /\ template[t].name \in DocumentName
    BY <2>1 DEF FindTemplate, DocRowsOK
  <2>3. row \in TemplateRow /\ row.name \in DocumentName /\ id \in DocumentRow
    BY <2>2, DocAssigns
  <2>4. e.name \in DocumentName \cup {Same} /\ template[id].name \in DocumentName \cup {None}
    BY <2>3 DEF TemplateEdit, DocRowsOK, TemplateRow
  <2>5. renamed \subseteq renamed' /\ renamed' \subseteq DocumentName
    BY <2>1, <2>2, <2>4 DEF Renames, DocRecordOK
  <2>6. revived \subseteq revived' /\ revived' \subseteq DocumentRow
    BY <2>1, <2>3 DEF DocRecordOK
  <2> HIDE DEF row, id
  <2>7. DocsTurn(q)
    BY <2>1, <2>3, <2>5, <2>6, DocFinds
  <2>8. UNCHANGED tables /\ DocRecordOK'
    BY <2>1, <2>5, <2>6 DEF FindTemplate, DocRecordOK
  <2> QED  BY <2>7, <2>8, DocCallsBase
<1>4. ASSUME SaveNewTemplate(q) PROVE DocsTurn(q) /\ DocsBase'
  <2>1. DocsTurn(q) /\ call'[q].at = "end"
    BY <1>4, DocEnds DEF SaveNewTemplate, docHistory
  <2> DEFINE row == [name |-> call[q].name, isActive |-> TRUE, mine |-> TRUE]
  <2>2. row \in TemplateRow /\ row.name \in DocumentName
    BY <1>4 DEF SaveNewTemplate, TemplateRow, DocsBase, DocFits
  <2>3. PICK t \in DocumentRow : template' = [template EXCEPT ![t] = row]
    BY <1>4 DEF SaveNewTemplate
  <2> HIDE DEF row
  <2>4. DocRowsOK' /\ DocRecordOK'
    BY <1>4, <2>2, <2>3 DEF SaveNewTemplate, DocRowsOK, DocRecordOK, Invoices, docHistory
  <2> QED  BY <2>1, <2>4, DocBaseKeeps
<1>5. ASSUME SaveTemplate(q) PROVE DocsTurn(q) /\ DocsBase'
  <2>1. call[q].id \in DocumentRow /\ call[q].row \in TemplateRow /\ call[q].row.name \in DocumentName
    BY <1>5 DEF SaveTemplate, DocsBase, DocumentsTypeOK, DocumentLocal, DocFits
  <2>2. revived \subseteq revived' /\ revived' \subseteq DocumentRow
    BY <1>5, <2>1 DEF SaveTemplate, DocRecordOK
  <2>3. DocsTurn(q) /\ call'[q].at = "end"
    BY <1>5, <2>2, DocEnds DEF SaveTemplate
  <2>4. DocRowsOK' /\ DocRecordOK'
    BY <1>5, <2>1, <2>2 DEF SaveTemplate, DocRowsOK, DocRecordOK, Invoices
  <2> QED  BY <2>3, <2>4, DocBaseKeeps
<1>6. ASSUME DocumentCallFails(q) PROVE DocsTurn(q) /\ DocsBase'
  <2>1. cut \subseteq cut' /\ cut' \subseteq DocumentRow
    BY <1>6 DEF DocumentCallFails, DocRecordOK, DocsBase, DocFits
  <2>2. DocsTurn(q) /\ call'[q].at = "end"
    BY <1>6, <2>1, DocEnds DEF DocumentCallFails
  <2>3. UNCHANGED tables /\ DocRecordOK'
    BY <1>6, <2>1 DEF DocumentCallFails, DocRecordOK
  <2> QED  BY <2>2, <2>3, DocCallsBase
<1> QED  BY <1>1, <1>2, <1>3, <1>4, <1>5, <1>6 DEF TemplateEndpoints

DocumentActs(q) ==
    \/ CustomerEndpoints(q) \/ InvoiceEndpoints(q)
    \/ LinkEndpoints(q) \/ TemplateEndpoints(q)
    \/ SaveCustomer(q) \/ ClearDefaults(q) \/ SaveMethod(q)
    \/ GenerateInvoiceNumber(q) \/ SaveInvoice(q)
    \/ SaveLink(q) \/ SaveNewTemplate(q) \/ SaveTemplate(q)
    \/ DocumentCallFails(q)

LEMMA DocBaseStep ==
    ASSUME DocsBase, NEW q \in DocumentCall, DocumentActs(q)
    PROVE  DocsTurn(q) /\ DocsBase'
BY DocCustomers, DocPapers, DocTemplates DEF DocumentActs

\* Who writes the rows of a table, and how a call comes to the step before.
DocsWork(q) ==
    /\ customer' = customer \/ SaveCustomer(q)
    /\ template' = template \/ SaveNewTemplate(q) \/ SaveTemplate(q)
    /\ link' = link \/ SaveLink(q) \/ \E k \in DocumentRow : DeactivateLink(q, k)
    /\ \/ invoice' = invoice \/ SaveInvoice(q)
       \/ \E i \in DocumentRow, s \in InvoiceStatus : UpdateInvoiceStatus(q, i, s)
    /\ \/ method' = method /\ had' = had
       \/ ClearDefaults(q) \/ SaveMethod(q) \/ \E m \in DocumentRow : RemovePaymentMethod(q, m)
    /\ call[q].at = "method" => SaveMethod(q) \/ DocumentCallFails(q)
    /\ call'[q].at = "customer" => \E n \in DocumentName : CreateCustomer(q, n)
    /\ call'[q].at = "template" => \E n \in DocumentName : CreateTemplate(q, n)
    /\ call'[q].at = "invoice" => GenerateInvoiceNumber(q)
    /\ call'[q].at = "method" => ClearDefaults(q) \/ \E c \in DocumentRow : AddPaymentMethod(q, c, FALSE)
    /\ call'[q].at \in {"edit", "withdraw"} =>
           \E t \in DocumentRow : \/ DeactivateTemplate(q, t)
                                  \/ \E e \in TemplateEdit : UpdateTemplate(q, t, e)

LEMMA DocsDivided ==
    ASSUME DocsBase, NEW q \in DocumentCall, DocumentActs(q)
    PROVE  DocsWork(q)
<1>1. call[q] \in DocumentLocal /\ q \in DOMAIN call
  BY DEF DocsBase, DocumentsTypeOK
<1>2. ASSUME NEW kind, NEW n, NEW taken, Reserve(q, kind, n, taken)
      PROVE  call'[q].at \in {"end", kind} /\ UNCHANGED tables /\ had' = had /\ call[q].at = "new"
  <2>1. CASE taken
    BY <1>1, <1>2, <2>1 DEF Reserve, DocumentEnds, DocumentLocal
  <2>2. CASE ~taken
    BY <1>1, <1>2, <2>2 DEF Reserve, DocumentGoes, NewDocumentCall
  <2> QED  BY <2>1, <2>2
<1>3. ASSUME NEW t, NEW id, NEW at, NEW row, FindTemplate(q, t, id, at, row)
      PROVE  call'[q].at = at /\ UNCHANGED tables /\ had' = had /\ call[q].at = "new"
  BY <1>1, <1>3 DEF FindTemplate, DocumentGoes, NewDocumentCall
<1>4. ASSUME DocumentEnds(q) PROVE call'[q].at = "end"
  BY <1>1, <1>4 DEF DocumentEnds, DocumentLocal
<1>5. CASE CustomerEndpoints(q)
  <2>1. ASSUME NEW n \in DocumentName, CreateCustomer(q, n) PROVE DocsWork(q)
    <3> DEFINE taken == \E c \in DocumentRow : customer[c] = n
    <3>1. Reserve(q, "customer", n, taken)
      BY <2>1 DEF CreateCustomer
    <3> HIDE DEF taken
    <3>2. call'[q].at \in {"end", "customer"} /\ UNCHANGED tables /\ had' = had /\ call[q].at = "new"
      BY <1>2, <3>1
    <3> QED  BY <2>1, <3>2 DEF DocsWork, tables
  <2>2. ASSUME NEW c \in DocumentRow, NEW b \in BOOLEAN, AddPaymentMethod(q, c, b) PROVE DocsWork(q)
    <3>1. call'[q].at = IF b THEN "clear" ELSE "method"
      BY <1>1, <2>2 DEF AddPaymentMethod, DocumentGoes, NewDocumentCall
    <3>2. b \/ b = FALSE
      OBVIOUS
    <3>3. UNCHANGED tables /\ had' = had /\ call[q].at = "new"
      BY <2>2 DEF AddPaymentMethod, docHistory
    <3>4. call'[q].at = "method" => AddPaymentMethod(q, c, FALSE)
      BY <2>2, <3>1, <3>2
    <3> QED  BY <3>1, <3>3, <3>4 DEF DocsWork, tables
  <2>3. ASSUME NEW m \in DocumentRow, RemovePaymentMethod(q, m) PROVE DocsWork(q)
    BY <1>4, <2>3 DEF RemovePaymentMethod, DocsWork
  <2> QED  BY <1>5, <2>1, <2>2, <2>3 DEF CustomerEndpoints
<1>6. CASE InvoiceEndpoints(q)
  <2>1. ASSUME NEW c \in DocumentRow, CreateInvoice(q, c) PROVE DocsWork(q)
    <3>1. call'[q].at = "count"
      BY <1>1, <2>1 DEF CreateInvoice, DocumentGoes, NewDocumentCall
    <3> QED  BY <2>1, <3>1 DEF CreateInvoice, DocsWork, tables, docHistory
  <2>2. ASSUME NEW i \in DocumentRow, NEW s \in InvoiceStatus, UpdateInvoiceStatus(q, i, s)
        PROVE  DocsWork(q)
    BY <1>4, <2>2 DEF UpdateInvoiceStatus, DocsWork, docHistory
  <2> QED  BY <1>6, <2>1, <2>2 DEF InvoiceEndpoints
<1>7. CASE LinkEndpoints(q)
  <2>1. ASSUME NEW n \in DocumentName, CreateLink(q, n) PROVE DocsWork(q)
    <3> DEFINE taken == \E k \in DocumentRow : link[k].slug = n
    <3>1. Reserve(q, "link", n, taken)
      BY <2>1 DEF CreateLink
    <3> HIDE DEF taken
    <3>2. call'[q].at \in {"end", "link"} /\ UNCHANGED tables /\ had' = had /\ call[q].at = "new"
      BY <1>2, <3>1
    <3> QED  BY <2>1, <3>2 DEF DocsWork, tables
  <2>2. ASSUME NEW k \in DocumentRow, DeactivateLink(q, k) PROVE DocsWork(q)
    BY <1>4, <2>2 DEF DeactivateLink, DocsWork, docHistory
  <2> QED  BY <1>7, <2>1, <2>2 DEF LinkEndpoints
<1>8. CASE TemplateEndpoints(q)
  <2>1. ASSUME NEW n \in DocumentName, CreateTemplate(q, n) PROVE DocsWork(q)
    <3> DEFINE taken == \E t \in DocumentRow : template[t].mine /\ template[t].name = n
    <3>1. Reserve(q, "template", n, taken)
      BY <2>1 DEF CreateTemplate
    <3> HIDE DEF taken
    <3>2. call'[q].at \in {"end", "template"} /\ UNCHANGED tables /\ had' = had /\ call[q].at = "new"
      BY <1>2, <3>1
    <3> QED  BY <2>1, <3>2 DEF DocsWork, tables
  <2>2. ASSUME NEW t \in DocumentRow,
               DeactivateTemplate(q, t) \/ \E e \in TemplateEdit : UpdateTemplate(q, t, e)
        PROVE  DocsWork(q)
    <3>1. call'[q].at \in {"edit", "withdraw"} /\ UNCHANGED tables /\ had' = had /\ call[q].at = "new"
      BY <1>3, <2>2 DEF DeactivateTemplate, UpdateTemplate
    <3> QED  BY <2>2, <3>1 DEF DocsWork, tables
  <2> QED  BY <1>8, <2>1, <2>2 DEF TemplateEndpoints
<1>9. CASE ClearDefaults(q) \/ GenerateInvoiceNumber(q)
  <2>1. ClearDefaults(q) => call'[q].at = "method"
    BY <1>1 DEF ClearDefaults, DocumentGoes, DocumentLocal
  <2>2. GenerateInvoiceNumber(q) => call'[q].at = "invoice"
    BY <1>1 DEF GenerateInvoiceNumber, DocumentGoes, DocumentLocal
  <2> QED  BY <1>9, <2>1, <2>2 DEF ClearDefaults, GenerateInvoiceNumber, DocsWork, tables
<1>10. CASE SaveCustomer(q) \/ SaveMethod(q) \/ SaveInvoice(q)
  BY <1>4, <1>10 DEF SaveCustomer, SaveMethod, SaveInvoice, DocsWork, docHistory
<1>11. CASE SaveLink(q) \/ SaveNewTemplate(q) \/ SaveTemplate(q)
  BY <1>4, <1>11 DEF SaveLink, SaveNewTemplate, SaveTemplate, DocsWork, docHistory
<1>12. CASE DocumentCallFails(q)
  BY <1>4, <1>12 DEF DocumentCallFails, DocsWork, tables
<1> QED  BY <1>5, <1>6, <1>7, <1>8, <1>9, <1>10, <1>11, <1>12 DEF DocumentActs

-----------------------------------------------------------------------------
(* Names.                                                                   *)

\* A call that is to save a name meets it only where the record says why.
CustomersTaken ==
    /\ \A q, o \in DocumentCall :
           q # o /\ call[q].at = "customer" /\ call[o].at = "customer" /\ call[q].name = call[o].name
               => <<"customer", call[q].name>> \in crossed
    /\ \A q \in DocumentCall, c \in DocumentRow :
           call[q].at = "customer" /\ customer[c] = call[q].name
               => <<"customer", call[q].name>> \in crossed
    /\ \A a, b \in DocumentRow : a # b /\ customer[a] = customer[b] =>
           customer[a] = None \/ <<"customer", customer[a]>> \in crossed

TemplateCreations ==
    \A q, o \in DocumentCall :
        q # o /\ call[q].at = "template" /\ call[o].at = "template" /\ call[q].name = call[o].name
            => <<"template", call[q].name>> \in crossed

TemplateMeets ==
    \A q \in DocumentCall, t \in DocumentRow :
        call[q].at = "template" /\ template[t].mine /\ template[t].name = call[q].name
            => call[q].name \in renamed \/ <<"template", call[q].name>> \in crossed

TemplateTwins ==
    \A a, b \in DocumentRow :
        a # b /\ template[a].mine /\ template[b].mine /\ template[a].name = template[b].name =>
            template[a].name \in renamed \cup {None} \/ <<"template", template[a].name>> \in crossed

TemplatesTaken == TemplateCreations /\ TemplateMeets /\ TemplateTwins

\* Two rows are one another's for the lookup of a name, or both names are on record.
SameTemplate(r, s, record) ==
    \/ r.name = s.name /\ r.mine = s.mine
    \/ {r.name, s.name} \subseteq record \cup {None}

\* A template that is loaded has the name and the merchant of the row that it is
\* to be saved over, unless both names are on record.
TemplatesHeld ==
    \A q \in DocumentCall : call[q].at \in {"edit", "withdraw"} =>
        SameTemplate(call[q].row, template[call[q].id], renamed)

LinksTaken ==
    \A a, b \in DocumentRow : a # b /\ link[a].slug = link[b].slug => link[a].slug = None

LEMMA DocReserved ==
    ASSUME DocsBase, NEW q \in DocumentCall, NEW kind \in {"customer", "link", "template"},
           NEW n \in DocumentName, NEW taken, Reserve(q, kind, n, taken), call'[q].at = kind
    PROVE  /\ call'[q].name = n /\ ~taken
           /\ \A o \in DocumentCall \ {q} :
                  call[o].at = kind /\ call[o].name = n => <<kind, n>> \in crossed'
<1>1. call'[q].name = n /\ ~taken
  BY DocReserves
<1>2. Meets(q, kind, kind, n)
  BY <1>1 DEF Reserve
<1> QED  BY <1>1, <1>2 DEF Meets

LEMMA CustomersKeep ==
    ASSUME DocsBase, NEW q \in DocumentCall, DocumentActs(q), CustomersTaken
    PROVE  CustomersTaken'
<1>1. DocsTurn(q) /\ DocsWork(q)
  BY DocBaseStep, DocsDivided
<1>2. CASE SaveCustomer(q)
  <2>1. PICK c \in DocumentRow : customer' = [customer EXCEPT ![c] = call[q].name]
    BY <1>2 DEF SaveCustomer
  <2>2. call[q].at = "customer" /\ call'[q].at = "end"
    BY <1>2, DocEnds DEF SaveCustomer, docHistory
  <2>3. crossed' = crossed /\ customer \in [DocumentRow -> CustomerRow]
    BY <1>2 DEF SaveCustomer, docHistory, DocsBase, DocumentsTypeOK
  <2> QED  BY <1>1, <2>1, <2>2, <2>3 DEF CustomersTaken, DocsTurn
<1>3. CASE ~SaveCustomer(q) /\ call'[q].at = "customer"
  <2>1. PICK n \in DocumentName : CreateCustomer(q, n)
    BY <1>1, <1>3 DEF DocsWork
  <2> DEFINE taken == \E c \in DocumentRow : customer[c] = n
  <2>2. Reserve(q, "customer", n, taken)
    BY <2>1 DEF CreateCustomer
  <2> HIDE DEF taken
  <2>3. /\ call'[q].name = n /\ ~taken
        /\ \A o \in DocumentCall \ {q} :
               call[o].at = "customer" /\ call[o].name = n => <<"customer", n>> \in crossed'
    BY <1>3, <2>2, DocReserved
  <2>4. \A c \in DocumentRow : customer[c] # n
    BY <2>3 DEF taken
  <2>5. customer' = customer
    BY <2>1 DEF CreateCustomer, Reserve, tables
  <2> QED  BY <1>1, <2>3, <2>4, <2>5 DEF CustomersTaken, DocsTurn
<1>4. CASE ~SaveCustomer(q) /\ call'[q].at # "customer"
  <2>1. customer' = customer
    BY <1>1, <1>4 DEF DocsWork
  <2> QED  BY <1>1, <1>4, <2>1 DEF CustomersTaken, DocsTurn
<1> QED  BY <1>2, <1>3, <1>4

LEMMA TemplatesKeep ==
    ASSUME DocsBase, NEW q \in DocumentCall, DocumentActs(q), TemplatesTaken, TemplatesHeld
    PROVE  TemplatesTaken' /\ TemplatesHeld'
<1>1. DocsTurn(q) /\ DocsWork(q)
  BY DocBaseStep, DocsDivided
<1>2. template \in [DocumentRow -> TemplateRow] /\ renamed \subseteq DocumentName
  BY DEF DocsBase, DocumentsTypeOK
<1>3. \A o \in DocumentCall : /\ call[o].at \in {"edit", "withdraw"} => call[o].id \in DocumentRow
                              /\ call[o].at = "template" => call[o].name \in DocumentName
  BY DEF DocsBase, DocFits
<1>4. CASE SaveNewTemplate(q)
  <2> DEFINE row == [name |-> call[q].name, isActive |-> TRUE, mine |-> TRUE]
  <2>1. PICK t \in DocumentRow :
            /\ template[t] = NoTemplate /\ template' = [template EXCEPT ![t] = row]
            /\ \A o \in DocumentCall : call[o].at \in {"edit", "withdraw"} => call[o].id # t
    BY <1>4 DEF SaveNewTemplate
  <2>2. row.name = call[q].name
    OBVIOUS
  <2> HIDE DEF row
  <2>3. call[q].at = "template" /\ call'[q].at = "end"
    BY <1>4, DocEnds DEF SaveNewTemplate, docHistory
  <2>4. crossed' = crossed /\ renamed' = renamed
    BY <1>4 DEF SaveNewTemplate, docHistory
  <2>5. TemplatesTaken'
    <3>1. /\ template' \in [DocumentRow -> TemplateRow] /\ template'[t].name = call[q].name
          /\ \A u \in DocumentRow \ {t} : template'[u] = template[u]
      BY <1>2, <1>3, <2>1, <2>2, <2>3 DEF row, TemplateRow
    <3>2. TemplateCreations'
      BY <1>1, <2>3, <2>4 DEF TemplatesTaken, TemplateCreations, DocsTurn
    <3>3. TemplateMeets'
      BY <1>1, <2>3, <2>4, <3>1 DEF TemplatesTaken, TemplateCreations, TemplateMeets, DocsTurn
    <3>4. TemplateTwins'
      BY <2>3, <2>4, <3>1 DEF TemplatesTaken, TemplateMeets, TemplateTwins
    <3> QED  BY <3>2, <3>3, <3>4 DEF TemplatesTaken
  <2>6. TemplatesHeld'
    BY <1>1, <1>2, <1>3, <2>1, <2>3, <2>4 DEF TemplatesHeld, SameTemplate, DocsTurn
  <2> QED  BY <2>5, <2>6
<1>5. CASE SaveTemplate(q)
  <2> DEFINE t == call[q].id
  <2>1. /\ call[q].at \in {"edit", "withdraw"} /\ call'[q].at = "end"
        /\ crossed' = crossed /\ renamed' = renamed
    BY <1>5, DocEnds DEF SaveTemplate
  <2>2. t \in DocumentRow /\ template' = [template EXCEPT ![t] = call[q].row]
    BY <1>3, <1>5, <2>1 DEF SaveTemplate
  <2>3. SameTemplate(template'[t], template[t], renamed)
    BY <1>2, <2>1, <2>2 DEF TemplatesHeld
  <2>4. \A u \in DocumentRow \ {t} : template'[u] = template[u]
    BY <1>2, <2>2
  <2>5. TemplatesTaken'
    <3>1. TemplateCreations'
      BY <1>1, <2>1 DEF TemplatesTaken, TemplateCreations, DocsTurn
    <3>2. TemplateMeets'
      BY <1>1, <1>3, <2>1, <2>2, <2>3, <2>4, DocNames
         DEF TemplatesTaken, TemplateMeets, DocsTurn, SameTemplate
    <3>3. TemplateTwins'
      BY <2>1, <2>2, <2>3, <2>4 DEF TemplatesTaken, TemplateTwins, SameTemplate
    <3> QED  BY <3>1, <3>2, <3>3 DEF TemplatesTaken
  <2>6. TemplatesHeld'
    BY <1>1, <1>3, <2>1, <2>2, <2>3, <2>4 DEF TemplatesHeld, DocsTurn, SameTemplate
  <2> QED  BY <2>5, <2>6
<1>6. ASSUME ~SaveNewTemplate(q), ~SaveTemplate(q) PROVE template' = template
  BY <1>1, <1>6 DEF DocsWork
<1>7. CASE ~SaveNewTemplate(q) /\ ~SaveTemplate(q) /\ call'[q].at = "template"
  <2>1. PICK n \in DocumentName : CreateTemplate(q, n)
    BY <1>1, <1>7 DEF DocsWork
  <2> DEFINE taken == \E t \in DocumentRow : template[t].mine /\ template[t].name = n
  <2>2. Reserve(q, "template", n, taken)
    BY <2>1 DEF CreateTemplate
  <2> HIDE DEF taken
  <2>3. /\ call'[q].name = n /\ ~taken
        /\ \A o \in DocumentCall \ {q} :
               call[o].at = "template" /\ call[o].name = n => <<"template", n>> \in crossed'
    BY <1>7, <2>2, DocReserved
  <2>4. \A t \in DocumentRow : template[t].mine => template[t].name # n
    BY <2>3 DEF taken
  <2>5. TemplatesTaken'
    BY <1>1, <1>6, <1>7, <2>3, <2>4 DEF TemplatesTaken, TemplateCreations, TemplateMeets, TemplateTwins, DocsTurn
  <2>6. TemplatesHeld'
    BY <1>1, <1>6, <1>7 DEF TemplatesHeld, SameTemplate, DocsTurn
  <2> QED  BY <2>5, <2>6
<1>8. CASE ~SaveNewTemplate(q) /\ ~SaveTemplate(q) /\ call'[q].at # "template"
  <2>1. TemplatesTaken'
    BY <1>1, <1>6, <1>8 DEF TemplatesTaken, TemplateCreations, TemplateMeets, TemplateTwins, DocsTurn
  <2>2. CASE call'[q].at \notin {"edit", "withdraw"}
    BY <1>1, <1>6, <1>8, <2>1, <2>2 DEF TemplatesHeld, SameTemplate, DocsTurn
  <2>3. CASE call'[q].at \in {"edit", "withdraw"}
    <3>1. PICK t \in DocumentRow :
              DeactivateTemplate(q, t) \/ \E e \in TemplateEdit : UpdateTemplate(q, t, e)
      BY <1>1, <2>3 DEF DocsWork
    <3>2. /\ call'[q].id \in DocumentRow
          /\ SameTemplate(call'[q].row, template[call'[q].id], renamed')
      <4>1. CASE DeactivateTemplate(q, t)
        <5> DEFINE row == [template[t] EXCEPT !.isActive = FALSE]
        <5>1. FindTemplate(q, t, t, "withdraw", row) /\ UNCHANGED <<renamed, revived>>
          BY <4>1 DEF DeactivateTemplate
        <5>2. template[t] \in TemplateRow /\ template[t].name \in DocumentName
          BY <5>1 DEF FindTemplate, DocsBase, DocsThere, DocumentsTypeOK
        <5>3. row \in TemplateRow /\ row.name = template[t].name /\ row.mine = template[t].mine
          BY <5>2 DEF TemplateRow
        <5> HIDE DEF row
        <5>4. call'[q].id = t /\ call'[q].row = row
          BY <5>1, <5>2, <5>3, DocFinds
        <5> QED  BY <1>6, <1>8, <5>3, <5>4 DEF SameTemplate
      <4>2. ASSUME NEW e \in TemplateEdit, UpdateTemplate(q, t, e)
            PROVE  /\ call'[q].id \in DocumentRow
                   /\ SameTemplate(call'[q].row, template[call'[q].id], renamed')
        <5> DEFINE row == Assigned(template[t], e)
                   id == Aimed(t, e)
        <5>1. FindTemplate(q, t, id, "edit", row) /\ Renames(t, e)
          BY <4>2 DEF UpdateTemplate
        <5>2. template[t] \in TemplateRow /\ template[t].name \in DocumentName
          BY <5>1 DEF FindTemplate, DocsBase, DocsThere, DocumentsTypeOK
        <5>3. /\ row \in TemplateRow /\ row.name \in DocumentName /\ id \in DocumentRow
              /\ row.name = Overlaid(e.name, template[t].name)
              /\ e.mine = Same => row.mine = template[t].mine
          BY <5>2, DocAssigns
        <5>4. e.name = Same \/ (e.name \in DocumentName /\ e.name # Same)
          BY DocNames DEF TemplateEdit
        <5>5. template[id].name \in DocumentName \cup {None}
          BY <1>2, <5>3 DEF TemplateRow
        <5>6. \/ id = t /\ row.name = template[t].name /\ row.mine = template[t].mine
              \/ {row.name, template[id].name} \subseteq renamed' \cup {None}
          <6>1. CASE /\ e.id = Same /\ e.mine = Same
                     /\ e.name \in {Same, template[t].name}
            BY <5>3, <6>1 DEF Overlaid, Aimed
          <6>2. CASE ~(/\ e.id = Same /\ e.mine = Same
                       /\ e.name \in {Same, template[t].name})
            <7> HIDE DEF row, id
            <7>1. renamed' = renamed \cup ({e.name, template[t].name, template[id].name} \ {Same, None})
              BY <5>1, <6>2 DEF Renames, id
            <7>2. row.name \in {e.name, template[t].name} /\ row.name # Same
              BY <5>3, DocNames DEF Overlaid
            <7>3. template[id].name = None \/ template[id].name # Same
              BY <5>5, DocNames
            <7> QED  BY <5>3, <7>1, <7>2, <7>3, DocNames
          <6> QED  BY <6>1, <6>2
        <5> HIDE DEF row, id
        <5>7. renamed \subseteq renamed' /\ revived \subseteq revived'
          BY <1>1 DEF DocsTurn
        <5>8. call'[q].id = id /\ call'[q].row = row
          BY <5>1, <5>3, <5>7, DocFinds
        <5> QED  BY <1>6, <1>8, <5>3, <5>6, <5>8 DEF SameTemplate
      <4> QED  BY <3>1, <4>1, <4>2
    <3> QED  BY <1>1, <1>6, <1>8, <2>1, <3>2 DEF TemplatesHeld, SameTemplate, DocsTurn
  <2> QED  BY <2>2, <2>3
<1> QED  BY <1>4, <1>5, <1>7, <1>8

LEMMA LinksKeep ==
    ASSUME DocsBase, NEW q \in DocumentCall, DocumentActs(q), LinksTaken
    PROVE  LinksTaken'
<1>1. DocsTurn(q) /\ DocsWork(q) /\ link \in [DocumentRow -> LinkRow]
  BY DocBaseStep, DocsDivided DEF DocsBase, DocumentsTypeOK
<1>2. CASE SaveLink(q)
  <2> DEFINE row == [slug |-> call[q].name, isActive |-> TRUE]
  <2>1. CASE UNCHANGED link
    BY <2>1 DEF LinksTaken
  <2>2. CASE link' # link
    <3>1. \A k \in DocumentRow : link[k].slug # call[q].name
      BY <1>2, <2>2 DEF SaveLink
    <3>2. PICK k \in DocumentRow : link' = [link EXCEPT ![k] = row]
      BY <1>2, <2>2 DEF SaveLink
    <3>3. row.slug = call[q].name
      OBVIOUS
    <3> HIDE DEF row
    <3> QED  BY <1>1, <3>1, <3>2, <3>3 DEF LinksTaken
  <2> QED  BY <2>1, <2>2
<1>3. ASSUME NEW k \in DocumentRow, DeactivateLink(q, k) PROVE LinksTaken'
  <2> DEFINE row == [link[k] EXCEPT !.isActive = FALSE]
  <2>1. link' = [link EXCEPT ![k] = row]
    BY <1>3 DEF DeactivateLink
  <2>2. row.slug = link[k].slug
    BY <1>1 DEF LinkRow
  <2> HIDE DEF row
  <2>3. \A j \in DocumentRow : link'[j].slug = link[j].slug
    BY <1>1, <2>1, <2>2
  <2> QED  BY <2>3 DEF LinksTaken
<1>4. CASE UNCHANGED link
  BY <1>4 DEF LinksTaken
<1> QED  BY <1>1, <1>2, <1>3, <1>4 DEF DocsWork

-----------------------------------------------------------------------------
(* Invoices.                                                                *)

\* As long as no two creations have overlapped, the invoices have the numbers
\* up to their count, and the one creation there may be holds the next.
InvoicesCount ==
    <<"invoice", None>> \notin crossed =>
        /\ {invoice[i].number : i \in Invoices} = 1..Cardinality(Invoices)
        /\ \A q \in DocumentCall : call[q].at = "invoice" =>
               /\ call[q].number = Cardinality(Invoices) + 1
               /\ \A o \in DocumentCall \ {q} : call[o].at # "invoice"

LEMMA InvoicesFinite == IsFiniteSet(Invoices) /\ Cardinality(Invoices) \in Nat
BY DocumentAssumption, FS_Subset, FS_CardinalityType DEF Invoices

LEMMA InvoicesKeep ==
    ASSUME DocsBase, NEW q \in DocumentCall, DocumentActs(q), InvoicesCount
    PROVE  InvoicesCount'
<1> SUFFICES ASSUME <<"invoice", None>> \notin crossed' PROVE InvoicesCount'
  BY DEF InvoicesCount
<1>1. DocsTurn(q) /\ DocsWork(q) /\ invoice \in [DocumentRow -> InvoiceRow]
  BY DocBaseStep, DocsDivided DEF DocsBase, DocumentsTypeOK
<1>2. /\ {invoice[i].number : i \in Invoices} = 1..Cardinality(Invoices)
      /\ \A o \in DocumentCall : call[o].at = "invoice" =>
             /\ call[o].number = Cardinality(Invoices) + 1
             /\ \A p \in DocumentCall \ {o} : call[p].at # "invoice"
  BY <1>1 DEF InvoicesCount, DocsTurn
<1>3. CASE SaveInvoice(q)
  <2> DEFINE row == [customer |-> call[q].id, status |-> "draft", number |-> call[q].number]
             n == Cardinality(Invoices)
  <2>1. PICK i \in DocumentRow \ Invoices : invoice' = [invoice EXCEPT ![i] = row]
    BY <1>3 DEF SaveInvoice
  <2>2. row.number = n + 1 /\ row.customer \in DocumentRow /\ call[q].at = "invoice"
    BY <1>2, <1>3 DEF SaveInvoice, DocsBase, DocFits
  <2>3. call'[q].at = "end"
    BY <1>3, DocEnds DEF SaveInvoice, docHistory
  <2>4. row # NoInvoice
    BY <2>2, DocNames DEF NoInvoice
  <2> HIDE DEF row
  <2>5. invoice'[i] = row /\ \A j \in DocumentRow \ {i} : invoice'[j] = invoice[j]
    BY <1>1, <2>1
  <2>6. Invoices' = Invoices \cup {i}
    BY <2>4, <2>5 DEF Invoices
  <2>7. Cardinality(Invoices') = n + 1 /\ n \in Nat
    BY <2>6, InvoicesFinite, FS_AddElement
  <2>8. {invoice'[j].number : j \in Invoices'} = {invoice[j].number : j \in Invoices} \cup {n + 1}
    <3>1. Invoices \subseteq DocumentRow /\ i \notin Invoices
      BY <2>1 DEF Invoices
    <3> QED  BY <2>2, <2>5, <2>6, <3>1
  <2>9. {invoice'[j].number : j \in Invoices'} = 1..Cardinality(Invoices')
    <3> HIDE DEF n
    <3>1. (1..n) \cup {n + 1} = 1..(n + 1)
      BY <2>7
    <3> QED  BY <1>2, <2>7, <2>8, <3>1 DEF n
  <2>10. \A o \in DocumentCall : call'[o].at # "invoice"
    BY <1>1, <1>2, <2>2, <2>3 DEF DocsTurn
  <2> QED  BY <2>9, <2>10 DEF InvoicesCount
<1>4. ASSUME NEW i \in DocumentRow, NEW s \in InvoiceStatus, UpdateInvoiceStatus(q, i, s)
      PROVE  InvoicesCount'
  <2> DEFINE row == [invoice[i] EXCEPT !.status = s]
  <2>1. invoice' = [invoice EXCEPT ![i] = row] /\ i \in Invoices
    BY <1>4 DEF UpdateInvoiceStatus
  <2>2. row.number = invoice[i].number /\ row.customer = invoice[i].customer
    BY <1>1 DEF InvoiceRow
  <2>3. row # NoInvoice
    BY <2>1, <2>2, DocNames DEF DocsBase, DocsThere, NoInvoice
  <2> HIDE DEF row
  <2>4. Invoices' = Invoices
    BY <1>1, <2>1, <2>3 DEF Invoices
  <2>5. \A j \in Invoices : invoice'[j].number = invoice[j].number
    BY <1>1, <2>1, <2>2 DEF Invoices
  <2>6. {invoice'[j].number : j \in Invoices'} = {invoice[j].number : j \in Invoices}
    BY <2>4, <2>5
  <2>7. call'[q].at = "end"
    BY <1>4, DocEnds DEF UpdateInvoiceStatus, docHistory
  <2> QED  BY <1>1, <1>2, <2>4, <2>6, <2>7 DEF InvoicesCount, DocsTurn
<1>5. CASE UNCHANGED invoice /\ call'[q].at = "invoice"
  <2>1. GenerateInvoiceNumber(q)
    BY <1>1, <1>5 DEF DocsWork
  <2>2. Invoices' = Invoices /\ Cardinality(Invoices) \in Nat
    BY <1>5, InvoicesFinite DEF Invoices
  <2>3. call'[q].number = Cardinality(Invoices) + 1
    BY <2>1, <2>2 DEF GenerateInvoiceNumber, DocumentGoes, DocsBase, DocumentsTypeOK, DocumentLocal
  <2>4. \A o \in DocumentCall : call[o].at # "invoice"
    BY <2>1 DEF GenerateInvoiceNumber
  <2> QED  BY <1>1, <1>2, <1>5, <2>2, <2>3, <2>4 DEF InvoicesCount, DocsTurn
<1>6. CASE UNCHANGED invoice /\ call'[q].at # "invoice"
  <2>1. Invoices' = Invoices
    BY <1>6 DEF Invoices
  <2> QED  BY <1>1, <1>2, <1>6, <2>1 DEF InvoicesCount, DocsTurn
<1> QED  BY <1>1, <1>3, <1>4, <1>5, <1>6 DEF DocsWork

-----------------------------------------------------------------------------
(* Default methods.                                                         *)

Defaults(c) == {m \in DocumentRow : method[m].customer = c /\ method[m].isDefault}
Adding(c) == {q \in DocumentCall : call[q].at = "method" /\ call[q].id = c /\ call[q].isDefault}

\* A customer on whom no two additions have overlapped and none has failed has
\* one default method, or the one addition that took it away is to save another.
DefaultsCount ==
    \A c \in DocumentRow \ cut : <<"method", c>> \notin crossed =>
        /\ \A q, o \in Adding(c) : q = o
        /\ \A a, b \in Defaults(c) : a = b
        /\ Adding(c) = {} \/ Defaults(c) = {}
        /\ c \in had => Adding(c) # {} \/ Defaults(c) # {}

LEMMA DefaultsKeep ==
    ASSUME DocsBase, NEW q \in DocumentCall, DocumentActs(q), DefaultsCount
    PROVE  DefaultsCount'
<1>1. /\ DocsTurn(q) /\ DocsWork(q) /\ method \in [DocumentRow -> MethodRow]
      /\ call \in [DocumentCall -> DocumentLocal]
      /\ \A m \in DocumentRow : method[m] = NoMethod \/ method[m].customer \in DocumentRow
  BY DocBaseStep, DocsDivided DEF DocsBase, DocumentsTypeOK, DocsThere
<1> SUFFICES ASSUME NEW c \in DocumentRow, c \notin cut', <<"method", c>> \notin crossed'
             PROVE  /\ \A p, o \in Adding(c)' : p = o
                    /\ \A a, b \in Defaults(c)' : a = b
                    /\ Adding(c)' = {} \/ Defaults(c)' = {}
                    /\ c \in had' => Adding(c)' # {} \/ Defaults(c)' # {}
  BY DEF DefaultsCount, Defaults, Adding
<1>2. /\ \A p, o \in Adding(c) : p = o
      /\ \A a, b \in Defaults(c) : a = b
      /\ Adding(c) = {} \/ Defaults(c) = {}
      /\ c \in had => Adding(c) # {} \/ Defaults(c) # {}
  BY <1>1 DEF DefaultsCount, DocsTurn
<1>3. Adding(c)' \subseteq Adding(c) \cup {q} /\ Adding(c) \subseteq Adding(c)' \cup {q}
  BY <1>1 DEF DocsTurn, Adding
<1>4. CASE ClearDefaults(q)
  <2>1. call[q].at = "clear" /\ call[q].isDefault /\ call[q].id \in DocumentRow
    BY <1>4 DEF ClearDefaults, DocsBase, DocFits
  <2>2. call'[q].at = "method" /\ call'[q].id = call[q].id /\ call'[q].isDefault
    BY <1>1, <1>4, <2>1 DEF ClearDefaults, DocumentGoes, DocumentLocal
  <2>3. had' = had /\ q \notin Adding(c)
    BY <1>4, <2>1 DEF ClearDefaults, Adding
  <2>4. CASE call[q].id = c
    <3>1. Adding(c) = {}
      BY <1>4, <2>4 DEF ClearDefaults, Meets, Adding, DocsBase
    <3>2. Adding(c)' = {q}
      BY <1>3, <2>2, <2>4, <3>1 DEF Adding
    <3>3. Defaults(c)' = {}
      BY <1>1, <1>4, <2>4 DEF ClearDefaults, Defaults, MethodRow
    <3> QED  BY <3>2, <3>3
  <2>5. CASE call[q].id # c
    <3>1. Adding(c)' = Adding(c)
      BY <1>3, <2>2, <2>3, <2>5 DEF Adding
    <3>2. Defaults(c)' = Defaults(c)
      BY <1>1, <1>4, <2>5 DEF ClearDefaults, Defaults, MethodRow
    <3> QED  BY <1>2, <2>3, <3>1, <3>2
  <2> QED  BY <2>4, <2>5
<1>5. CASE SaveMethod(q)
  <2> DEFINE row == [customer |-> call[q].id, isDefault |-> call[q].isDefault]
  <2>1. PICK m \in DocumentRow : method[m] = NoMethod /\ method' = [method EXCEPT ![m] = row]
    BY <1>5 DEF SaveMethod
  <2>2. row.customer = call[q].id /\ row.isDefault = call[q].isDefault
    OBVIOUS
  <2> HIDE DEF row
  <2>3. /\ call[q].at = "method" /\ call'[q].at = "end"
        /\ had' = IF call[q].isDefault THEN had \cup {call[q].id} ELSE had
    BY <1>5, DocEnds DEF SaveMethod
  <2>4. q \notin Adding(c)' /\ m \notin Defaults(c)
    BY <2>1, <2>3, DocNames DEF Adding, Defaults, NoMethod
  <2>5. method'[m] = row /\ \A a \in DocumentRow \ {m} : method'[a] = method[a]
    BY <1>1, <2>1
  <2>6. CASE q \in Adding(c)
    <3>1. Defaults(c) = {} /\ Adding(c)' = {}
      BY <1>2, <1>3, <2>4, <2>6
    <3>2. Defaults(c)' = {m}
      BY <2>2, <2>5, <2>6, <3>1 DEF Defaults, Adding
    <3> QED  BY <3>1, <3>2
  <2>7. CASE q \notin Adding(c)
    <3>1. Adding(c)' = Adding(c)
      BY <1>3, <2>4, <2>7
    <3>2. Defaults(c)' = Defaults(c)
      BY <2>2, <2>3, <2>4, <2>5, <2>7 DEF Defaults, Adding
    <3>3. c \in had' => c \in had
      BY <2>3, <2>7 DEF Adding
    <3> QED  BY <1>2, <3>1, <3>2, <3>3
  <2> QED  BY <2>6, <2>7
<1>6. ASSUME NEW m \in DocumentRow, RemovePaymentMethod(q, m)
      PROVE  /\ \A p, o \in Adding(c)' : p = o
             /\ \A a, b \in Defaults(c)' : a = b
             /\ Adding(c)' = {} \/ Defaults(c)' = {}
             /\ c \in had' => Adding(c)' # {} \/ Defaults(c)' # {}
  <2>1. call[q].at = "new" /\ call'[q].at = "end"
    BY <1>6, DocEnds DEF RemovePaymentMethod
  <2>2. Adding(c)' = Adding(c)
    BY <1>3, <2>1 DEF Adding
  <2>3. Defaults(c)' = Defaults(c) \ {m}
    BY <1>1, <1>6, DocNames DEF RemovePaymentMethod, Defaults, NoMethod
  <2>4. had' = IF method[m].isDefault THEN had \ {method[m].customer} ELSE had
    BY <1>6 DEF RemovePaymentMethod
  <2>5. m \in Defaults(c) => c \notin had'
    BY <2>4 DEF Defaults
  <2>6. had' \subseteq had
    BY <2>4
  <2> QED  BY <1>2, <2>2, <2>3, <2>5, <2>6
<1>7. CASE method' = method /\ had' = had
  <2>1. Defaults(c)' = Defaults(c)
    BY <1>7 DEF Defaults
  <2>2. CASE q \in Adding(c)
    <3>1. SaveMethod(q) \/ DocumentCallFails(q)
      BY <1>1, <2>2 DEF DocsWork, Adding
    <3>2. CASE DocumentCallFails(q)
      BY <2>2, <3>2 DEF DocumentCallFails, Adding
    <3> QED  BY <1>5, <3>1, <3>2
  <2>3. CASE q \notin Adding(c) /\ q \in Adding(c)'
    <3>1. ClearDefaults(q) \/ \E d \in DocumentRow : AddPaymentMethod(q, d, FALSE)
      BY <1>1, <2>3 DEF DocsWork, Adding
    <3>2. ASSUME NEW d \in DocumentRow, AddPaymentMethod(q, d, FALSE) PROVE FALSE
      <4>1. call'[q].isDefault = FALSE
        BY <1>1, <3>2 DEF AddPaymentMethod, DocumentGoes, NewDocumentCall
      <4> QED  BY <2>3, <4>1 DEF Adding
    <3> QED  BY <1>4, <3>1, <3>2
  <2>4. CASE q \notin Adding(c) /\ q \notin Adding(c)'
    <3>1. Adding(c)' = Adding(c)
      BY <1>3, <2>4
    <3> QED  BY <1>2, <1>7, <2>1, <3>1
  <2> QED  BY <2>2, <2>3, <2>4
<1> QED  BY <1>1, <1>4, <1>5, <1>6, <1>7 DEF DocsWork

-----------------------------------------------------------------------------
(* Deactivated templates.                                                   *)

\* A loaded template is active only if its row is, or the record says why.
TemplatesRevived ==
    \A q \in DocumentCall : call[q].at \in {"edit", "withdraw"} /\ call[q].row.isActive =>
        template[call[q].id].isActive \/ call[q].id \in revived

LEMMA RevivedKeep ==
    ASSUME DocsBase, NEW q \in DocumentCall, DocumentActs(q), TemplatesRevived
    PROVE  TemplatesRevived'
<1>1. DocsTurn(q) /\ DocsWork(q) /\ template \in [DocumentRow -> TemplateRow]
  BY DocBaseStep, DocsDivided DEF DocsBase, DocumentsTypeOK
<1>2. \A o \in DocumentCall : call[o].at \in {"edit", "withdraw"} => call[o].id \in DocumentRow
  BY DEF DocsBase, DocFits
<1>3. CASE SaveNewTemplate(q)
  <2> DEFINE row == [name |-> call[q].name, isActive |-> TRUE, mine |-> TRUE]
  <2>1. PICK t \in DocumentRow : template[t] = NoTemplate /\ template' = [template EXCEPT ![t] = row]
    BY <1>3 DEF SaveNewTemplate
  <2>2. row.isActive = TRUE
    OBVIOUS
  <2> HIDE DEF row
  <2>3. call'[q].at = "end"
    BY <1>3, DocEnds DEF SaveNewTemplate, docHistory
  <2> QED  BY <1>1, <1>2, <2>1, <2>2, <2>3 DEF TemplatesRevived, DocsTurn
<1>4. CASE SaveTemplate(q)
  <2>1. /\ call[q].at \in {"edit", "withdraw"} /\ call'[q].at = "end"
        /\ template' = [template EXCEPT ![call[q].id] = call[q].row]
        /\ \A o \in DocumentCall \ {q} :
               call[o].at \in {"edit", "withdraw"} /\ call[o].id = call[q].id => call[q].id \in revived'
    BY <1>4, DocEnds DEF SaveTemplate
  <2> QED  BY <1>1, <1>2, <2>1 DEF TemplatesRevived, DocsTurn
<1>5. CASE template' = template /\ call'[q].at \in {"edit", "withdraw"}
  <2>1. PICK t \in DocumentRow :
            DeactivateTemplate(q, t) \/ \E e \in TemplateEdit : UpdateTemplate(q, t, e)
    BY <1>1, <1>5 DEF DocsWork
  <2>2. /\ call'[q].id \in DocumentRow
        /\ call'[q].row.isActive => template[call'[q].id].isActive \/ call'[q].id \in revived'
    <3>1. CASE DeactivateTemplate(q, t)
      <4> DEFINE row == [template[t] EXCEPT !.isActive = FALSE]
      <4>1. FindTemplate(q, t, t, "withdraw", row) /\ UNCHANGED <<renamed, revived>>
        BY <3>1 DEF DeactivateTemplate
      <4>2. template[t] \in TemplateRow /\ template[t].name \in DocumentName
        BY <4>1 DEF FindTemplate, DocsBase, DocsThere, DocumentsTypeOK
      <4>3. row \in TemplateRow /\ row.name = template[t].name /\ ~row.isActive
        BY <4>2 DEF TemplateRow
      <4> HIDE DEF row
      <4> QED  BY <4>1, <4>2, <4>3, DocFinds
    <3>2. ASSUME NEW e \in TemplateEdit, UpdateTemplate(q, t, e)
          PROVE  /\ call'[q].id \in DocumentRow
                 /\ call'[q].row.isActive =>
                        template[call'[q].id].isActive \/ call'[q].id \in revived'
      <4> DEFINE row == Assigned(template[t], e)
                 id == Aimed(t, e)
      <4>1. /\ FindTemplate(q, t, id, "edit", row)
            /\ e.isActive = TRUE \/ e.id \notin {Same, t} => id \in revived'
        BY <3>2 DEF UpdateTemplate
      <4>2. template[t] \in TemplateRow /\ template[t].name \in DocumentName
        BY <4>1 DEF FindTemplate, DocsBase, DocsThere, DocumentsTypeOK
      <4>3. /\ row \in TemplateRow /\ row.name \in DocumentName /\ id \in DocumentRow
            /\ row.isActive => template[t].isActive \/ e.isActive = TRUE
        BY <4>2, DocAssigns
      <4>4. e.id \in {Same, t} => id = t
        BY DEF Aimed, Overlaid
      <4> HIDE DEF row, id
      <4>5. renamed \subseteq renamed' /\ revived \subseteq revived'
        BY <1>1 DEF DocsTurn
      <4>6. call'[q].id = id /\ call'[q].row = row
        BY <4>1, <4>3, <4>5, DocFinds
      <4> QED  BY <4>1, <4>3, <4>4, <4>6
    <3> QED  BY <2>1, <3>1, <3>2
  <2> QED  BY <1>1, <1>5, <2>2 DEF TemplatesRevived, DocsTurn
<1>6. CASE template' = template /\ call'[q].at \notin {"edit", "withdraw"}
  BY <1>1, <1>6 DEF TemplatesRevived, DocsTurn
<1> QED  BY <1>1, <1>3, <1>4, <1>5, <1>6 DEF DocsWork

-----------------------------------------------------------------------------
(* The theorems about documents.                                            *)

DocsInv == /\ DocsBase /\ CustomersTaken /\ TemplatesTaken /\ TemplatesHeld /\ LinksTaken
           /\ InvoicesCount /\ DefaultsCount /\ TemplatesRevived

LEMMA DocsInitially == DocumentsInit => DocsInv
<1> SUFFICES ASSUME DocumentsInit PROVE DocsInv
  OBVIOUS
<1>1. PICK n \in DocumentName : customer = [c \in DocumentRow |-> IF c = Regular THEN n ELSE None]
  BY DEF DocumentsInit
<1>2. \A q \in DocumentCall : call[q] = NewDocumentCall
  BY DEF DocumentsInit
<1>3. NewDocumentCall.at = "new"
  BY DEF NewDocumentCall
<1>4. \A q \in DocumentCall : DocFits(call[q])
  BY <1>2, <1>3 DEF DocFits
<1>5. DocumentsTypeOK
  BY <1>1, DocNames DEF DocumentsInit, DocumentsTypeOK, CustomerRow
<1>6. Invoices = {}
  BY DEF DocumentsInit, Invoices
<1>7. DocsThere
  BY <1>6 DEF DocumentsInit, DocsThere
<1>8. CustomersTaken
  BY <1>1, <1>2, <1>3 DEF CustomersTaken
<1>9. TemplatesTaken /\ TemplatesHeld /\ TemplatesRevived
  BY <1>2, <1>3 DEF DocumentsInit, TemplatesTaken, TemplateCreations, TemplateMeets,
     TemplateTwins, TemplatesHeld, TemplatesRevived, NoTemplate
<1>10. LinksTaken
  BY DEF DocumentsInit, LinksTaken, NoLink
<1>11. InvoicesCount
  <2>1. {invoice[i].number : i \in Invoices} = {} /\ Cardinality(Invoices) = 0
    BY <1>6, FS_EmptySet
  <2> QED  BY <1>2, <1>3, <2>1 DEF InvoicesCount
<1>12. DefaultsCount
  BY <1>2, <1>3 DEF DocumentsInit, DefaultsCount, Adding, Defaults, NoMethod
<1> QED  BY <1>4, <1>5, <1>7, <1>8, <1>9, <1>10, <1>11, <1>12 DEF DocsInv, DocsBase

LEMMA DocsStep == DocsInv /\ [DocumentsNext]_docVars => DocsInv'
<1> SUFFICES ASSUME DocsInv, [DocumentsNext]_docVars PROVE DocsInv'
  OBVIOUS
<1>1. CASE UNCHANGED docVars
  <2> USE <1>1 DEF docVars, tables, docHistory
  <2>1. DocsBase'
    BY DEF DocsInv, DocsBase, DocumentsTypeOK, DocsThere, Invoices, DocFits
  <2>2. CustomersTaken' /\ TemplatesTaken' /\ TemplatesHeld' /\ LinksTaken' /\ TemplatesRevived'
    BY DEF DocsInv, CustomersTaken, TemplatesTaken, TemplateCreations, TemplateMeets,
       TemplateTwins, TemplatesHeld, SameTemplate, LinksTaken, TemplatesRevived
  <2>3. InvoicesCount'
    BY DEF DocsInv, InvoicesCount, Invoices
  <2>4. DefaultsCount'
    BY DEF DocsInv, DefaultsCount, Adding, Defaults
  <2> QED  BY <2>1, <2>2, <2>3, <2>4 DEF DocsInv
<1>2. CASE DocumentsNext
  <2>1. PICK q \in DocumentCall : DocumentActs(q)
    BY <1>2 DEF DocumentsNext, DocumentActs
  <2> QED
    BY <2>1, DocBaseStep, CustomersKeep, TemplatesKeep, LinksKeep, InvoicesKeep, DefaultsKeep,
       RevivedKeep DEF DocsInv
<1> QED  BY <1>1, <1>2

LEMMA DocsInvHolds == DocumentsSpec => []DocsInv
BY DocsInitially, DocsStep, PTL DEF DocumentsSpec

\* The type invariant of the merchants' documents.
THEOREM DocumentsTypeCorrect == DocumentsSpec => []DocumentsTypeOK
<1>1. DocsInv => DocumentsTypeOK
  BY DEF DocsInv, DocsBase
<1> QED  BY <1>1, DocsInvHolds, PTL

\* customers.service.ts, checkout.service.ts, payment-link.service.ts: a name is
\* taken twice only where two creations overlapped or an update changed the name,
\* the id or the merchant of a template that had or got it, for any number of calls
\* and rows.
THEOREM NamesAreTakenOnce == DocumentsSpec => []NamesTakenOnce
<1>1. DocsInv => NamesTakenOnce
  BY DEF DocsInv, CustomersTaken, TemplatesTaken, TemplateTwins, LinksTaken, NamesTakenOnce
<1> QED  BY <1>1, DocsInvHolds, PTL

\* invoicing.service.ts: without overlapping creations the invoices' numbers are
\* 1, 2, 3 ..., for any number of invoices.
THEOREM InvoicesAreNumbered == DocumentsSpec => []InvoicesNumbered
<1>1. DocsInv => InvoicesNumbered
  BY DEF DocsInv, InvoicesCount, InvoicesNumbered
<1> QED  BY <1>1, DocsInvHolds, PTL

\* customers.service.ts addPaymentMethod: one default method from the first on.
THEOREM DefaultMethodIsOne == DocumentsSpec => []OneDefaultMethod
<1>1. DocsInv => OneDefaultMethod
  <2> SUFFICES ASSUME DocsInv, NEW c \in had \ cut, <<"method", c>> \notin crossed,
                      \A q \in DocumentCall : call[q].at # "method" \/ call[q].id # c
               PROVE  Cardinality(Defaults(c)) = 1
    BY DEF OneDefaultMethod, Defaults
  <2>1. c \in DocumentRow /\ Adding(c) = {}
    BY DEF DocsInv, DocsBase, DocumentsTypeOK, Adding
  <2>2. Defaults(c) # {} /\ \A a, b \in Defaults(c) : a = b
    BY <2>1 DEF DocsInv, DefaultsCount
  <2>3. PICK m : Defaults(c) = {m}
    BY <2>2
  <2> QED  BY <2>3, FS_Singleton
<1> QED  BY <1>1, DocsInvHolds, PTL

\* checkout.service.ts: a deactivated template becomes active again only by an
\* update that says so, by one that writes another template over it, or by saves
\* that overlapped, for any number of calls and rows and whatever an update's body
\* names.
THEOREM DeactivationsHold == DocumentsSpec => DeactivationHolds
<1> DEFINE Holds == \A t \in DocumentRow : template[t] # NoTemplate /\ ~template[t].isActive
                        => ~template'[t].isActive \/ t \in revived'
<1>1. DocsInv /\ [DocumentsNext]_docVars => [Holds]_docVars
  <2> SUFFICES ASSUME DocsInv, DocumentsNext, NEW t \in DocumentRow, template[t] # NoTemplate,
                      ~template[t].isActive, template'[t].isActive
               PROVE  t \in revived'
    OBVIOUS
  <2>1. PICK q \in DocumentCall : DocumentActs(q)
    BY DEF DocumentsNext, DocumentActs
  <2>2. DocsTurn(q) /\ DocsWork(q) /\ template \in [DocumentRow -> TemplateRow]
    BY <2>1, DocBaseStep, DocsDivided DEF DocsInv, DocsBase, DocumentsTypeOK
  <2>3. ~SaveNewTemplate(q)
    BY <2>2 DEF SaveNewTemplate
  <2>4. CASE SaveTemplate(q)
    <3>1. /\ call[q].at \in {"edit", "withdraw"}
          /\ template' = [template EXCEPT ![call[q].id] = call[q].row]
      BY <2>4 DEF SaveTemplate
    <3>2. call[q].id = t /\ call[q].row.isActive
      BY <2>2, <3>1
    <3> QED  BY <2>2, <3>1, <3>2 DEF DocsInv, TemplatesRevived, DocsTurn
  <2> QED  BY <2>2, <2>3, <2>4 DEF DocsWork
<1> QED  BY <1>1, DocsInvHolds, PTL DEF DocumentsSpec, DeactivationHolds
=============================================================================
