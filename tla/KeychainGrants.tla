--------------------------- MODULE KeychainGrants ---------------------------
(***************************************************************************)
(* Grants of a keychain credential (src/credentials/keychain.ts): minting,      *)
(* loading the credential through a grant, revoking, and removing the           *)
(* credential.  Each handler is several calls of the stores; only the claim of    *)
(* a one-time grant is an atomic update.                                     *)
(***************************************************************************)
EXTENDS Naturals, FiniteSets, TLAPS

CONSTANTS
    Grants,
    Once,          \* the grants that are one-time
    Users,         \* calls of materialize
    Revokers,      \* calls of revokeGrant
    None

ASSUME OnceAssumption == Once \subseteq Grants

VARIABLES
    credential,    \* the credential exists
    status,        \* status[g]: "none", "active", "used" or "revoked"
    expired,       \* expired[g]: now is past the grant's expiresAt
    minting,       \* minting[g]: "idle", "checked" or "over"
    user,          \* user[u]: a load through a grant
    revoker,       \* revoker[r]
    removal,       \* the removal of the credential: what is still to be revoked
    loads          \* loads[g]: how often the credential was handed out through it

vars == <<credential, status, expired, minting, user, revoker, removal, loads>>

Call == [pc |-> "idle", grant |-> None]

\* Every variable has a value of its type; a call is of no grant until it has looked one up.
TypeOK ==
    /\ credential \in BOOLEAN
    /\ status \in [Grants -> {"none", "active", "used", "revoked"}]
    /\ \A g \in Grants : status[g] = "used" => g \in Once
    /\ expired \in [Grants -> BOOLEAN]
    /\ minting \in [Grants -> {"idle", "checked", "over"}]
    /\ user \in [Users -> [pc : {"idle", "looked", "loaded", "served", "refused"}, grant : Grants \cup {None}]]
    /\ \A u \in Users : user[u].pc # "idle" => user[u].grant \in Grants
    /\ revoker \in [Revokers -> [pc : {"idle", "looked", "done"}, grant : Grants \cup {None}]]
    /\ \A r \in Revokers : revoker[r].pc # "idle" => revoker[r].grant \in Grants
    /\ removal \in [pc : {"idle", "revoking", "done"}, left : SUBSET Grants]
    /\ loads \in [Grants -> Nat]

Init ==
    /\ credential = TRUE
    /\ status = [g \in Grants |-> "none"]
    /\ expired = [g \in Grants |-> FALSE]
    /\ minting = [g \in Grants |-> "idle"]
    /\ user = [u \in Users |-> Call]
    /\ revoker = [r \in Revokers |-> Call]
    /\ removal = [pc |-> "idle", left |-> {}]
    /\ loads = [g \in Grants |-> 0]

(* ---- mintGrant ---------------------------------------------------------- *)

\* mintGrant finds the credential; without it the call is refused.
MintLooks(g) ==
    /\ minting[g] = "idle"
    /\ minting' = [minting EXCEPT ![g] = IF credential THEN "checked" ELSE "over"]
    /\ UNCHANGED <<credential, status, expired, user, revoker, removal, loads>>

\* The grant is stored.
MintPuts(g) ==
    /\ minting[g] = "checked"
    /\ status' = [status EXCEPT ![g] = "active"]
    /\ minting' = [minting EXCEPT ![g] = "over"]
    /\ UNCHANGED <<credential, expired, user, revoker, removal, loads>>

\* The grant's expiresAt passes.
Expire(g) ==
    /\ status[g] = "active" /\ ~expired[g]
    /\ expired' = [expired EXCEPT ![g] = TRUE]
    /\ UNCHANGED <<credential, status, minting, user, revoker, removal, loads>>

(* ---- materialize -------------------------------------------------------- *)

Ends(u, how) == user' = [user EXCEPT ![u].pc = how]

Usable(g) == status[g] = "active" /\ ~expired[g]

\* materialize reads the grant, which must be one that can be used.
Looks(u, g) ==
    /\ user[u].pc = "idle" /\ status[g] # "none"
    /\ user' = [user EXCEPT ![u] = [pc |-> IF Usable(g) THEN "looked" ELSE "refused", grant |-> g]]
    /\ UNCHANGED <<credential, status, expired, minting, revoker, removal, loads>>

\* It reads the credential and decrypts it, or refreshes a connector's token.
Loads(u) ==
    /\ user[u].pc = "looked"
    /\ Ends(u, IF credential THEN "loaded" ELSE "refused")
    /\ UNCHANGED <<credential, status, expired, minting, revoker, removal, loads>>

\* A standing grant hands the credential out.
ServeStanding(u) ==
    LET g == user[u].grant
    IN  /\ user[u].pc = "loaded" /\ g \notin Once
        /\ loads' = [loads EXCEPT ![g] = @ + 1]
        /\ Ends(u, "served")
        /\ UNCHANGED <<credential, status, expired, minting, revoker, removal>>

\* Mutant of ClaimOnce: the claim trusts what was read before.
ClaimOnceBlind(u) ==
    LET g == user[u].grant
    IN  /\ user[u].pc = "loaded" /\ g \in Once
        /\ status' = [status EXCEPT ![g] = "used"]
        /\ loads' = [loads EXCEPT ![g] = @ + 1]
        /\ Ends(u, "served")
        /\ UNCHANGED <<credential, expired, minting, revoker, removal>>

\* claimOnceGrant: an atomic update checks the grant again and marks it used.
ClaimOnce(u) ==
    LET g == user[u].grant
    IN  /\ user[u].pc = "loaded" /\ g \in Once /\ Usable(g)
        /\ status' = [status EXCEPT ![g] = "used"]
        /\ loads' = [loads EXCEPT ![g] = @ + 1]
        /\ Ends(u, "served")
        /\ UNCHANGED <<credential, expired, minting, revoker, removal>>

\* The update finds it used, revoked or expired: nothing is handed out.
ClaimRefused(u) ==
    LET g == user[u].grant
    IN  /\ user[u].pc = "loaded" /\ g \in Once /\ ~Usable(g)
        /\ Ends(u, "refused")
        /\ UNCHANGED <<credential, status, expired, minting, revoker, removal, loads>>

(* ---- revokeGrant and remove --------------------------------------------- *)

\* revokeGrant reads the grant; one that is not active needs nothing.
RevokeLooks(r, g) ==
    /\ revoker[r].pc = "idle" /\ status[g] # "none"
    /\ revoker' = [revoker EXCEPT ![r] = [pc |-> IF status[g] = "active" THEN "looked" ELSE "done", grant |-> g]]
    /\ UNCHANGED <<credential, status, expired, minting, user, removal, loads>>

\* It merges the revocation.
RevokeMerges(r) ==
    /\ revoker[r].pc = "looked"
    /\ status' = [status EXCEPT ![revoker[r].grant] = "revoked"]
    /\ revoker' = [revoker EXCEPT ![r].pc = "done"]
    /\ UNCHANGED <<credential, expired, minting, user, removal, loads>>

\* deleteCredential lists the active grants.
RemoveLists ==
    /\ removal.pc = "idle" /\ credential
    /\ removal' = [pc |-> "revoking", left |-> {g \in Grants : status[g] = "active"}]
    /\ UNCHANGED <<credential, status, expired, minting, user, revoker, loads>>

\* It revokes them one by one.
RemoveRevokes(g) ==
    /\ removal.pc = "revoking" /\ g \in removal.left
    /\ status' = [status EXCEPT ![g] = "revoked"]
    /\ removal' = [removal EXCEPT !.left = @ \ {g}]
    /\ UNCHANGED <<credential, expired, minting, user, revoker, loads>>

\* It deletes the credential.
RemoveDeletes ==
    /\ removal.pc = "revoking" /\ removal.left = {}
    /\ credential' = FALSE
    /\ removal' = [removal EXCEPT !.pc = "done"]
    /\ UNCHANGED <<status, expired, minting, user, revoker, loads>>

Next ==
    \/ \E g \in Grants : MintLooks(g) \/ MintPuts(g) \/ Expire(g) \/ RemoveRevokes(g)
    \/ \E u \in Users : \/ \E g \in Grants : Looks(u, g)
                        \/ Loads(u) \/ ServeStanding(u) \/ ClaimOnce(u) \/ ClaimRefused(u)
    \/ \E r \in Revokers : RevokeMerges(r) \/ \E g \in Grants : RevokeLooks(r, g)
    \/ RemoveLists \/ RemoveDeletes

Spec == Init /\ [][Next]_vars

(* ---- properties --------------------------------------------------------- *)

\* A one-time grant hands the credential out at most once, however many turns load it together.
OnceIsOnce == \A g \in Once : loads[g] <= 1

\* Nothing brings a revoked grant back: neither a claim under way nor another revocation.
RevokedStays == [][\A g \in Grants : status[g] = "revoked" => status'[g] = "revoked"]_vars

\* A one-time grant that was revoked hands out nothing afterwards, loads under way included.
RevokedServesNothing == [][\A g \in Once : status[g] = "revoked" => loads'[g] = loads[g]]_vars

(* ---- proofs ------------------------------------------------------------- *)

\* A grant is stored once, by the call that minted it, and what is to be revoked was stored; a
\* one-time grant that was never active, or still is, has handed out nothing.
GrantInv ==
    /\ \A g \in Grants : minting[g] # "over" => status[g] = "none" /\ g \notin removal.left
    /\ \A r \in Revokers : revoker[r].pc = "looked" => minting[revoker[r].grant] = "over"
    /\ \A g \in Once : status[g] \in {"none", "active"} => loads[g] = 0

\* The inductive invariant: OnceIsOnce alone does not say that a grant which was used or revoked
\* cannot become active again, nor that an active one is unused.
IInv == TypeOK /\ GrantInv /\ OnceIsOnce

\* A step changes the status of a grant only from none to active, from active to used by a claim, or to revoked.
LEMMA StatusMoves ==
  ASSUME IInv, Next
  PROVE  \A g \in Grants :
           \/ status'[g] = status[g]
           \/ status[g] = "none" /\ status'[g] = "active" /\ loads'[g] = loads[g]
           \/ status[g] = "active" /\ status'[g] = "used"
           \/ status'[g] = "revoked" /\ loads'[g] = loads[g]
<1> SUFFICES ASSUME NEW g \in Grants
             PROVE  \/ status'[g] = status[g]
                    \/ status[g] = "none" /\ status'[g] = "active" /\ loads'[g] = loads[g]
                    \/ status[g] = "active" /\ status'[g] = "used"
                    \/ status'[g] = "revoked" /\ loads'[g] = loads[g]
  OBVIOUS
<1> USE DEF IInv, TypeOK, GrantInv
<1>1. CASE \E h \in Grants : MintPuts(h)
  BY <1>1 DEF MintPuts
<1>2. CASE \E u \in Users : ClaimOnce(u)
  BY <1>2 DEF ClaimOnce, Usable, Ends
<1>3. CASE \E r \in Revokers : RevokeMerges(r)
  BY <1>3 DEF RevokeMerges
<1>4. CASE \E h \in Grants : RemoveRevokes(h)
  BY <1>4 DEF RemoveRevokes
<1>5. CASE UNCHANGED status
  BY <1>5
<1> QED
  BY <1>1, <1>2, <1>3, <1>4, <1>5
  DEF Next, MintLooks, Expire, Looks, Loads, ServeStanding, ClaimRefused, RevokeLooks, RemoveLists, RemoveDeletes

\* A step keeps the types.
LEMMA TypeStep ==
  ASSUME TypeOK, Next
  PROVE  TypeOK'
<1> USE DEF TypeOK
<1>1. ASSUME NEW g \in Grants, MintLooks(g) \/ MintPuts(g) \/ Expire(g) PROVE TypeOK'
  <2>1. CASE MintLooks(g)
    BY <2>1 DEF MintLooks
  <2>2. CASE MintPuts(g)
    BY <2>2 DEF MintPuts
  <2>3. CASE Expire(g)
    BY <2>3 DEF Expire
  <2> QED
    BY <1>1, <2>1, <2>2, <2>3
<1>2. ASSUME NEW g \in Grants, RemoveRevokes(g) PROVE TypeOK'
  BY <1>2 DEF RemoveRevokes
<1>3. ASSUME NEW u \in Users, NEW g \in Grants, Looks(u, g) PROVE TypeOK'
  BY <1>3 DEF Looks
<1>4. ASSUME NEW u \in Users, Loads(u) PROVE TypeOK'
  BY <1>4 DEF Loads, Ends
<1>5. ASSUME NEW u \in Users, ServeStanding(u) PROVE TypeOK'
  BY <1>5 DEF ServeStanding, Ends
<1>6. ASSUME NEW u \in Users, ClaimOnce(u) PROVE TypeOK'
  BY <1>6 DEF ClaimOnce, Ends
<1>7. ASSUME NEW u \in Users, ClaimRefused(u) PROVE TypeOK'
  BY <1>7 DEF ClaimRefused, Ends
<1>8. ASSUME NEW r \in Revokers, RevokeMerges(r) PROVE TypeOK'
  BY <1>8 DEF RevokeMerges
<1>9. ASSUME NEW r \in Revokers, NEW g \in Grants, RevokeLooks(r, g) PROVE TypeOK'
  BY <1>9 DEF RevokeLooks
<1>10. CASE RemoveLists
  BY <1>10 DEF RemoveLists
<1>11. CASE RemoveDeletes
  BY <1>11, ZenonT(40) DEF RemoveDeletes
<1> HIDE DEF TypeOK
<1> QED
  BY <1>1, <1>2, <1>3, <1>4, <1>5, <1>6, <1>7, <1>8, <1>9, <1>10, <1>11 DEF Next

\* The invariant is inductive.
LEMMA Inductive ==
  /\ Init => IInv
  /\ IInv /\ [Next]_vars => IInv'
<1> USE OnceAssumption
<1>1. Init => IInv
  BY DEF Init, Call, IInv, TypeOK, GrantInv, OnceIsOnce
<1>2. ASSUME IInv, Next PROVE IInv'
  <2> USE <1>2 DEF IInv
  <2>1. TypeOK'
    BY TypeStep
  <2>2. ASSUME NEW g \in Grants, minting'[g] # "over" PROVE status'[g] = "none" /\ g \notin removal'.left
    <3> USE DEF TypeOK, GrantInv
    <3>1. CASE \E h \in Grants : MintLooks(h) \/ MintPuts(h)
      BY <2>2, <3>1 DEF MintLooks, MintPuts
    <3>2. CASE \E h \in Grants : RemoveRevokes(h)
      BY <2>2, <3>2 DEF RemoveRevokes
    <3>3. CASE \E u \in Users : ClaimOnce(u)
      BY <2>2, <3>3 DEF ClaimOnce, Usable
    <3>4. CASE \E r \in Revokers : RevokeMerges(r)
      BY <2>2, <3>4 DEF RevokeMerges
    <3>5. CASE RemoveLists
      BY <2>2, <3>5 DEF RemoveLists
    <3>6. CASE RemoveDeletes
      BY <2>2, <3>6 DEF RemoveDeletes
    <3>7. CASE UNCHANGED <<status, minting, removal>>
      BY <2>2, <3>7
    <3> QED
      BY <3>1, <3>2, <3>3, <3>4, <3>5, <3>6, <3>7
      DEF Next, Expire, Looks, Loads, ServeStanding, ClaimRefused, RevokeLooks
  <2>3. ASSUME NEW r \in Revokers, revoker'[r].pc = "looked" PROVE minting'[revoker'[r].grant] = "over"
    BY <2>3 DEF TypeOK, GrantInv, Next, MintLooks, MintPuts, Expire, RemoveRevokes, Looks, Loads, ServeStanding,
                ClaimOnce, ClaimRefused, RevokeMerges, RevokeLooks, RemoveLists, RemoveDeletes
  <2>4. ASSUME NEW g \in Once
        PROVE  /\ status'[g] \in {"none", "active"} => loads'[g] = 0
               /\ loads'[g] <= 1
    <3>1. \/ loads'[g] = loads[g]
          \/ status[g] = "active" /\ status'[g] = "used" /\ loads'[g] = loads[g] + 1
      BY DEF TypeOK, Next, MintLooks, MintPuts, Expire, RemoveRevokes, Looks, Loads, ServeStanding,
             ClaimOnce, ClaimRefused, Usable, RevokeMerges, RevokeLooks, RemoveLists, RemoveDeletes
    <3>2. status[g] \in {"none", "active"} => loads[g] = 0
      BY DEF GrantInv
    <3>3. loads[g] \in Nat /\ loads[g] <= 1
      BY DEF TypeOK, OnceIsOnce
    <3> QED
      BY <3>1, <3>2, <3>3, StatusMoves
  <2> QED
    BY <2>1, <2>2, <2>3, <2>4 DEF GrantInv, OnceIsOnce
<1>3. ASSUME IInv, UNCHANGED vars PROVE IInv'
  BY <1>3 DEF vars, IInv, TypeOK, GrantInv, OnceIsOnce
<1> QED
  BY <1>1, <1>2, <1>3

\* Every variable keeps its type.
THEOREM GrantsTyped == Spec => []TypeOK
<1>1. IInv => TypeOK
  BY DEF IInv
<1> QED
  BY <1>1, Inductive, PTL DEF Spec

\* A one-time grant hands the credential out at most once (claimOnceGrant), for any number of
\* grants, loads and revocations.
THEOREM OnceHolds == Spec => []OnceIsOnce
<1>1. IInv => OnceIsOnce
  BY DEF IInv
<1> QED
  BY <1>1, Inductive, PTL DEF Spec

\* A revoked grant stays revoked, claims and other revocations under way included.
THEOREM RevocationHolds == Spec => RevokedStays
<1>1. IInv /\ [Next]_vars => [\A g \in Grants : status[g] = "revoked" => status'[g] = "revoked"]_vars
  BY StatusMoves DEF vars
<1> QED
  BY <1>1, Inductive, PTL DEF Spec, RevokedStays

\* A one-time grant that was revoked serves nothing more, to a load that found it active included.
THEOREM RevokedIsDead == Spec => RevokedServesNothing
<1>1. ASSUME IInv, Next, NEW g \in Once, status[g] = "revoked"
      PROVE  loads'[g] = loads[g]
  BY <1>1, OnceAssumption, ZenonT(40)
  DEF IInv, TypeOK, Next, MintLooks, MintPuts, Expire, RemoveRevokes, Looks, Loads, ServeStanding,
      ClaimOnce, ClaimRefused, Usable, Ends, RevokeMerges, RevokeLooks, RemoveLists, RemoveDeletes
<1>2. IInv /\ [Next]_vars => [\A g \in Once : status[g] = "revoked" => loads'[g] = loads[g]]_vars
  BY <1>1 DEF vars
<1> QED
  BY <1>2, Inductive, PTL DEF Spec, RevokedServesNothing
=============================================================================
