------------------------ MODULE AssistantStoreProofs ------------------------
(***************************************************************************)
(* Proofs about AssistantStore, for every value of its constants: the      *)
(* types of its tables, keys and memberships, the limits of admission, the *)
(* lease of the slot, and the event log.                                   *)
(***************************************************************************)
EXTENDS AssistantStore, LedgerProofs, SelectionProofs

\* A call that has read the clock is a record of arguments, never NoCall.
LEMMA CallTyped ==
    ASSUME TablesTypeOK, NEW c \in Callers, calls[c] # NoCall
    PROVE  calls[c] \in ReserveCalls
BY DEF TablesTypeOK

LEMMA InitTyped == Init => TablesTypeOK
<1> SUFFICES ASSUME Init PROVE TablesTypeOK
  OBVIOUS
<1> USE DEF Init
<1>1. clock \in Instant
  BY LedgerAssumption DEF Instant
<1>2. invites \in [Codes -> Invites]
  BY DEF Invites, InviteStates
<1>3. quota \in [Users -> Quotas]
  <2>1. NoQuota \in Quotas
    BY DEF NoQuota, Quotas
  <2>2. \A f \in Founders : f.quota \in Quotas
    BY StoreAssumption DEF Quotas, Granted
  <2> QED
    BY <2>1, <2>2
<1>4. keys \in [Keys -> KeyRows]
  <2>1. \A f \in Founders : f.user \in Users
    BY StoreAssumption
  <2> QED
    BY <2>1 DEF KeyRows
<1>5. /\ grants \subseteq Users
      /\ issued \in Nat
      /\ DOMAIN ledger \subseteq 1 .. issued
      /\ ledger \in [DOMAIN ledger -> Row]
  OBVIOUS
<1>6. calls \in [Callers -> ReserveCalls \cup {NoCall}]
  OBVIOUS
<1>7. admissions \subseteq [rid : Nat, user : Users, idem : Idems, created : Instant]
  OBVIOUS
<1> QED
  BY <1>1, <1>2, <1>3, <1>4, <1>5, <1>6, <1>7 DEF TablesTypeOK

LEMMA StepTyped == TablesTypeOK /\ [Next]_vars => TablesTypeOK'
<1> SUFFICES ASSUME TablesTypeOK, [Next]_vars PROVE TablesTypeOK'
  OBVIOUS
<1> USE DEF TablesTypeOK
<1>1. CASE Tick
  BY <1>1, LedgerAssumption DEF Tick, Instant
<1>2. ASSUME NEW code \in Codes, NEW q \in InviteQuotas, NEW life \in InviteLives,
             Invite(code, q, life)
      PROVE  TablesTypeOK'
  <2>1. clock + life \in Nat
    BY StoreAssumption, LedgerAssumption DEF Instant
  <2>2. [state |-> "open", expires |-> clock + life, quota |-> q] \in Invites
    BY <2>1 DEF Invites, InviteStates
  <2> QED
    BY <1>2, <2>2 DEF Invite
<1>3. ASSUME NEW code \in Codes, NEW u \in Users, NEW k \in Keys, Redeem(code, u, k)
      PROVE  TablesTypeOK'
  <2>1. invites[code].quota \in Quotas
    BY StoreAssumption DEF Invites, Quotas, Granted, NoQuota
  <2>2. [invites[code] EXCEPT !.state = "redeemed"] \in Invites
    BY DEF Invites, InviteStates
  <2>3. invites' \in [Codes -> Invites]
    <3>1. invites' = [invites EXCEPT ![code] = [invites[code] EXCEPT !.state = "redeemed"]]
      BY <1>3 DEF Redeem
    <3> QED
      BY <2>2, <3>1
  <2>4. quota' \in [Users -> Quotas]
    BY <1>3, <2>1 DEF Redeem
  <2>5. keys' \in [Keys -> KeyRows]
    BY <1>3 DEF Redeem, Minted, KeyRows
  <2> QED
    BY <1>3, <2>3, <2>4, <2>5 DEF Redeem
<1>4. ASSUME NEW u \in Users PROVE RevokedKeys(u) \in [Keys -> KeyRows]
  BY DEF RevokedKeys, KeyRows
<1>5. ASSUME NEW u \in Users, Revoke(u) PROVE TablesTypeOK'
  BY <1>4, <1>5 DEF Revoke
<1>6. ASSUME NEW u \in Users, NEW k \in Keys, Rotate(u, k) PROVE TablesTypeOK'
  <2>1. Minted(u) \in KeyRows
    BY DEF Minted, KeyRows
  <2> QED
    BY <1>4, <1>6, <2>1 DEF Rotate
<1>7. ASSUME NEW u \in Users, NEW b \in BOOLEAN, SetOperator(u, b) PROVE TablesTypeOK'
  BY <1>7 DEF SetOperator
<1>8. ASSUME NEW c \in Callers, NEW u \in Users, NEW i \in Idems, NEW n \in Estimates,
             CallReserve(c, u, i, n)
      PROVE  TablesTypeOK'
  <2>1. [user |-> u, quota |-> quota[u], idem |-> i, tokens |-> n, now |-> clock]
           \in ReserveCalls
    BY StoreAssumption DEF ReserveCalls
  <2> QED
    BY <1>8, <2>1 DEF CallReserve
<1>9. ASSUME NEW c \in Callers, Admit(c) PROVE TablesTypeOK'
  <2> DEFINE call == calls[c]
             swept == Swept(ledger, call.now)
  <2>1. call \in ReserveCalls
    BY <1>9, CallTyped DEF Admit
  <2>2. /\ DOMAIN swept \subseteq 1 .. issued
        /\ swept \in [DOMAIN swept -> Row]
    BY <2>1, SweptTyped DEF ReserveCalls
  <2>3. NewRow(call) \in Row
    BY <2>1 DEF ReserveCalls, NewRow, Row, Statuses
  <2>4. /\ DOMAIN ledger' \subseteq 1 .. issued'
        /\ ledger' \in [DOMAIN ledger' -> Row]
    <3>1. ledger' = Insert(swept, issued + 1, NewRow(call)) /\ issued' = issued + 1
      BY <1>9 DEF Admit
    <3> HIDE DEF swept, call
    <3> QED
      BY <2>2, <2>3, <3>1, InsertTyped
  <2>5. invites' \in [Codes -> Invites]
    <3>1. ASSUME NEW x \in Codes
          PROVE  [invites[x] EXCEPT
                    !.state = IF @ # "unminted" /\ invites[x].expires + InviteKeep < call.now
                              THEN "pruned" ELSE @] \in Invites
      BY DEF Invites, InviteStates
    <3> QED
      BY <1>9, <3>1 DEF Admit, PruneInvites
  <2>6. calls' \in [Callers -> ReserveCalls \cup {NoCall}]
    BY <1>9 DEF Admit
  <2>7. admissions' \subseteq [rid : Nat, user : Users, idem : Idems, created : Instant]
    BY <1>9, <2>1 DEF Admit, ReserveCalls
  <2>8. issued' \in Nat /\ UNCHANGED <<clock, quota, keys, grants>>
    BY <1>9 DEF Admit
  <2> QED
    BY <2>4, <2>5, <2>6, <2>7, <2>8
<1>10. ASSUME NEW c \in Callers, Deny(c) PROVE TablesTypeOK'
  BY <1>10 DEF Deny
<1>11. ASSUME NEW r \in DOMAIN ledger, NEW s \in Endings, NEW n \in Totals \cup {Unknown},
              Finish(r, s, n)
       PROVE  TablesTypeOK'
  BY <1>11, StoreAssumption, SettleTyped DEF Finish, Running
<1>12. ASSUME NEW u \in Users, NEW code \in DenialCodes, RecordDenial(u, code)
       PROVE  TablesTypeOK'
  BY <1>12 DEF RecordDenial
<1>13. CASE RecordStart
  BY <1>13 DEF RecordStart
<1>14. ASSUME NEW u \in Users, DeleteHistory(u) PROVE TablesTypeOK'
  BY <1>14, ClearMetaTyped DEF DeleteHistory
<1>15. CASE UNCHANGED vars
  BY <1>15 DEF vars
<1> QED
  BY <1>1, <1>2, <1>3, <1>5, <1>6, <1>7, <1>8, <1>9, <1>10, <1>11, <1>12, <1>13, <1>14,
     <1>15 DEF Next, Access, Admission, Audit

\* Every table keeps its columns and their types, and every row of the ledger has
\* an identifier that was issued.
THEOREM TablesTyped == Spec => []TablesTypeOK
BY InitTyped, StepTyped, PTL DEF Spec

-----------------------------------------------------------------------------
(***************************************************************************)
(* Members and their keys.  Only Redeem, Revoke and Rotate write a key and *)
(* only Redeem a quota; both that mint a key find it free.                 *)
(***************************************************************************)
LEMMA AccessStep ==
    ASSUME [Next]_vars
    PROVE  \/ UNCHANGED <<keys, quota>>
           \/ \E u \in Users : keys' = RevokedKeys(u) /\ quota' = quota
           \/ \E u \in Users, k \in Keys : Rotate(u, k)
           \/ \E code \in Codes, u \in Users, k \in Keys : Redeem(code, u, k)
BY DEF Next, Tick, Access, Invite, Revoke, SetOperator, Admission, CallReserve, Admit, Deny,
       Finish, Audit, RecordDenial, RecordStart, DeleteHistory, vars

\* The keys of u are revoked, the others are as before.
LEMMA RevokedKeysOf ==
    ASSUME TablesTypeOK, NEW u \in Users, NEW k \in Keys
    PROVE  /\ RevokedKeys(u)[k].owner = keys[k].owner
           /\ keys[k].revoked => RevokedKeys(u)[k].revoked
           /\ keys[k].owner = u => RevokedKeys(u)[k].revoked
           /\ keys[k].owner # u => RevokedKeys(u)[k] = keys[k]
<1> DEFINE revoked == keys[k].revoked \/ keys[k].owner = u
<1>1. keys[k] \in KeyRows /\ revoked \in BOOLEAN
  BY DEF TablesTypeOK
<1>2. RevokedKeys(u)[k] = [keys[k] EXCEPT !.revoked = revoked]
  BY DEF RevokedKeys
<1>3. /\ keys[k].revoked => revoked
      /\ keys[k].owner = u => revoked
      /\ keys[k].owner # u /\ keys[k].revoked \in BOOLEAN => revoked = keys[k].revoked
  BY Zenon
<1> HIDE DEF revoked
<1>4. /\ RevokedKeys(u)[k].owner = keys[k].owner
      /\ RevokedKeys(u)[k].revoked = revoked
  BY <1>1, <1>2 DEF KeyRows
<1>5. keys[k].owner # u => RevokedKeys(u)[k] = keys[k]
  <2> SUFFICES ASSUME keys[k].owner # u PROVE RevokedKeys(u)[k] = keys[k]
    OBVIOUS
  <2>1. revoked = keys[k].revoked
    BY <1>1, <1>3 DEF KeyRows
  <2> QED
    BY <1>1, <1>2, <2>1 DEF KeyRows
<1>6. keys[k].revoked => RevokedKeys(u)[k].revoked
  BY <1>3, <1>4, Zenon
<1>7. keys[k].owner = u => RevokedKeys(u)[k].revoked
  BY <1>3, <1>4, Zenon
<1> QED
  BY <1>4, <1>5, <1>6, <1>7

\* The key that a redemption or a rotation mints, and the others.
LEMMA MintedKeyOf ==
    ASSUME NEW old \in [Keys -> KeyRows], NEW u \in Users, NEW k \in Keys, NEW j \in Keys
    PROVE  /\ [old EXCEPT ![k] = Minted(u)][k] = Minted(u)
           /\ Minted(u).owner = u /\ ~Minted(u).revoked
           /\ j # k => [old EXCEPT ![k] = Minted(u)][j] = old[j]
BY DEF Minted

\* What a step does to a key that has an owner.
LEMMA KeyStep ==
    ASSUME TablesTypeOK, [Next]_vars, NEW k \in Keys, keys[k].owner # NoUser
    PROVE  /\ keys'[k].owner = keys[k].owner
           /\ keys[k].revoked => keys'[k].revoked
<1>1. RevokedKeys(keys[k].owner) \in [Keys -> KeyRows] /\ keys \in [Keys -> KeyRows]
  BY DEF TablesTypeOK, RevokedKeys, KeyRows
<1>2. ASSUME NEW u \in Users, keys' = RevokedKeys(u)
      PROVE  /\ keys'[k].owner = keys[k].owner
             /\ keys[k].revoked => keys'[k].revoked
  BY <1>2, RevokedKeysOf
<1>3. ASSUME NEW u \in Users, NEW j \in Keys, Rotate(u, j)
      PROVE  /\ keys'[k].owner = keys[k].owner
             /\ keys[k].revoked => keys'[k].revoked
  <2>1. j # k /\ keys' = [RevokedKeys(u) EXCEPT ![j] = Minted(u)]
    BY <1>3 DEF Rotate
  <2>2. keys'[k] = RevokedKeys(u)[k]
    BY <2>1 DEF RevokedKeys
  <2> QED
    BY <2>2, RevokedKeysOf
<1>4. ASSUME NEW code \in Codes, NEW u \in Users, NEW j \in Keys, Redeem(code, u, j)
      PROVE  keys'[k] = keys[k]
  BY <1>1, <1>4 DEF Redeem
<1> QED
  BY <1>2, <1>3, <1>4, AccessStep

\* A revoked key stays revoked and a key never changes hands, in any step.
THEOREM RevocationIsFinal == Spec => RevocationFinal
<1>1. TablesTypeOK /\ [Next]_vars =>
         [\A k \in Keys : keys[k].owner # NoUser =>
             /\ keys'[k].owner = keys[k].owner
             /\ keys[k].revoked => keys'[k].revoked]_vars
  BY KeyStep
<1> QED
  BY <1>1, TablesTyped, PTL DEF Spec, RevocationFinal

-----------------------------------------------------------------------------
(***************************************************************************)
(* One working key per member and one member per invitation.  A key has an *)
(* owner only if the owner has joined, so that whom a redemption mints the *)
(* first key for has none; and an open invitation grants a quota, so that  *)
(* whoever redeems it has joined and is counted.                           *)
(***************************************************************************)
Members == {u \in Users : Joined(u)}
Spent   == {c \in Codes : invites[c].state \in {"redeemed", "pruned"}}
Drawn   == {c \in Codes : invites[c].state # "unminted"}

KeysOwned   == \A k \in Keys : keys[k].owner # NoUser => Joined(keys[k].owner)
OpenGranted == \A c \in Codes : invites[c].state = "open" => invites[c].quota \in Granted

MembersCounted ==
    /\ IsFiniteSet(Members) /\ IsFiniteSet(Drawn)
    /\ Cardinality(Members) <= Cardinality(Founders) + Cardinality(Spent)

MembershipInv ==
    /\ TablesTypeOK
    /\ KeysOwned /\ OneLiveKey
    /\ OpenGranted /\ MembersCounted

LEMMA GrantedJoins == \A q \in Granted : q # NoQuota
BY DEF Granted, NoQuota

LEMMA SpentFinite ==
    ASSUME IsFiniteSet(Drawn)
    PROVE  IsFiniteSet(Spent) /\ Cardinality(Spent) \in Nat
<1>1. Spent \subseteq Drawn
  BY DEF Spent, Drawn
<1> QED
  BY <1>1, FS_Subset, FS_CardinalityType

LEMMA MembershipInit == Init => MembershipInv
<1> SUFFICES ASSUME Init PROVE MembershipInv
  OBVIOUS
<1>1. TablesTypeOK
  BY InitTyped
<1>2. ASSUME NEW f \in Founders
      PROVE  /\ f.user \in Users /\ Joined(f.user)
             /\ \A g \in Founders : f.user = g.user \/ f.key = g.key => f = g
  <2>1. f.user \in Users /\ f.quota \in Granted
    BY StoreAssumption
  <2>2. quota[f.user] = (CHOOSE g \in Founders : g.user = f.user).quota
    BY <2>1 DEF Init
  <2>3. \A g \in Founders : f.user = g.user \/ f.key = g.key => f = g
    BY StoreAssumption
  <2>4. (CHOOSE g \in Founders : g.user = f.user) = f
    BY <2>3
  <2> QED
    BY <2>1, <2>2, <2>3, <2>4, GrantedJoins DEF Joined
<1>3. ASSUME NEW k \in Keys, keys[k].owner # NoUser
      PROVE  \E f \in Founders : f.key = k /\ keys[k].owner = f.user
  <2>1. \E f \in Founders : f.key = k
    BY <1>3 DEF Init
  <2>2. keys[k].owner = (CHOOSE f \in Founders : f.key = k).user
    BY <2>1 DEF Init
  <2> QED
    BY <2>1, <2>2
<1>4. KeysOwned /\ OneLiveKey
  BY <1>2, <1>3 DEF KeysOwned, OneLiveKey, Live
<1>5. OpenGranted /\ Drawn = {}
  BY DEF Init, OpenGranted, Drawn
<1>6. MembersCounted
  <2> DEFINE names == [f \in Founders |-> f.user]
  <2>1. Members = {names[f] : f \in Founders}
    <3>1. ASSUME NEW u \in Members PROVE \E f \in Founders : f.user = u
      BY DEF Init, Members, Joined
    <3> QED
      BY <1>2, <3>1 DEF Members
  <2>2. names \in Surjection(Founders, Members)
    BY <2>1 DEF Surjection
  <2>3. IsFiniteSet(Members) /\ Cardinality(Members) <= Cardinality(Founders)
    BY <2>2, FS_Surjection, StoreAssumption
  <2>4. IsFiniteSet(Drawn)
    BY <1>5, FS_EmptySet
  <2>5. /\ Cardinality(Members) \in Nat /\ Cardinality(Founders) \in Nat
        /\ Cardinality(Spent) \in Nat
    BY <2>3, <2>4, SpentFinite, StoreAssumption, FS_CardinalityType
  <2> QED
    BY <2>3, <2>4, <2>5 DEF MembersCounted
<1> QED
  BY <1>1, <1>4, <1>5, <1>6 DEF MembershipInv

\* Every key goes on being owned by a member, of whom one works.
LEMMA KeysSound ==
    ASSUME MembershipInv, [Next]_vars
    PROVE  KeysOwned' /\ OneLiveKey'
<1> USE DEF MembershipInv
<1>1. RevokedKeys(NoUser) = RevokedKeys(NoUser) /\ keys \in [Keys -> KeyRows]
      /\ NoUser \notin Users /\ quota \in [Users -> Quotas]
  BY StoreAssumption DEF TablesTypeOK
<1>2. CASE UNCHANGED <<keys, quota>>
  BY <1>2 DEF KeysOwned, OneLiveKey, Joined, Live
<1>3. ASSUME NEW u \in Users, keys' = RevokedKeys(u), quota' = quota
      PROVE  KeysOwned' /\ OneLiveKey'
  <2>1. \A k \in Keys :
           /\ keys'[k].owner = keys[k].owner
           /\ keys[k].revoked => keys'[k].revoked
    BY <1>3, RevokedKeysOf
  <2>2. KeysOwned'
    BY <1>3, <2>1 DEF KeysOwned, Joined
  <2>3. \A k \in Keys : Live(k)' => Live(k)
    BY <2>1, Zenon DEF Live
  <2>4. OneLiveKey'
    BY <2>1, <2>3 DEF OneLiveKey
  <2> QED
    BY <2>2, <2>4
<1>4. ASSUME NEW u \in Users, NEW j \in Keys, Rotate(u, j)
      PROVE  KeysOwned' /\ OneLiveKey'
  <2>1. keys' = [RevokedKeys(u) EXCEPT ![j] = Minted(u)] /\ Joined(u) /\ quota' = quota
    BY <1>4 DEF Rotate
  <2>2. RevokedKeys(u) \in [Keys -> KeyRows]
    BY DEF TablesTypeOK, RevokedKeys, KeyRows
  <2>3. keys'[j].owner = u
    BY <2>1, <2>2, MintedKeyOf
  <2>4. ASSUME NEW k \in Keys, k # j
        PROVE  /\ keys'[k].owner = keys[k].owner
               /\ keys[k].owner = u => keys'[k].revoked
               /\ keys[k].owner # u => keys'[k] = keys[k]
    <3>1. keys'[k] = RevokedKeys(u)[k]
      BY <2>1, <2>2, <2>4, MintedKeyOf
    <3> QED
      BY <3>1, RevokedKeysOf
  <2>5. KeysOwned'
    BY <2>1, <2>3, <2>4 DEF KeysOwned, Joined
  <2>6. OneLiveKey'
    BY <2>3, <2>4 DEF OneLiveKey, Live
  <2> QED
    BY <2>5, <2>6
<1>5. ASSUME NEW code \in Codes, NEW u \in Users, NEW j \in Keys, Redeem(code, u, j)
      PROVE  KeysOwned' /\ OneLiveKey'
  <2>1. /\ keys' = [keys EXCEPT ![j] = Minted(u)] /\ ~Joined(u)
        /\ quota' = [quota EXCEPT ![u] = invites[code].quota]
        /\ invites[code].state = "open"
    BY <1>5 DEF Redeem
  <2>2. keys'[j].owner = u /\ \A k \in Keys \ {j} : keys'[k] = keys[k]
    BY <1>1, <2>1, MintedKeyOf
  <2>3. quota'[u] # NoQuota /\ \A v \in Users \ {u} : quota'[v] = quota[v]
    BY <1>1, <2>1, GrantedJoins DEF OpenGranted
  <2>4. \A k \in Keys : keys[k].owner # u /\ keys[k].owner \in Users \cup {NoUser}
    BY <1>1, <2>1 DEF KeysOwned, KeyRows
  <2>5. KeysOwned'
    BY <2>2, <2>3, <2>4 DEF KeysOwned, Joined
  <2>6. OneLiveKey'
    BY <2>2, <2>4 DEF OneLiveKey, Live
  <2> QED
    BY <2>5, <2>6
<1> QED
  BY <1>2, <1>3, <1>4, <1>5, AccessStep

\* What a step does to the invitations.
Prunes(new) ==
    \A c \in Codes :
        /\ new[c].quota = invites[c].quota
        /\ \/ new[c].state = invites[c].state
           \/ invites[c].state # "unminted" /\ new[c].state = "pruned"

LEMMA InvitesStep ==
    ASSUME TablesTypeOK, [Next]_vars
    PROVE  \/ Prunes(invites') /\ quota' = quota
           \/ \E code \in Codes, q \in InviteQuotas, life \in InviteLives :
                 Invite(code, q, life)
           \/ \E code \in Codes, u \in Users, k \in Keys : Redeem(code, u, k)
<1>1. ASSUME NEW now PROVE Prunes(PruneInvites(now))
  <2> SUFFICES ASSUME NEW c \in Codes
               PROVE  /\ PruneInvites(now)[c].quota = invites[c].quota
                      /\ \/ PruneInvites(now)[c].state = invites[c].state
                         \/ /\ invites[c].state # "unminted"
                            /\ PruneInvites(now)[c].state = "pruned"
    BY DEF Prunes
  <2> DEFINE state == IF invites[c].state # "unminted" /\ invites[c].expires + InviteKeep < now
                      THEN "pruned" ELSE invites[c].state
  <2>1. invites[c] \in Invites
    BY DEF TablesTypeOK
  <2>2. PruneInvites(now)[c] = [invites[c] EXCEPT !.state = state]
    BY DEF PruneInvites
  <2>3. state = invites[c].state \/ (invites[c].state # "unminted" /\ state = "pruned")
    OBVIOUS
  <2> HIDE DEF state
  <2> QED
    BY <2>1, <2>2, <2>3 DEF Invites
<1>2. ASSUME NEW d \in Callers, Admit(d)
      PROVE  invites' = PruneInvites(calls[d].now) /\ quota' = quota
  BY <1>2 DEF Admit
<1>3. CASE UNCHANGED <<invites, quota>>
  BY <1>3 DEF Prunes
<1>4. \/ UNCHANGED <<invites, quota>>
      \/ \E d \in Callers : Admit(d)
      \/ \E code \in Codes, q \in InviteQuotas, life \in InviteLives : Invite(code, q, life)
      \/ \E code \in Codes, u \in Users, k \in Keys : Redeem(code, u, k)
  BY DEF Next, Tick, Access, Revoke, Rotate, SetOperator, Admission, CallReserve, Deny,
         Finish, Audit, RecordDenial, RecordStart, DeleteHistory, vars
<1> QED
  BY <1>1, <1>2, <1>3, <1>4

LEMMA InvitesSound ==
    ASSUME MembershipInv, [Next]_vars
    PROVE  OpenGranted' /\ MembersCounted'
<1> USE DEF MembershipInv
<1>1. /\ IsFiniteSet(Members) /\ IsFiniteSet(Drawn) /\ IsFiniteSet(Spent)
      /\ Cardinality(Members) \in Nat /\ Cardinality(Spent) \in Nat
      /\ Cardinality(Founders) \in Nat
  BY SpentFinite, StoreAssumption, FS_CardinalityType DEF MembersCounted
<1>2. CASE Prunes(invites') /\ quota' = quota
  <2>1. OpenGranted'
    BY <1>2 DEF Prunes, OpenGranted
  <2>2. Members' = Members /\ Drawn' = Drawn /\ Spent \subseteq Spent' /\ Spent' \subseteq Drawn
    BY <1>2 DEF Prunes, Members, Joined, Drawn, Spent
  <2>3. /\ IsFiniteSet(Spent') /\ Cardinality(Spent) <= Cardinality(Spent')
        /\ Cardinality(Spent') \in Nat
    BY <1>1, <2>2, FS_Subset, FS_CardinalityType
  <2>4. MembersCounted'
    BY <1>1, <2>2, <2>3 DEF MembersCounted
  <2> QED
    BY <2>1, <2>4
<1>3. ASSUME NEW code \in Codes, NEW q \in InviteQuotas, NEW life \in InviteLives,
             Invite(code, q, life)
      PROVE  OpenGranted' /\ MembersCounted'
  <2>1. /\ invites'[code] = [state |-> "open", expires |-> clock + life, quota |-> q]
        /\ \A c \in Codes \ {code} : invites'[c] = invites[c]
        /\ quota' = quota /\ q \in Granted
    BY <1>3, StoreAssumption DEF Invite, TablesTypeOK
  <2>2. OpenGranted'
    BY <2>1 DEF OpenGranted
  <2>3. Members' = Members /\ Drawn' = Drawn \cup {code} /\ Spent' = Spent
    BY <1>3, <2>1 DEF Members, Joined, Drawn, Spent, Invite
  <2>4. IsFiniteSet(Drawn')
    BY <1>1, <2>3, FS_AddElement
  <2> QED
    BY <1>1, <2>2, <2>3, <2>4 DEF MembersCounted
<1>4. ASSUME NEW code \in Codes, NEW u \in Users, NEW k \in Keys, Redeem(code, u, k)
      PROVE  OpenGranted' /\ MembersCounted'
  <2>1. /\ invites[code].state = "open" /\ invites'[code].state = "redeemed"
        /\ \A c \in Codes \ {code} : invites'[c] = invites[c]
        /\ ~Joined(u) /\ quota' = [quota EXCEPT ![u] = invites[code].quota]
        /\ quota \in [Users -> Quotas]
    <3>1. invites[code] \in Invites
      BY DEF TablesTypeOK
    <3> QED
      BY <1>4, <3>1 DEF Redeem, TablesTypeOK, Invites
  <2>2. OpenGranted'
    BY <2>1 DEF OpenGranted
  <2>3. quota'[u] # NoQuota /\ \A v \in Users \ {u} : quota'[v] = quota[v]
    BY <2>1, GrantedJoins DEF OpenGranted
  <2>4. /\ Members' = Members \cup {u} /\ u \notin Members
        /\ Drawn' = Drawn
        /\ Spent' = Spent \cup {code} /\ code \notin Spent
    BY <2>1, <2>3 DEF Members, Joined, Drawn, Spent
  <2>5. /\ IsFiniteSet(Members') /\ Cardinality(Members') = Cardinality(Members) + 1
        /\ Cardinality(Spent') = Cardinality(Spent) + 1
    BY <1>1, <2>4, FS_AddElement
  <2> QED
    BY <1>1, <2>2, <2>4, <2>5 DEF MembersCounted
<1> QED
  BY <1>2, <1>3, <1>4, InvitesStep

\* A member has one working key at most, and one invitation makes one member at most,
\* whatever is redeemed, rotated, revoked and pruned, and in whatever order.
THEOREM MembershipKept == Spec => []MembershipSound
<1>1. Init => MembershipInv
  BY MembershipInit
<1>2. MembershipInv /\ [Next]_vars => MembershipInv'
  BY StepTyped, KeysSound, InvitesSound DEF MembershipInv
<1>3. MembershipInv => MembershipSound
  BY DEF MembershipInv, MembersCounted, MembershipSound, OneMemberPerInvite, Members, Spent
<1> QED
  BY <1>1, <1>2, <1>3, PTL DEF Spec

-----------------------------------------------------------------------------
(***************************************************************************)
(* Admission.  A step either leaves the ledger thinner (cleanup, deletion  *)
(* of metadata), settles its running row, or thins it and inserts a row    *)
(* that passed every check.  Each limit is preserved by the three.         *)
(***************************************************************************)
Idles ==
    /\ Thins(ledger', ledger) /\ DOMAIN ledger' = DOMAIN ledger
    /\ Running(ledger') = Running(ledger)
    /\ UNCHANGED <<issued, admissions>>

Ends(x) ==
    /\ Settles(ledger', ledger, x)
    /\ UNCHANGED <<clock, quota, issued, admissions>>

Admitted(c) ==
    /\ calls[c] \in ReserveCalls
    /\ Verdict(Swept(ledger, calls[c].now), calls[c]) = "admitted"
    /\ Extended(ledger', Swept(ledger, calls[c].now), issued + 1, calls[c])
    /\ issued' = issued + 1
    /\ admissions' = admissions \cup {[rid |-> issued + 1, user |-> calls[c].user,
                                       idem |-> calls[c].idem, created |-> calls[c].now]}
    /\ UNCHANGED <<clock, quota>>

LEMMA LedgerWellFormed == TablesTypeOK => WellFormed(ledger)
BY NumberedWellFormed DEF TablesTypeOK

LEMMA NextWellFormed == TablesTypeOK' => WellFormed(ledger')
BY NumberedWellFormed DEF TablesTypeOK

LEMMA LedgerStep ==
    ASSUME TablesTypeOK, [Next]_vars
    PROVE  \/ Idles
           \/ \E x \in DOMAIN ledger : Ends(x)
           \/ \E c \in Callers : Admitted(c)
<1>1. ASSUME UNCHANGED <<ledger, issued, admissions>> PROVE Idles
  BY <1>1 DEF Idles, Thins
<1>2. ASSUME NEW c \in Callers, Admit(c) PROVE Admitted(c)
  <2> DEFINE swept == Swept(ledger, calls[c].now)
  <2>1. calls[c] \in ReserveCalls
    BY <1>2, CallTyped DEF Admit
  <2>2. DOMAIN swept \subseteq 1 .. issued
    BY <2>1, SweptTyped DEF TablesTypeOK, ReserveCalls
  <2>3. ledger' = Insert(swept, issued + 1, NewRow(calls[c]))
    BY <1>2 DEF Admit
  <2>4. issued + 1 \notin DOMAIN swept
    BY <2>2 DEF TablesTypeOK
  <2>5. /\ Verdict(swept, calls[c]) = "admitted"
        /\ issued' = issued + 1 /\ UNCHANGED <<clock, quota>>
        /\ admissions' = admissions \cup {[rid |-> issued + 1, user |-> calls[c].user,
                                           idem |-> calls[c].idem, created |-> calls[c].now]}
    BY <1>2 DEF Admit
  <2> HIDE DEF swept
  <2>6. Extended(ledger', swept, issued + 1, calls[c])
    BY <2>3, <2>4 DEF Extended, Insert
  <2> QED
    BY <2>1, <2>5, <2>6 DEF Admitted, swept
<1>3. ASSUME NEW r \in DOMAIN ledger, NEW s \in Endings, NEW n \in Totals \cup {Unknown},
             Finish(r, s, n)
      PROVE  Ends(r)
  <2>1. s \in Outcomes /\ n \in Nat \cup {Unknown}
    BY StoreAssumption
  <2>2. r \in Running(ledger) /\ ledger' = Settle(ledger, r, s, n)
        /\ UNCHANGED <<clock, quota, issued, admissions>>
    BY <1>3 DEF Finish
  <2> QED
    BY <2>1, <2>2, SettleSettles DEF TablesTypeOK, Ends
<1>4. ASSUME NEW u \in Users, DeleteHistory(u) PROVE Idles
  <2>1. ledger' = ClearMeta(ledger, u) /\ UNCHANGED <<issued, admissions>>
    BY <1>4 DEF DeleteHistory
  <2>2. DOMAIN ledger' = DOMAIN ledger
    BY <2>1 DEF ClearMeta
  <2> QED
    BY <2>1, <2>2, ClearMetaThins, LedgerWellFormed DEF Idles
<1>5. CASE Access \/ Tick \/ UNCHANGED vars
  BY <1>1, <1>5 DEF Access, Invite, Redeem, Revoke, Rotate, SetOperator, Tick, vars
<1>6. CASE Admission
  <2>1. ASSUME NEW c \in Callers, NEW u, NEW i, NEW n, CallReserve(c, u, i, n)
        PROVE  Idles
    BY <1>1, <2>1 DEF CallReserve
  <2>2. ASSUME NEW c \in Callers, Deny(c) PROVE Idles
    BY <1>1, <2>2 DEF Deny
  <2> QED
    BY <1>2, <1>3, <1>6, <2>1, <2>2 DEF Admission
<1>7. CASE Audit
  BY <1>1, <1>4, <1>7 DEF Audit, RecordDenial, RecordStart
<1> QED
  BY <1>5, <1>6, <1>7 DEF Next

-----------------------------------------------------------------------------
(***************************************************************************)
(* The inductive invariant: besides the limits themselves it says that a   *)
(* waiting call carries the quota of a member who has joined, since the    *)
(* checks use the quota read with the key and the limits that of the       *)
(* users table.                                                            *)
(***************************************************************************)
CallsCurrent ==
    \A c \in Callers : calls[c] # NoCall =>
        Joined(calls[c].user) /\ calls[c].quota = quota[calls[c].user]

AdmissionInv ==
    /\ TablesTypeOK
    /\ CallsCurrent
    /\ OneRunning
    /\ UniqueIdem
    /\ DailyRequestsKept
    /\ DailyTokensKept
    /\ MonthlyTokensKept
    /\ RateKept

\* A quota is set once, by the redemption of an invitation; before that it is zero.
LEMMA QuotaGrows ==
    ASSUME TablesTypeOK, [Next]_vars, NEW u \in Users
    PROVE  /\ quota[u] \in Quotas /\ quota'[u] \in Quotas
           /\ quota[u].requests <= quota'[u].requests
           /\ quota[u].tokens <= quota'[u].tokens
           /\ Joined(u) => quota'[u] = quota[u]
<1>1. TablesTypeOK'
  BY StepTyped
<1>2. quota[u] \in Quotas /\ quota'[u] \in Quotas
  BY <1>1 DEF TablesTypeOK
<1>3. quota'[u] = quota[u] \/ quota[u] = NoQuota
  <2>1. ASSUME NEW code \in Codes, NEW v \in Users, NEW k \in Keys, Redeem(code, v, k)
        PROVE  quota'[u] = quota[u] \/ quota[u] = NoQuota
    BY <2>1 DEF Redeem, Joined, TablesTypeOK
  <2>2. CASE quota' = quota
    BY <2>2
  <2>3. quota' = quota \/ \E code \in Codes, v \in Users, k \in Keys : Redeem(code, v, k)
    BY DEF Next, Tick, Access, Invite, Revoke, Rotate, SetOperator, Admission, CallReserve,
           Admit, Deny, Finish, Audit, RecordDenial, RecordStart, DeleteHistory, vars
  <2> QED
    BY <2>1, <2>2, <2>3
<1> QED
  BY <1>2, <1>3 DEF Quotas, NoQuota, Joined

LEMMA CallsStep == TablesTypeOK /\ CallsCurrent /\ [Next]_vars => CallsCurrent'
<1> SUFFICES ASSUME TablesTypeOK, CallsCurrent, [Next]_vars,
                    NEW c \in Callers, calls'[c] # NoCall
             PROVE  (Joined(calls[c].user) /\ calls[c].quota = quota[calls[c].user])'
  BY DEF CallsCurrent
<1>1. CASE calls'[c] = calls[c]
  <2>1. calls[c].user \in Users
    BY <1>1, CallTyped DEF ReserveCalls
  <2>2. Joined(calls[c].user) /\ calls[c].quota = quota[calls[c].user]
    BY <1>1 DEF CallsCurrent
  <2>3. quota'[calls[c].user] = quota[calls[c].user]
    BY <2>1, <2>2, QuotaGrows
  <2> QED
    BY <1>1, <2>2, <2>3 DEF Joined
<1>2. CASE calls'[c] # calls[c]
  <2>1. PICK u \in Users, i \in Idems, n \in Estimates : CallReserve(c, u, i, n)
    <3>1. CASE Tick \/ Access \/ Audit \/ UNCHANGED vars
      BY <1>2, <3>1 DEF Tick, Access, Audit, Invite, Redeem, Revoke, Rotate, SetOperator,
            RecordDenial, RecordStart, DeleteHistory, vars
    <3>2. ASSUME NEW d \in Callers, Admit(d) \/ Deny(d) PROVE FALSE
      BY <1>2, <3>2 DEF Admit, Deny, TablesTypeOK
    <3>3. ASSUME NEW r, NEW s, NEW n, Finish(r, s, n) PROVE FALSE
      BY <1>2, <3>3 DEF Finish
    <3>4. ASSUME NEW d \in Callers, NEW u \in Users, NEW i \in Idems, NEW n \in Estimates,
                 CallReserve(d, u, i, n)
          PROVE  d = c
      BY <1>2, <3>4 DEF CallReserve, TablesTypeOK
    <3> QED
      BY <3>1, <3>2, <3>3, <3>4 DEF Next, Admission
  <2> QED
    BY <2>1 DEF CallReserve, TablesTypeOK, Joined
<1> QED
  BY <1>1, <1>2

LEMMA AdmissionInit == Init => AdmissionInv
<1> SUFFICES ASSUME Init PROVE AdmissionInv
  OBVIOUS
<1>1. TablesTypeOK
  BY InitTyped
<1>2. DOMAIN ledger = {}
  BY DEF Init
<1>3. CallsCurrent
  BY DEF CallsCurrent, Init
<1>4. OneRunning /\ UniqueIdem
  BY <1>2 DEF OneRunning, SingleSlot, Running, UniqueIdem, UniqueKeys
<1>5. \A u, d : RowsOfDay(ledger, u, d) = {} /\ RowsOfWindow(ledger, u, d) = {}
  BY <1>2 DEF RowsOfDay, RowsOfWindow
<1>6. \A m : RowsOfMonth(ledger, m) = {}
  BY <1>2 DEF RowsOfMonth
<1>7. Cardinality({}) = 0
  BY FS_EmptySet
<1>8. Charged(ledger, {}) = 0
  BY <1>7 DEF Charged, TokenSet
<1>9. \A u \in Users : quota[u].requests \in Nat /\ quota[u].tokens \in Nat
  BY <1>1 DEF TablesTypeOK, Quotas
<1>10. DailyRequestsKept
  BY <1>5, <1>7, <1>9 DEF DailyRequestsKept
<1>11. DailyTokensKept
  BY <1>5, <1>8, <1>9 DEF DailyTokensKept, WithinBudget
<1>12. MonthlyTokensKept
  BY <1>6, <1>8, LedgerAssumption DEF MonthlyTokensKept, WithinBudget
<1>13. RateKept
  <2>1. 0 <= RateLimit
    BY LedgerAssumption
  <2> QED
    BY <1>5, <1>7, <2>1 DEF RateKept
<1> QED
  BY <1>1, <1>3, <1>4, <1>10, <1>11, <1>12, <1>13 DEF AdmissionInv

\* The cleanup and the deletion of metadata preserve every limit.
LEMMA ThinStep ==
    ASSUME AdmissionInv, [Next]_vars, NEW M, WellFormed(M), Thins(M, ledger)
    PROVE  /\ SingleSlot(M) /\ UniqueKeys(M)
           /\ \A u \in Users, d \in Instant :
                 /\ Cardinality(RowsOfDay(M, u, d)) <= quota'[u].requests
                 /\ WithinBudget(M, RowsOfDay(M, u, d), quota'[u].tokens)
                 /\ Cardinality(RowsOfWindow(M, u, d)) <= RateLimit
           /\ \A m \in Instant : WithinBudget(M, RowsOfMonth(M, m), MonthlyTokens)
<1> USE DEF AdmissionInv
<1>1. WellFormed(ledger)
  BY LedgerWellFormed
<1>2. SingleSlot(M) /\ UniqueKeys(M)
  BY DEF Thins, SingleSlot, UniqueKeys, OneRunning, UniqueIdem, Running
<1>3. ASSUME NEW u \in Users, NEW d \in Instant
      PROVE  /\ Cardinality(RowsOfDay(M, u, d)) <= quota'[u].requests
             /\ WithinBudget(M, RowsOfDay(M, u, d), quota'[u].tokens)
             /\ Cardinality(RowsOfWindow(M, u, d)) <= RateLimit
  <2>1. /\ RowsOfDay(M, u, d) \subseteq RowsOfDay(ledger, u, d)
        /\ RowsOfWindow(M, u, d) \subseteq RowsOfWindow(ledger, u, d)
    BY DEF Thins, RowsOfDay, RowsOfWindow
  <2>2. /\ RowsOfDay(ledger, u, d) \in SUBSET DOMAIN ledger
        /\ RowsOfDay(M, u, d) \in SUBSET DOMAIN M
        /\ RowsOfWindow(ledger, u, d) \in SUBSET DOMAIN ledger
    BY DEF RowsOfDay, RowsOfWindow
  <2>3. /\ quota[u].requests \in Nat /\ quota'[u].requests \in Nat
        /\ quota[u].tokens \in Nat /\ quota'[u].tokens \in Nat
        /\ quota[u].requests <= quota'[u].requests /\ quota[u].tokens <= quota'[u].tokens
    BY QuotaGrows DEF Quotas
  <2>4. Cardinality(RowsOfDay(M, u, d)) <= quota'[u].requests
    <3>1. IsFiniteSet(RowsOfDay(ledger, u, d))
      BY <1>1, <2>2, FS_Subset DEF WellFormed
    <3>2. /\ IsFiniteSet(RowsOfDay(M, u, d))
          /\ Cardinality(RowsOfDay(M, u, d)) <= Cardinality(RowsOfDay(ledger, u, d))
      BY <2>1, <3>1, FS_Subset
    <3>3. /\ Cardinality(RowsOfDay(M, u, d)) \in Nat
          /\ Cardinality(RowsOfDay(ledger, u, d)) \in Nat
      BY <3>1, <3>2, FS_CardinalityType
    <3>4. Cardinality(RowsOfDay(ledger, u, d)) <= quota[u].requests
      BY DEF DailyRequestsKept
    <3> QED
      BY <2>3, <3>2, <3>3, <3>4
  <2>5. WithinBudget(M, RowsOfDay(M, u, d), quota'[u].tokens)
    BY <1>1, <2>1, <2>2, <2>3, ThinBudget DEF DailyTokensKept
  <2>6. Cardinality(RowsOfWindow(M, u, d)) <= RateLimit
    <3>1. IsFiniteSet(RowsOfWindow(ledger, u, d))
      BY <1>1, <2>2, FS_Subset DEF WellFormed
    <3>2. /\ IsFiniteSet(RowsOfWindow(M, u, d))
          /\ Cardinality(RowsOfWindow(M, u, d)) <= Cardinality(RowsOfWindow(ledger, u, d))
      BY <2>1, <3>1, FS_Subset
    <3>3. /\ Cardinality(RowsOfWindow(M, u, d)) \in Nat
          /\ Cardinality(RowsOfWindow(ledger, u, d)) \in Nat
      BY <3>1, <3>2, FS_CardinalityType
    <3>4. Cardinality(RowsOfWindow(ledger, u, d)) <= RateLimit
      BY DEF RateKept
    <3> QED
      BY <3>2, <3>3, <3>4, LedgerAssumption
  <2> QED
    BY <2>4, <2>5, <2>6
<1>4. ASSUME NEW m \in Instant
      PROVE  WithinBudget(M, RowsOfMonth(M, m), MonthlyTokens)
  <2>1. RowsOfMonth(M, m) \subseteq RowsOfMonth(ledger, m)
    BY DEF Thins, RowsOfMonth
  <2>2. /\ RowsOfMonth(ledger, m) \in SUBSET DOMAIN ledger
        /\ RowsOfMonth(M, m) \in SUBSET DOMAIN M
    BY DEF RowsOfMonth
  <2> QED
    BY <1>1, <2>1, <2>2, ThinBudget, LedgerAssumption DEF MonthlyTokensKept
<1> QED
  BY <1>2, <1>3, <1>4

\* Settling the running row preserves every limit.
LEMMA SettleStep ==
    ASSUME AdmissionInv, [Next]_vars, NEW x \in DOMAIN ledger,
           Settles(ledger', ledger, x), quota' = quota
    PROVE  /\ OneRunning' /\ UniqueIdem' /\ DailyRequestsKept' /\ RateKept'
           /\ DailyTokensKept' /\ MonthlyTokensKept'
<1> USE DEF AdmissionInv
<1>1. WellFormed(ledger) /\ WellFormed(ledger') /\ TablesTypeOK'
  <2>1. TablesTypeOK'
    BY StepTyped
  <2>2. TablesTypeOK' => WellFormed(ledger')
    BY NextWellFormed
  <2> QED
    BY <2>1, <2>2, LedgerWellFormed
<1>2. OneRunning' /\ UniqueIdem'
  BY DEF Settles, SingleSlot, UniqueKeys, OneRunning, UniqueIdem, Running
<1>3. \A u, d : /\ RowsOfDay(ledger', u, d) = RowsOfDay(ledger, u, d)
                /\ RowsOfWindow(ledger', u, d) = RowsOfWindow(ledger, u, d)
                /\ RowsOfMonth(ledger', d) = RowsOfMonth(ledger, d)
  BY DEF Settles, RowsOfDay, RowsOfWindow, RowsOfMonth
<1>4. DailyRequestsKept' /\ RateKept'
  BY <1>3 DEF DailyRequestsKept, RateKept
<1>5. SingleSlot(ledger)
  BY DEF OneRunning
<1>6. ASSUME NEW u \in Users, NEW d \in Instant
      PROVE  WithinBudget(ledger', RowsOfDay(ledger', u, d), quota'[u].tokens)
  <2>1. quota[u].tokens \in Nat
    BY DEF TablesTypeOK, Quotas
  <2>2. RowsOfDay(ledger, u, d) \in SUBSET DOMAIN ledger
    BY DEF RowsOfDay
  <2>3. WithinBudget(ledger, RowsOfDay(ledger, u, d), quota[u].tokens)
    BY DEF DailyTokensKept
  <2>4. WithinBudget(ledger', RowsOfDay(ledger, u, d), quota[u].tokens)
    BY <1>1, <1>5, <2>1, <2>2, <2>3, SettleBudget
  <2> QED
    BY <1>3, <2>4
<1>7. ASSUME NEW m \in Instant
      PROVE  WithinBudget(ledger', RowsOfMonth(ledger', m), MonthlyTokens)
  <2>1. RowsOfMonth(ledger, m) \in SUBSET DOMAIN ledger
    BY DEF RowsOfMonth
  <2>2. WithinBudget(ledger, RowsOfMonth(ledger, m), MonthlyTokens)
    BY DEF MonthlyTokensKept
  <2>3. WithinBudget(ledger', RowsOfMonth(ledger, m), MonthlyTokens)
    BY <1>1, <1>5, <2>1, <2>2, SettleBudget, LedgerAssumption
  <2> QED
    BY <1>3, <2>3
<1> QED
  BY <1>2, <1>4, <1>6, <1>7 DEF DailyTokensKept, MonthlyTokensKept

\* A row that passed the checks on a swept ledger M preserves every limit.
LEMMA InsertStep ==
    ASSUME AdmissionInv, [Next]_vars, NEW c \in Callers, Admitted(c)
    PROVE  /\ OneRunning' /\ UniqueIdem' /\ DailyRequestsKept' /\ RateKept'
           /\ DailyTokensKept' /\ MonthlyTokensKept'
<1> DEFINE call == calls[c]
           M    == Swept(ledger, call.now)
           x    == issued + 1
<1>1. WellFormed(ledger) /\ WellFormed(ledger') /\ TablesTypeOK'
  <2>1. TablesTypeOK'
    BY StepTyped DEF AdmissionInv
  <2>2. TablesTypeOK' => WellFormed(ledger')
    BY NextWellFormed
  <2> QED
    BY <2>1, <2>2, LedgerWellFormed DEF AdmissionInv
<1>2. call \in ReserveCalls /\ quota' = quota
  BY DEF Admitted
<1>3. /\ call.user \in Users /\ call.now \in Instant /\ call.tokens \in Nat
      /\ call.quota \in Quotas /\ call.quota = quota[call.user]
  <2>1. call # NoCall
    BY <1>2, StoreAssumption DEF ReserveCalls, NoCall
  <2> QED
    BY <1>2, <2>1 DEF ReserveCalls, AdmissionInv, CallsCurrent
<1>4. WellFormed(M) /\ Thins(M, ledger)
  BY <1>1, SweptThins
<1>5. Extended(ledger', M, x, call)
  BY DEF Admitted
<1>6. /\ ~Duplicate(M, call) /\ ~OverDailyRequests(M, call) /\ ~OverDailyTokens(M, call)
      /\ ~OverMonthlyTokens(M, call) /\ ~OverRate(M, call) /\ ~Busy(M)
  BY DEF Admitted, Verdict
<1> HIDE DEF M, x, call
<1>7. /\ ledger'[x].user = call.user /\ ledger'[x].idem = call.idem
      /\ ledger'[x].created = call.now /\ ledger'[x].status = "running"
  BY <1>5 DEF Extended, NewRow
<1>8. OneRunning'
  BY <1>5, <1>6 DEF OneRunning, SingleSlot, Running, Extended, Busy
<1>9. SingleSlot(M) /\ UniqueKeys(M)
  BY <1>4, ThinStep
<1>10. UniqueIdem'
  BY <1>5, <1>6, <1>7, <1>9 DEF UniqueIdem, UniqueKeys, Extended, Duplicate
<1>11. ASSUME NEW u \in Users, NEW d \in Instant
       PROVE  /\ Cardinality(RowsOfDay(ledger', u, d)) <= quota'[u].requests
              /\ WithinBudget(ledger', RowsOfDay(ledger', u, d), quota'[u].tokens)
  <2> DEFINE S == RowsOfDay(M, u, d)
             B == RowsFrom(M, call.user, DayStart(call.now))
  <2>1. /\ Cardinality(S) <= quota[u].requests /\ WithinBudget(M, S, quota[u].tokens)
        /\ quota[u].requests \in Nat /\ quota[u].tokens \in Nat
    <3>1. quota[u] \in Quotas
      BY DEF AdmissionInv, TablesTypeOK
    <3> QED
      BY <1>2, <1>4, <3>1, ThinStep DEF Quotas
  <2>2. S \in SUBSET DOMAIN M /\ B \in SUBSET DOMAIN M
    BY DEF RowsOfDay, RowsFrom
  <2>3. CASE call.user = u /\ DayStart(call.now) = d
    <3>1. RowsOfDay(ledger', u, d) = S \cup {x}
      BY <1>5, <1>7, <2>3 DEF RowsOfDay, Extended
    <3>2. S \subseteq B
      <4>1. ASSUME NEW r \in S PROVE M[r].created >= DayStart(M[r].created)
        BY <1>4, <2>2, CalendarAssumption DEF WellFormed, Row
      <4> QED
        BY <2>3, <4>1 DEF RowsOfDay, RowsFrom
    <3>3. Cardinality(S \cup {x}) <= quota[u].requests
      <4>1. IsFiniteSet(B)
        BY <1>4, <2>2, FS_Subset DEF WellFormed
      <4>2. Cardinality(B) < quota[u].requests
        <5>1. Cardinality(B) \in Nat
          BY <4>1, FS_CardinalityType
        <5> QED
          BY <1>3, <1>6, <2>1, <2>3, <5>1 DEF OverDailyRequests
      <4> HIDE DEF S, B
      <4> QED
        BY <2>1, <3>2, <4>1, <4>2, InsertCount
    <3>4. WithinBudget(ledger', S \cup {x}, quota[u].tokens)
      <4>1. Charged(M, B) + call.tokens <= quota[u].tokens
        <5>1. Charged(M, B) \in Nat
          BY <1>4, <2>2, TokensFinite
        <5> QED
          BY <1>3, <1>6, <2>1, <2>3, <5>1 DEF OverDailyTokens
      <4> HIDE DEF S, B
      <4> QED
        BY <1>1, <1>2, <1>4, <1>5, <2>1, <2>2, <3>2, <4>1, InsertBudget
    <3> QED
      BY <1>2, <3>1, <3>3, <3>4
  <2>4. CASE ~(call.user = u /\ DayStart(call.now) = d)
    <3>1. RowsOfDay(ledger', u, d) = S
      BY <1>5, <1>7, <2>4 DEF RowsOfDay, Extended
    <3> HIDE DEF S
    <3> QED
      BY <1>2, <1>4, <1>5, <2>1, <2>2, <3>1, BesideBudget
  <2> QED
    BY <2>3, <2>4
<1>12. ASSUME NEW m \in Instant
       PROVE  WithinBudget(ledger', RowsOfMonth(ledger', m), MonthlyTokens)
  <2> DEFINE S == RowsOfMonth(M, m)
             B == AllFrom(M, MonthStart(call.now))
  <2>1. WithinBudget(M, S, MonthlyTokens) /\ MonthlyTokens \in Nat
    BY <1>3, <1>4, ThinStep, LedgerAssumption
  <2>2. S \in SUBSET DOMAIN M /\ B \in SUBSET DOMAIN M
    BY DEF RowsOfMonth, AllFrom
  <2>3. CASE MonthStart(call.now) = m
    <3>1. RowsOfMonth(ledger', m) = S \cup {x}
      BY <1>5, <1>7, <2>3 DEF RowsOfMonth, Extended
    <3>2. S \subseteq B
      <4>1. ASSUME NEW r \in S PROVE M[r].created >= MonthStart(M[r].created)
        BY <1>4, <2>2, CalendarAssumption DEF WellFormed, Row
      <4> QED
        BY <2>3, <4>1 DEF RowsOfMonth, AllFrom
    <3>3. Charged(M, B) + call.tokens <= MonthlyTokens
      <4>1. Charged(M, B) \in Nat
        BY <1>4, <2>2, TokensFinite
      <4> QED
        BY <1>3, <1>6, <2>1, <4>1 DEF OverMonthlyTokens
    <3> HIDE DEF S, B
    <3>4. WithinBudget(ledger', S \cup {x}, MonthlyTokens)
      BY <1>1, <1>2, <1>4, <1>5, <2>1, <2>2, <3>2, <3>3, InsertBudget
    <3> QED
      BY <3>1, <3>4
  <2>4. CASE MonthStart(call.now) # m
    <3>1. RowsOfMonth(ledger', m) = S
      BY <1>5, <1>7, <2>4 DEF RowsOfMonth, Extended
    <3> HIDE DEF S
    <3> QED
      BY <1>4, <1>5, <2>1, <2>2, <3>1, BesideBudget
  <2> QED
    BY <2>3, <2>4
<1>13. ASSUME NEW u \in Users, NEW t \in Instant
       PROVE  Cardinality(RowsOfWindow(ledger', u, t)) <= RateLimit
  <2> DEFINE S == RowsOfWindow(M, u, t)
             B == Recent(M, call)
  <2>1. Cardinality(S) <= RateLimit
    BY <1>4, ThinStep
  <2>2. S \in SUBSET DOMAIN M /\ B \in SUBSET DOMAIN M
    BY DEF RowsOfWindow, Recent
  <2>3. CASE call.user = u /\ call.now <= t /\ t < call.now + RateWindow
    <3>1. RowsOfWindow(ledger', u, t) = S \cup {x}
      BY <1>5, <1>7, <2>3 DEF RowsOfWindow, Extended
    <3>2. S \subseteq B
      <4>1. ASSUME NEW r \in S PROVE M[r].created \in Nat
        BY <1>4, <2>2 DEF WellFormed, Row, Instant
      <4>2. call.now \in Nat /\ t \in Nat /\ RateWindow \in Nat
        BY <1>3, LedgerAssumption DEF Instant
      <4> QED
        BY <2>3, <4>1, <4>2 DEF RowsOfWindow, Recent
    <3>3. IsFiniteSet(B)
      BY <1>4, <2>2, FS_Subset DEF WellFormed
    <3>4. RateLimit \in Nat /\ Cardinality(B) < RateLimit
      <4>1. Cardinality(B) \in Nat /\ RateLimit \in Nat
        BY <3>3, FS_CardinalityType, LedgerAssumption
      <4> QED
        BY <1>6, <4>1 DEF OverRate
    <3> HIDE DEF S, B
    <3> QED
      BY <3>1, <3>2, <3>3, <3>4, InsertCount
  <2>4. CASE ~(call.user = u /\ call.now <= t /\ t < call.now + RateWindow)
    <3>1. RowsOfWindow(ledger', u, t) = S
      BY <1>5, <1>7, <2>4 DEF RowsOfWindow, Extended
    <3> QED
      BY <2>1, <3>1
  <2> QED
    BY <2>3, <2>4
<1> QED
  BY <1>8, <1>10, <1>11, <1>12, <1>13
     DEF DailyRequestsKept, DailyTokensKept, MonthlyTokensKept, RateKept

-----------------------------------------------------------------------------
LEMMA AdmissionStep == AdmissionInv /\ [Next]_vars => AdmissionInv'
<1> SUFFICES ASSUME AdmissionInv, [Next]_vars PROVE AdmissionInv'
  OBVIOUS
<1>1. TablesTypeOK /\ TablesTypeOK'
  BY StepTyped DEF AdmissionInv
<1>2. CallsCurrent'
  BY CallsStep DEF AdmissionInv
<1>3. CASE Thins(ledger', ledger)
  <2>1. WellFormed(ledger')
    BY <1>1, NextWellFormed
  <2>2. OneRunning' /\ UniqueIdem'
    BY <1>3, <2>1, ThinStep DEF OneRunning, UniqueIdem
  <2>3. DailyRequestsKept' /\ RateKept'
    BY <1>3, <2>1, ThinStep DEF DailyRequestsKept, RateKept
  <2>4. DailyTokensKept' /\ MonthlyTokensKept'
    <3>1. \A u \in Users, d \in Instant :
             WithinBudget(ledger', RowsOfDay(ledger', u, d), quota'[u].tokens)
      BY <1>3, <2>1, ThinStep
    <3>2. \A m \in Instant : WithinBudget(ledger', RowsOfMonth(ledger', m), MonthlyTokens)
      BY <1>3, <2>1, ThinStep
    <3> QED
      BY <3>1, <3>2 DEF DailyTokensKept, MonthlyTokensKept
  <2> QED
    BY <1>1, <1>2, <2>2, <2>3, <2>4 DEF AdmissionInv
<1>4. ASSUME NEW x \in DOMAIN ledger, Ends(x)
      PROVE  AdmissionInv'
  BY <1>1, <1>2, <1>4, SettleStep DEF AdmissionInv, Ends
<1>5. ASSUME NEW c \in Callers, Admitted(c) PROVE AdmissionInv'
  BY <1>1, <1>2, <1>5, InsertStep DEF AdmissionInv
<1> QED
  BY <1>1, <1>3, <1>4, <1>5, LedgerStep DEF AdmissionInv, Idles

\* The limits hold together in every reachable state.
THEOREM AdmissionKept == Spec => []AdmissionInv
BY AdmissionInit, AdmissionStep, PTL DEF Spec

\* At most one request is running, whatever calls wait for the write lock.
THEOREM SingleSlotKept == Spec => []OneRunning
<1>1. AdmissionInv => OneRunning
  BY DEF AdmissionInv
<1> QED
  BY AdmissionKept, <1>1, PTL

\* No member has two rows with one idempotency key.
THEOREM IdempotencyKept == Spec => []UniqueIdem
<1>1. AdmissionInv => UniqueIdem
  BY DEF AdmissionInv
<1> QED
  BY AdmissionKept, <1>1, PTL

\* A member has no more rows on one UTC day than the daily quota.
THEOREM DailyRequestsLimit == Spec => []DailyRequestsKept
<1>1. AdmissionInv => DailyRequestsKept
  BY DEF AdmissionInv
<1> QED
  BY AdmissionKept, <1>1, PTL

\* A member's tokens of one UTC day exceed the quota by one answer's excess at most.
THEOREM DailyTokensLimit == Spec => []DailyTokensKept
<1>1. AdmissionInv => DailyTokensKept
  BY DEF AdmissionInv
<1> QED
  BY AdmissionKept, <1>1, PTL

\* The tokens of one calendar month exceed the service budget by one answer's
\* excess at most.
THEOREM MonthlyTokensLimit == Spec => []MonthlyTokensKept
<1>1. AdmissionInv => MonthlyTokensKept
  BY DEF AdmissionInv
<1> QED
  BY AdmissionKept, <1>1, PTL

\* No window of RateWindow holds more than RateLimit admissions of one member.
THEOREM RateLimitKept == Spec => []RateKept
<1>1. AdmissionInv => RateKept
  BY DEF AdmissionInv
<1> QED
  BY AdmissionKept, <1>1, PTL

\* Every limit of reserve at once.
THEOREM LimitsAlwaysKept == Spec => []LimitsKept
<1>1. AdmissionInv => LimitsKept
  BY DEF AdmissionInv, LimitsKept
<1> QED
  BY AdmissionKept, <1>1, PTL

-----------------------------------------------------------------------------
(***************************************************************************)
(* What a step may never do to a row of the ledger.                        *)
(***************************************************************************)
\* A row that is there before and after a step has the same owner and admission; it
\* stops running once, and only then is it charged anything else or described anew.
RowStep(r) ==
    /\ ledger'[r].user = ledger[r].user /\ ledger'[r].idem = ledger[r].idem
    /\ ledger'[r].created = ledger[r].created
    /\ ledger'[r].status # ledger[r].status => ledger[r].status = "running"
    /\ ledger'[r].charged # ledger[r].charged
          => ledger[r].status = "running" /\ ledger'[r].status = "ok"
    /\ ledger[r].status # "running" /\ ledger'[r].meta => ledger[r].meta

LEMMA RowsStep ==
    ASSUME TablesTypeOK, [Next]_vars, NEW r \in DOMAIN ledger \cap DOMAIN ledger'
    PROVE  RowStep(r)
<1>1. CASE Idles
  BY <1>1 DEF Idles, Thins, RowStep
<1>2. ASSUME NEW x \in DOMAIN ledger, Ends(x) PROVE RowStep(r)
  BY <1>2 DEF Ends, Settles, Running, RowStep
<1>3. ASSUME NEW c \in Callers, Admitted(c) PROVE RowStep(r)
  <2> DEFINE M == Swept(ledger, calls[c].now)
  <2>1. Thins(M, ledger) /\ r # issued + 1
    BY LedgerWellFormed, SweptThins DEF TablesTypeOK
  <2>2. Extended(ledger', M, issued + 1, calls[c])
    BY <1>3 DEF Admitted
  <2> HIDE DEF M
  <2>3. r \in DOMAIN M /\ ledger'[r] = M[r]
    BY <2>1, <2>2 DEF Extended
  <2> QED
    BY <2>1, <2>3 DEF Thins, RowStep
<1> QED
  BY <1>1, <1>2, <1>3, LedgerStep

\* A request leaves "running" once, whoever ends it or abandons it first, and nothing is
\* refunded.
THEOREM SettledOnceKept == Spec => SettledOnce
<1>1. TablesTypeOK /\ [Next]_vars =>
         [\A r \in DOMAIN ledger \cap DOMAIN ledger' :
            /\ ledger'[r].status # ledger[r].status => ledger[r].status = "running"
            /\ ledger'[r].charged # ledger[r].charged
                  => ledger[r].status = "running" /\ ledger'[r].status = "ok"]_vars
  BY RowsStep DEF RowStep
<1> QED
  BY <1>1, TablesTyped, PTL DEF Spec, SettledOnce

\* Metadata that was deleted with a member's history, or pruned, never comes back.
THEOREM HistoryDeleted == Spec => HistoryStaysDeleted
<1>1. TablesTypeOK /\ [Next]_vars =>
         [\A r \in DOMAIN ledger \cap DOMAIN ledger' :
            ledger[r].status # "running" /\ ledger'[r].meta => ledger[r].meta]_vars
  BY RowsStep DEF RowStep
<1> QED
  BY <1>1, TablesTyped, PTL DEF Spec, HistoryStaysDeleted

\* Neither deleted metadata nor a revoked key ever comes back.
THEOREM WithdrawnIsFinal == Spec => WithdrawnForGood
BY HistoryDeleted, RevocationIsFinal DEF WithdrawnForGood

-----------------------------------------------------------------------------
(***************************************************************************)
(* The age of a reading of the clock, and what it means for a key that is  *)
(* used again: an admission is in the ledger still, or was deleted by a    *)
(* call that read the clock when the retention was over.                   *)
(***************************************************************************)
CallsFresh ==
    \A c \in Callers : calls[c] # NoCall =>
        calls[c].now <= clock /\ clock <= calls[c].now + LockWait

Known(a) ==
    /\ a.rid \in 1 .. issued
    /\ \/ /\ a.rid \in DOMAIN ledger
          /\ ledger[a.rid].user = a.user /\ ledger[a.rid].idem = a.idem
          /\ ledger[a.rid].created = a.created
       \/ a.created + LedgerKeep < clock

WindowInv ==
    /\ AdmissionInv
    /\ CallsFresh
    /\ \A a \in admissions : Known(a)
    /\ IdempotencyWindow

LEMMA ClockStep ==
    ASSUME TablesTypeOK, [Next]_vars
    PROVE  /\ clock \in Nat /\ clock' \in Nat /\ clock <= clock'
           /\ clock' # clock => Tick
<1>1. clock \in Nat
  BY LedgerAssumption DEF TablesTypeOK, Instant
<1>2. clock' = clock \/ Tick
  BY DEF Next, Access, Invite, Redeem, Revoke, Rotate, SetOperator, Admission, CallReserve,
         Admit, Deny, Finish, Audit, RecordDenial, RecordStart, DeleteHistory, vars
<1> QED
  BY <1>1, <1>2 DEF Tick

LEMMA CallsFreshStep ==
    ASSUME TablesTypeOK, CallsFresh, [Next]_vars
    PROVE  CallsFresh'
<1> SUFFICES ASSUME NEW c \in Callers, calls'[c] # NoCall
             PROVE  calls'[c].now <= clock' /\ clock' <= calls'[c].now + LockWait
  BY DEF CallsFresh
<1>1. clock \in Nat /\ LockWait \in Nat
  BY ClockStep, StoreAssumption
<1>2. CASE Tick
  <2>1. calls[c] # NoCall /\ calls'[c] = calls[c] /\ clock' = clock + 1
    BY <1>2 DEF Tick
  <2>2. calls[c].now \in Nat
    BY <2>1, CallTyped, LedgerAssumption DEF ReserveCalls, Instant
  <2>3. calls[c].now <= clock /\ clock < calls[c].now + LockWait
    BY <1>2, <2>1 DEF Tick, CallsFresh
  <2> QED
    BY <1>1, <2>1, <2>2, <2>3
<1>3. CASE ~Tick /\ calls'[c] = calls[c]
  BY <1>3, ClockStep DEF CallsFresh
<1>4. CASE ~Tick /\ calls'[c] # calls[c]
  <2>1. PICK d \in Callers, u \in Users, i \in Idems, n \in Estimates : CallReserve(d, u, i, n)
    <3>1. ASSUME NEW d \in Callers, Admit(d) \/ Deny(d) PROVE FALSE
      BY <1>4, <3>1 DEF Admit, Deny, TablesTypeOK
    <3> QED
      BY <1>4, <3>1 DEF Next, Access, Invite, Redeem, Revoke, Rotate, SetOperator, Admission,
         Finish, Audit, RecordDenial, RecordStart, DeleteHistory, vars
  <2>2. calls'[c].now = clock /\ clock' = clock
    BY <1>4, <2>1 DEF CallReserve, TablesTypeOK
  <2> QED
    BY <1>1, <2>2
<1> QED
  BY <1>2, <1>3, <1>4

\* What was admitted before a step stays known.
LEMMA KnownStep ==
    ASSUME WindowInv, [Next]_vars, NEW a \in admissions
    PROVE  Known(a)'
<1> USE DEF WindowInv, AdmissionInv
<1>1. /\ a.created \in Nat /\ issued \in Nat /\ LedgerKeep \in Nat
      /\ clock \in Nat /\ clock' \in Nat /\ clock <= clock' /\ Known(a)
  BY ClockStep, LedgerAssumption DEF TablesTypeOK, Instant
<1>2. CASE Idles
  BY <1>1, <1>2 DEF Idles, Thins, Known
<1>3. ASSUME NEW x \in DOMAIN ledger, Ends(x) PROVE Known(a)'
  BY <1>1, <1>3 DEF Ends, Settles, Known
<1>4. ASSUME NEW c \in Callers, Admitted(c) PROVE Known(a)'
  <2> DEFINE now == calls[c].now
             M == Swept(ledger, now)
  <2>1. now \in Nat /\ now <= clock /\ issued' = issued + 1
    <3>1. calls[c] \in ReserveCalls /\ calls[c] # NoCall
      BY <1>4, StoreAssumption DEF Admitted, ReserveCalls, NoCall
    <3> QED
      BY <1>4, <3>1, LedgerAssumption DEF Admitted, ReserveCalls, Instant, CallsFresh
  <2>2. Thins(M, ledger) /\ Extended(ledger', M, issued + 1, calls[c])
    BY <1>4, LedgerWellFormed, SweptThins DEF Admitted
  <2>3. DOMAIN M = {r \in DOMAIN ledger : ledger[r].created + LedgerKeep >= now}
    BY DEF Swept, Kept
  <2> HIDE DEF M, now
  <2>4. CASE a.rid \in DOMAIN M
    <3>1. a.rid \in DOMAIN ledger /\ ledger'[a.rid] = M[a.rid] /\ a.rid \in DOMAIN ledger'
      BY <2>2, <2>3, <2>4 DEF Extended
    <3> QED
      BY <1>1, <2>1, <2>2, <2>4, <3>1 DEF Known, Thins
  <2>5. CASE a.rid \notin DOMAIN M
    <3>1. a.created + LedgerKeep < clock
      BY <1>1, <2>1, <2>3, <2>5 DEF Known
    <3> QED
      BY <1>1, <2>1, <3>1 DEF Known
  <2> QED
    BY <2>4, <2>5
<1> QED
  BY <1>2, <1>3, <1>4, LedgerStep

LEMMA WindowStep == WindowInv /\ [Next]_vars => WindowInv'
<1> SUFFICES ASSUME WindowInv, [Next]_vars PROVE WindowInv'
  OBVIOUS
<1> USE DEF WindowInv
<1>1. AdmissionInv' /\ TablesTypeOK /\ CallsFresh'
  BY AdmissionStep, CallsFreshStep DEF AdmissionInv
<1>2. CASE admissions' = admissions
  <2>1. \A a \in admissions' : Known(a)'
    BY <1>2, KnownStep
  <2> QED
    BY <1>1, <1>2, <2>1 DEF IdempotencyWindow
<1>3. ASSUME NEW c \in Callers, Admitted(c) PROVE WindowInv'
  <2> DEFINE call == calls[c]
             M    == Swept(ledger, call.now)
  <2> PICK new : new = [rid |-> issued + 1, user |-> call.user, idem |-> call.idem,
                        created |-> call.now]
    OBVIOUS
  <2>1. /\ call \in ReserveCalls /\ call # NoCall /\ call.now \in Nat
        /\ call.now <= clock /\ clock <= call.now + LockWait
    <3>1. call \in ReserveCalls /\ call # NoCall
      BY <1>3, StoreAssumption DEF Admitted, ReserveCalls, NoCall
    <3> QED
      BY <3>1, LedgerAssumption DEF ReserveCalls, Instant, CallsFresh
  <2>2. /\ Thins(M, ledger) /\ Extended(ledger', M, issued + 1, call)
        /\ ~Duplicate(M, call)
    BY <1>1, <1>3, LedgerWellFormed, SweptThins DEF Admitted, Verdict
  <2>3. DOMAIN M = {r \in DOMAIN ledger : ledger[r].created + LedgerKeep >= call.now}
    BY DEF Swept, Kept
  <2>4. /\ admissions' = admissions \cup {new} /\ issued' = issued + 1 /\ clock' = clock
    BY <1>3 DEF Admitted
  <2>5. /\ new.rid = issued + 1 /\ new.user = call.user /\ new.idem = call.idem
        /\ new.created = call.now
    OBVIOUS
  <2> HIDE DEF M, call
  <2>6. issued \in Nat /\ clock \in Nat /\ LockWait \in Nat /\ LedgerKeep \in Nat
    BY <1>1, ClockStep, StoreAssumption, LedgerAssumption DEF TablesTypeOK
  <2>7. Known(new)'
    BY <2>2, <2>4, <2>5, <2>6 DEF Known, Extended, NewRow
  <2>8. \A a \in admissions' : Known(a)'
    BY <2>4, <2>7, KnownStep
  <2>9. ASSUME NEW a \in admissions
        PROVE  a.rid <= issued /\ a.rid \in Nat /\ a.created \in Nat /\ Known(a)
    BY <1>1, LedgerAssumption DEF Known, TablesTypeOK, Instant
  <2>10. ASSUME NEW a \in admissions, a.user = new.user, a.idem = new.idem
         PROVE  a.created + LedgerKeep < new.created + LockWait
    <3>1. CASE a.created + LedgerKeep < clock
      BY <2>1, <2>5, <2>6, <2>9, <3>1
    <3>2. CASE /\ a.rid \in DOMAIN ledger
               /\ ledger[a.rid].user = a.user /\ ledger[a.rid].idem = a.idem
               /\ ledger[a.rid].created = a.created
      <4>1. a.rid \notin DOMAIN M
        BY <2>2, <2>5, <2>10, <3>2 DEF Thins, Duplicate
      <4>2. a.created + LedgerKeep < call.now
        BY <2>1, <2>3, <2>6, <2>9, <3>2, <4>1
      <4> QED
        BY <2>1, <2>5, <2>6, <2>9, <4>2
    <3> QED
      BY <2>9, <3>1, <3>2 DEF Known
  <2>11. IdempotencyWindow'
    BY <2>4, <2>5, <2>6, <2>9, <2>10 DEF IdempotencyWindow
  <2> QED
    BY <1>1, <2>8, <2>11
<1> QED
  BY <1>1, <1>2, <1>3, LedgerStep DEF Idles, Ends

LEMMA WindowInit == Init => WindowInv
<1> SUFFICES ASSUME Init PROVE WindowInv
  OBVIOUS
<1>1. CallsFresh
  BY DEF Init, CallsFresh
<1>2. admissions = {}
  BY DEF Init
<1> QED
  BY <1>1, <1>2, AdmissionInit DEF WindowInv, IdempotencyWindow

\* A key admits a second request only when the first is older than the retention, less
\* the time a call may wait for the write lock: rows that were deleted in between, late
\* calls and calls with an old reading of the clock included.
THEOREM IdempotencyWindowKept == Spec => []IdempotencyWindow
<1>1. WindowInv => IdempotencyWindow
  BY DEF WindowInv
<1> QED
  BY <1>1, WindowInit, WindowStep, PTL DEF Spec

-----------------------------------------------------------------------------
(***************************************************************************)
(* The store implements the lease.  A call takes the slot over only when   *)
(* the row that held it has lapsed at the instant the call read, which is  *)
(* not later than now; and the lease of a row is over before the row is    *)
(* deleted.                                                                *)
(***************************************************************************)
LEMMA Held ==
    ASSUME SingleSlot(ledger), NEW x \in Running(ledger)
    PROVE  Running(ledger) = {x} /\ Holder = x /\ Since = ledger[x].created
<1>1. Running(ledger) = {x}
  BY DEF SingleSlot
<1> QED
  BY <1>1 DEF Holder, Since

LEMMA Free == Running(ledger) = {} => Holder = Unknown /\ Since = 0
BY DEF Holder, Since

\* The same in the next state.
LEMMA HeldNext ==
    ASSUME SingleSlot(ledger'), NEW x \in Running(ledger')
    PROVE  Holder' = x /\ Since' = ledger'[x].created
<1>1. Running(ledger') = {x}
  BY DEF SingleSlot
<1> QED
  BY <1>1 DEF Holder, Since

LEMMA FreeNext == Running(ledger') = {} => Holder' = Unknown /\ Since' = 0
BY DEF Holder, Since

\* Whoever still runs when another call is admitted has lapsed.
LEMMA TakesOverLapsed ==
    ASSUME WindowInv, NEW c \in Callers, Admitted(c), NEW x \in Running(ledger)
    PROVE  ledger[x].created + 2 * Deadline < clock
<1> DEFINE now == calls[c].now
           M   == Swept(ledger, now)
<1> USE DEF WindowInv, AdmissionInv
<1>1. calls[c] \in ReserveCalls /\ calls[c] # NoCall
  BY StoreAssumption DEF Admitted, ReserveCalls, NoCall
<1>2. now \in Nat /\ now <= clock /\ clock \in Nat
  BY <1>1, LedgerAssumption DEF ReserveCalls, Instant, CallsFresh, TablesTypeOK
<1>3. x \in DOMAIN ledger /\ ledger[x] \in Row /\ ledger[x].status = "running"
  BY DEF Running, TablesTypeOK
<1>4. /\ ledger[x].created \in Nat /\ Deadline \in Nat /\ LedgerKeep \in Nat
      /\ 2 * Deadline <= LedgerKeep
  BY <1>3, LedgerAssumption DEF Row, Instant
<1>5. Running(M) = {}
  BY DEF Admitted, Verdict, Busy
<1>6. CASE x \notin Kept(ledger, now)
  BY <1>2, <1>3, <1>4, <1>6 DEF Kept
<1>7. CASE x \in Kept(ledger, now)
  <2>1. x \in DOMAIN M /\ M[x].status # "running"
    BY <1>5, <1>7 DEF Running, Swept
  <2>2. Lapsed(ledger[x], now)
    BY <1>3, <1>7, <2>1 DEF Swept, Row
  <2> QED
    BY <1>2, <1>4, <2>2 DEF Lapsed
<1> QED
  BY <1>6, <1>7

LEMMA LeaseStep ==
    ASSUME WindowInv, WindowInv', [Next]_vars
    PROVE  [Lease!LeaseTick \/ Lease!Acquire \/ Lease!Release]_(Lease!leaseVars)
<1> USE DEF WindowInv, AdmissionInv, OneRunning
<1>1. CASE Tick
  <2>1. UNCHANGED <<ledger, issued>> /\ clock < Horizon /\ clock' = clock + 1
    BY <1>1 DEF Tick
  <2>2. UNCHANGED <<Holder, Since>>
    BY <2>1 DEF Holder, Since
  <2> QED
    BY <2>1, <2>2 DEF Lease!LeaseTick
<1>2. CASE ~Tick /\ Idles
  <2>1. clock' = clock /\ issued' = issued
    BY <1>2, ClockStep DEF Idles
  <2>2. Running(ledger') = Running(ledger)
    BY <1>2 DEF Idles
  <2>3. \A x \in Running(ledger) : ledger'[x].created = ledger[x].created
    BY <1>2 DEF Idles, Thins, Running
  <2>4. UNCHANGED <<Holder, Since>>
    <3>1. CASE Running(ledger) = {}
      BY <2>2, <3>1, Free, FreeNext
    <3>2. ASSUME NEW x \in Running(ledger) PROVE UNCHANGED <<Holder, Since>>
      BY <2>2, <2>3, <3>2, Held, HeldNext
    <3> QED
      BY <3>1, <3>2
  <2> QED
    BY <2>1, <2>4 DEF Lease!leaseVars
<1>3. ASSUME NEW x \in DOMAIN ledger, Ends(x) PROVE Lease!Release
  <2>1. x \in Running(ledger) /\ x \in Nat
    BY <1>3 DEF Ends, Settles, TablesTypeOK
  <2>2. Running(ledger') = {}
    BY <1>3 DEF Ends, Settles, SingleSlot, Running
  <2>3. Holder # Unknown
    BY <2>1, Held, LedgerAssumption
  <2> QED
    BY <1>3, <2>2, <2>3, FreeNext DEF Lease!Release, Ends
<1>4. ASSUME NEW c \in Callers, Admitted(c) PROVE Lease!Acquire
  <2> DEFINE now == calls[c].now
             x   == issued + 1
  <2>1. calls[c] \in ReserveCalls /\ calls[c] # NoCall
    BY <1>4, StoreAssumption DEF Admitted, ReserveCalls, NoCall
  <2>2. now \in Nat /\ now <= clock /\ clock <= now + LockWait /\ clock \in Nat
    BY <2>1, LedgerAssumption DEF ReserveCalls, Instant, CallsFresh, TablesTypeOK
  <2>3. x \in DOMAIN ledger' /\ ledger'[x] = NewRow(calls[c])
    BY <1>4 DEF Admitted, Extended
  <2>4. x \in Running(ledger') /\ ledger'[x].created = now
    BY <2>3 DEF NewRow, Running
  <2>5. Holder' = x /\ Since' = now
    BY <2>4, HeldNext
  <2>6. Holder = Unknown \/ Since + 2 * Deadline < clock
    <3>1. CASE Running(ledger) = {}
      BY <3>1, Free
    <3>2. ASSUME NEW y \in Running(ledger) PROVE Since + 2 * Deadline < clock
      BY <1>4, <3>2, Held, TakesOverLapsed
    <3> QED
      BY <3>1, <3>2
  <2>7. issued' = issued + 1 /\ clock' = clock
    BY <1>4 DEF Admitted
  <2> QED
    BY <2>2, <2>5, <2>6, <2>7 DEF Lease!Acquire
<1> QED
  BY <1>1, <1>2, <1>3, <1>4, LedgerStep

\* The slot is taken over only from a request older than twice the deadline, and given up
\* only by the request that holds it: the store refines the lease.
THEOREM LeaseImplemented == Spec => ImplementsLease
<1>1. Init => Lease!LeaseInit
  <2> SUFFICES ASSUME Init PROVE Lease!LeaseInit
    OBVIOUS
  <2>1. Running(ledger) = {}
    BY DEF Init, Running
  <2> QED
    BY <2>1, Free DEF Init, Lease!LeaseInit
<1>2. WindowInv /\ WindowInv' /\ [Next]_vars
         => [Lease!LeaseTick \/ Lease!Acquire \/ Lease!Release]_(Lease!leaseVars)
  BY LeaseStep
<1> QED
  BY <1>1, <1>2, WindowInit, WindowStep, PTL DEF Spec, ImplementsLease, Lease!LeaseSpec

-----------------------------------------------------------------------------
LEMMA Greatest ==
    ASSUME NEW n \in Nat, NEW T, T \subseteq 1 .. n, T # {}
    PROVE  Max(T) \in T /\ \A j \in T : j <= Max(T)
<1> DEFINE above == {m \in 0 .. n : \A j \in T : j <= m}
<1>1. above \subseteq Nat /\ n \in above
  OBVIOUS
<1>2. PICK m \in above : \A k \in above : m <= k
  BY <1>1, Least
<1>3. m \in T
  <2> SUFFICES ASSUME m \notin T PROVE FALSE
    OBVIOUS
  <2>1. m \in Nat /\ m <= n /\ \A j \in T : j \in Nat /\ 1 <= j /\ j < m
    BY <1>2
  <2>2. m >= 2
    <3> PICK j \in T : TRUE
      OBVIOUS
    <3> QED
      BY <2>1
  <2>3. m - 1 \in 0 .. n /\ \A j \in T : j <= m - 1
    BY <2>1, <2>2
  <2> QED
    BY <1>2, <2>1, <2>3
<1>4. \E i \in T : \A j \in T : i >= j
  BY <1>2, <1>3
<1>5. Max(T) \in T /\ \A j \in T : Max(T) >= j
  BY <1>4 DEF Max
<1> QED
  BY <1>5

-----------------------------------------------------------------------------
(***************************************************************************)
(* The event log.  What it promises is about one row or about two in their *)
(* order, so a part of it keeps it; an event that is added is not a denial *)
(* just told, and its request has no end in the log yet.                   *)
(***************************************************************************)
LogOf(l, last, running) ==
    /\ l \in Seq(Events)
    /\ \A i, j \in DOMAIN l :
          i < j /\ l[i].kind = "request_rejected" /\ Same(l[i], l[j])
              => l[i].created + CoalesceWindow <= l[j].created
    /\ \A i, j \in DOMAIN l :
          i < j /\ l[i].rid = l[j].rid /\ l[i].rid # 0
              => l[i].kind = "request_admitted" /\ l[j].kind = "request_finished"
    /\ \A i \in DOMAIN l :
          l[i].rid # 0 =>
              /\ l[i].rid <= last
              /\ l[i].kind \in {"request_admitted", "request_finished"}
              /\ l[i].kind = "request_finished" => l[i].rid \notin running

LogInv == TablesTypeOK /\ LogOf(log, issued, Running(ledger))

\* Deleted rows, the oldest or those of a member, take nothing away from it.
LEMMA PartSound ==
    ASSUME NEW s, NEW t, NEW last, NEW running,
           LogOf(s, last, running), t \in Seq(Events), PartOf(t, s)
    PROVE  LogOf(t, last, running)
<1>1. ASSUME NEW m \in DOMAIN t, NEW n \in DOMAIN t, m < n
      PROVE  /\ t[m].kind = "request_rejected" /\ Same(t[m], t[n])
                   => t[m].created + CoalesceWindow <= t[n].created
             /\ t[m].rid = t[n].rid /\ t[m].rid # 0
                   => t[m].kind = "request_admitted" /\ t[n].kind = "request_finished"
  <2> PICK i \in DOMAIN s, j \in DOMAIN s : i < j /\ t[m] = s[i] /\ t[n] = s[j]
    BY <1>1 DEF PartOf
  <2> QED
    BY DEF LogOf
<1>2. ASSUME NEW n \in DOMAIN t
      PROVE  t[n].rid # 0 =>
                /\ t[n].rid <= last
                /\ t[n].kind \in {"request_admitted", "request_finished"}
                /\ t[n].kind = "request_finished" => t[n].rid \notin running
  <2> PICK i \in DOMAIN s : t[n] = s[i]
    BY DEF PartOf
  <2> QED
    BY DEF LogOf
<1> QED
  BY <1>1, <1>2 DEF LogOf

\* Requests may be issued and may stop running meanwhile.
LEMMA LaterSound ==
    ASSUME NEW l, NEW last \in Nat, NEW later \in Nat, NEW running, NEW running2,
           LogOf(l, last, running), last <= later,
           \A r \in running2 : r \in running \/ r > last
    PROVE  LogOf(l, later, running2)
<1>1. ASSUME NEW i \in DOMAIN l, l[i].rid # 0
      PROVE  /\ l[i].rid <= later
             /\ l[i].kind = "request_finished" => l[i].rid \notin running2
  <2>1. l[i].rid \in Nat
    <3>1. l \in Seq(Events)
      BY DEF LogOf
    <3>2. l[i] \in Events
      BY <3>1, LenProperties, ElementOfSeq
    <3> QED
      BY <3>2 DEF Events
  <2> QED
    BY <1>1, <2>1 DEF LogOf
<1> QED
  BY <1>1 DEF LogOf

\* The events there are: of no request, of one that is admitted, of one that ends.
Tells(e, last, running, later, running2) ==
    \/ e.rid = 0
    \/ e.kind = "request_admitted" /\ e.rid > last /\ e.rid <= later
    \/ e.kind = "request_finished" /\ e.rid \in running \ running2 /\ e.rid <= last

LEMMA AppendSound ==
    ASSUME NEW l, NEW last \in Nat, NEW later \in Nat, NEW running, NEW running2,
           LogOf(l, last, running), last <= later,
           \A r \in running2 : r \in running \/ r > last,
           NEW e \in Events, ~Coalesced(l, e), Tells(e, last, running, later, running2)
    PROVE  LogOf(Append(l, e), later, running2)
<1> DEFINE t == Append(l, e)
<1>1. /\ LogOf(l, later, running2) /\ LogOf(l, last, running)
  BY LaterSound
<1>2. /\ Len(l) \in Nat /\ DOMAIN l = 1 .. Len(l) /\ \A i \in DOMAIN l : l[i] \in Events
      /\ t \in Seq(Events) /\ DOMAIN t = 1 .. Len(l) + 1
      /\ \A i \in DOMAIN l : t[i] = l[i]
      /\ t[Len(l) + 1] = e
  <2>1. l \in Seq(Events)
    BY DEF LogOf
  <2> QED
    BY <2>1, LenProperties, ElementOfSeq, AppendProperties
<1> HIDE DEF t
<1>3. \A i \in DOMAIN t : i \in DOMAIN l \/ i = Len(l) + 1
  BY <1>2
<1>4. ASSUME NEW i \in DOMAIN l, l[i].kind = "request_rejected", Same(l[i], e)
      PROVE  l[i].created + CoalesceWindow <= e.created
  <2> DEFINE prior == {k \in DOMAIN l : Same(l[k], e)}
  <2>1. prior \subseteq 1 .. Len(l) /\ i \in prior
    BY <1>2, <1>4
  <2>2. Max(prior) \in prior /\ i <= Max(prior)
    <3> HIDE DEF prior
    <3>1. prior # {}
      BY <2>1
    <3> QED
      BY <1>2, <2>1, <3>1, Greatest
  <2>3. e.kind = "request_rejected"
    BY <1>4 DEF Same
  <2>4. ~(e.created < l[Max(prior)].created + CoalesceWindow)
    BY <2>1, <2>3 DEF Coalesced
  <2> PICK m \in DOMAIN l : Same(l[m], e) /\ i <= m
                            /\ ~(e.created < l[m].created + CoalesceWindow)
    BY <2>2, <2>4
  <2>5. /\ e.created \in Nat /\ l[i].created \in Nat /\ l[m].created \in Nat
        /\ CoalesceWindow \in Nat /\ i \in Nat /\ m \in Nat
    <3>1. \A f \in Events : f.created \in Nat
      BY LedgerAssumption DEF Events, Instant
    <3>2. l[i] \in Events /\ l[m] \in Events /\ i \in 1 .. Len(l) /\ m \in 1 .. Len(l)
      BY <1>2
    <3> QED
      BY <3>1, <3>2, EventAssumption
  <2>6. CASE i = m
    BY <2>5, <2>6
  <2>7. CASE i < m
    <3>1. Same(l[i], l[m])
      BY <1>4 DEF Same
    <3>2. l[i].created + CoalesceWindow <= l[m].created
      BY <1>4, <2>7, <3>1 DEF LogOf
    <3> QED
      BY <2>5, <3>2
  <2> QED
    BY <2>5, <2>6, <2>7
<1>5. ASSUME NEW i \in DOMAIN l, l[i].rid = e.rid, e.rid # 0
      PROVE  l[i].kind = "request_admitted" /\ e.kind = "request_finished"
  <2>1. /\ l[i].rid <= last /\ l[i].kind \in {"request_admitted", "request_finished"}
        /\ l[i].kind = "request_finished" => l[i].rid \notin running
    BY <1>5 DEF LogOf
  <2>2. e.rid \in Nat
    BY DEF Events
  <2> QED
    BY <1>5, <2>1, <2>2 DEF Tells
<1>6. ASSUME NEW i \in DOMAIN t, NEW j \in DOMAIN t, i < j
      PROVE  /\ t[i].kind = "request_rejected" /\ Same(t[i], t[j])
                   => t[i].created + CoalesceWindow <= t[j].created
             /\ t[i].rid = t[j].rid /\ t[i].rid # 0
                   => t[i].kind = "request_admitted" /\ t[j].kind = "request_finished"
  <2>1. i \in DOMAIN l /\ t[i] = l[i]
    BY <1>2, <1>6
  <2>2. CASE j \in DOMAIN l
    BY <1>1, <1>2, <1>6, <2>1, <2>2 DEF LogOf
  <2>3. CASE j = Len(l) + 1
    BY <1>2, <1>4, <1>5, <2>1, <2>3
  <2> QED
    BY <1>3, <2>2, <2>3
<1>7. ASSUME NEW i \in DOMAIN t, t[i].rid # 0
      PROVE  /\ t[i].rid <= later
             /\ t[i].kind \in {"request_admitted", "request_finished"}
             /\ t[i].kind = "request_finished" => t[i].rid \notin running2
  <2>1. CASE i \in DOMAIN l
    BY <1>1, <1>2, <1>7, <2>1 DEF LogOf
  <2>2. CASE i = Len(l) + 1
    <3>1. t[i] = e /\ e.rid \in Nat /\ e.rid # 0
      BY <1>2, <1>7, <2>2 DEF Events
    <3> QED
      BY <3>1 DEF Tells
  <2> QED
    BY <1>3, <2>1, <2>2
<1> QED
  BY <1>2, <1>6, <1>7 DEF LogOf, t

\* _event: coalesced or added, then trimmed by age and by number.
LEMMA LoggedSound ==
    ASSUME NEW l, NEW last \in Nat, NEW later \in Nat, NEW running, NEW running2,
           LogOf(l, last, running), last <= later,
           \A r \in running2 : r \in running \/ r > last,
           NEW e \in Events, Tells(e, last, running, later, running2)
    PROVE  LogOf(Logged(l, e), later, running2)
<1>1. CASE Coalesced(l, e)
  <2>1. Logged(l, e) = l
    BY <1>1 DEF Logged
  <2> QED
    BY <2>1, LaterSound
<1>2. CASE ~Coalesced(l, e)
  <2> DEFINE all   == Append(l, e)
             young == {i \in DOMAIN all : all[i].created + EventKeep >= e.created}
             kept  == RowsAt(all, young)
  <2>1. LogOf(all, later, running2)
    BY <1>2, AppendSound
  <2>2. Logged(l, e) = Newest(kept, EventLimit)
    BY <1>2 DEF Logged
  <2>3. young \subseteq DOMAIN all
    OBVIOUS
  <2> HIDE DEF all, young
  <2>4. kept \in Seq(Events) /\ PartOf(kept, all)
    BY <2>1, <2>3, RowsAtPart DEF LogOf
  <2> HIDE DEF kept
  <2>5. LogOf(kept, later, running2)
    BY <2>1, <2>4, PartSound
  <2>6. Newest(kept, EventLimit) \in Seq(Events) /\ PartOf(Newest(kept, EventLimit), kept)
    BY <2>4, NewestPart, EventAssumption
  <2> QED
    BY <2>2, <2>5, <2>6, PartSound
<1> QED
  BY <1>1, <1>2

\* delete_history.
LEMMA PurgedSound ==
    ASSUME NEW l, NEW last, NEW running, LogOf(l, last, running), NEW u
    PROVE  LogOf(Purged(l, u), last, running)
<1> DEFINE others == {i \in DOMAIN l : ~(l[i].user = u /\ l[i].kind \in RequestKinds)}
           kept   == RowsAt(l, others)
<1>1. Purged(l, u) = kept /\ others \subseteq DOMAIN l
  BY DEF Purged
<1> HIDE DEF others
<1>2. kept \in Seq(Events) /\ PartOf(kept, l)
  BY <1>1, RowsAtPart DEF LogOf
<1> HIDE DEF kept
<1> QED
  BY <1>1, <1>2, PartSound

\* The requests that run after a step ran before it, or were just admitted.
LEMMA RunningStep ==
    ASSUME TablesTypeOK, [Next]_vars
    PROVE  /\ issued \in Nat /\ issued' \in Nat /\ issued <= issued'
           /\ \A r \in Running(ledger') : r \in Running(ledger) \/ r > issued
<1>1. issued \in Nat /\ DOMAIN ledger \subseteq 1 .. issued
  BY DEF TablesTypeOK
<1>2. CASE Idles
  BY <1>1, <1>2 DEF Idles
<1>3. ASSUME NEW x \in DOMAIN ledger, Ends(x)
      PROVE  issued' = issued /\ Running(ledger') \subseteq Running(ledger)
  BY <1>3 DEF Ends, Settles, Running
<1>4. ASSUME NEW c \in Callers, Admitted(c)
      PROVE  issued' = issued + 1
             /\ \A r \in Running(ledger') : r \in Running(ledger) \/ r > issued
  <2> DEFINE M == Swept(ledger, calls[c].now)
  <2>1. Thins(M, ledger)
    BY LedgerWellFormed, SweptThins
  <2>2. Extended(ledger', M, issued + 1, calls[c]) /\ issued' = issued + 1
    BY <1>4 DEF Admitted
  <2> HIDE DEF M
  <2>3. ASSUME NEW r \in Running(ledger')
        PROVE  r \in Running(ledger) \/ r > issued
    <3>1. CASE r = issued + 1
      BY <1>1, <3>1
    <3>2. CASE r # issued + 1
      <4>1. r \in DOMAIN M /\ ledger'[r] = M[r]
        BY <2>2, <2>3, <3>2 DEF Extended, Running
      <4> QED
        BY <2>1, <2>3, <4>1 DEF Thins, Running
    <3> QED
      BY <3>1, <3>2
  <2> QED
    BY <2>2, <2>3
<1> QED
  BY <1>1, <1>2, <1>3, <1>4, LedgerStep

\* Every event that a step writes is one of the log's and tells of its request in turn.
LEMMA LogStep == LogInv /\ [Next]_vars => LogInv'
<1> SUFFICES ASSUME LogInv, [Next]_vars PROVE LogInv'
  OBVIOUS
<1> DEFINE before == Running(ledger)
           after  == Running(ledger')
<1>1. /\ TablesTypeOK /\ TablesTypeOK' /\ clock \in Instant
      /\ LogOf(log, issued, before)
  BY StepTyped DEF LogInv, TablesTypeOK
<1>2. /\ issued \in Nat /\ issued' \in Nat /\ issued <= issued'
      /\ \A r \in after : r \in before \/ r > issued
  BY <1>1, RunningStep
<1>3. SUFFICES LogOf(log', issued', after)
  BY <1>1 DEF LogInv
<1> HIDE DEF before, after
<1>4. CASE log' = log
  BY <1>1, <1>2, <1>4, LaterSound
<1>5. ASSUME NEW e \in Events, Tells(e, issued, before, issued', after), log' = Logged(log, e)
      PROVE  LogOf(log', issued', after)
  BY <1>1, <1>2, <1>5, LoggedSound
<1>6. ASSUME NEW kind \in {"request_rejected", "operator_granted", "operator_revoked",
                           "service_started"},
             NEW u \in Users \cup {NoUser}, NEW code \in DenialCodes \cup {"none"},
             log' = Logged(log, Event(clock, kind, u, 0, code))
      PROVE  LogOf(log', issued', after)
  <2> DEFINE e == Event(clock, kind, u, 0, code)
  <2>1. e \in Events /\ e.rid = 0
    BY <1>1 DEF Event, Events, RequestKinds
  <2> HIDE DEF e
  <2>2. Tells(e, issued, before, issued', after)
    BY <2>1 DEF Tells
  <2> QED
    BY <1>5, <1>6, <2>1, <2>2 DEF e
<1>7. ASSUME NEW u \in Users, NEW b \in BOOLEAN, SetOperator(u, b)
      PROVE  LogOf(log', issued', after)
  BY <1>6, <1>7 DEF SetOperator
<1>8. ASSUME NEW c \in Callers, Admit(c)
      PROVE  LogOf(log', issued', after)
  <2> DEFINE e == Event(clock, "request_admitted", calls[c].user, issued + 1, "none")
  <2>1. calls[c].user \in Users
    BY <1>1, <1>8, CallTyped DEF Admit, ReserveCalls
  <2>2. /\ e \in Events /\ e.kind = "request_admitted" /\ e.rid = issued + 1
        /\ issued' = issued + 1 /\ log' = Logged(log, e)
    BY <1>1, <1>2, <1>8, <2>1 DEF Admit, Event, Events, RequestKinds
  <2> HIDE DEF e
  <2>3. Tells(e, issued, before, issued', after)
    BY <1>2, <2>2 DEF Tells
  <2> QED
    BY <1>5, <2>2, <2>3
<1>9. ASSUME NEW r \in DOMAIN ledger, NEW s \in Endings, NEW n \in Totals \cup {Unknown},
             Finish(r, s, n)
      PROVE  LogOf(log', issued', after)
  <2> DEFINE e == Event(clock, "request_finished", ledger[r].user, r, s)
  <2>1. ledger[r].user \in Users /\ r \in Nat /\ r <= issued
    BY <1>1 DEF TablesTypeOK, Row
  <2>2. /\ e \in Events /\ e.kind = "request_finished" /\ e.rid = r
        /\ log' = Logged(log, e)
    BY <1>1, <1>9, <2>1 DEF Finish, Event, Events, RequestKinds
  <2> HIDE DEF e
  <2>3. r \in before /\ r \notin after
    <3>1. r \in Running(ledger) /\ ledger' = Settle(ledger, r, s, n)
      BY <1>9 DEF Finish
    <3>2. s \in Outcomes /\ n \in Nat \cup {Unknown}
      BY StoreAssumption
    <3>3. Settles(ledger', ledger, r)
      BY <1>1, <3>1, <3>2, SettleSettles DEF TablesTypeOK
    <3> QED
      BY <3>1, <3>3 DEF Settles, Running, before, after
  <2>4. Tells(e, issued, before, issued', after)
    BY <2>1, <2>2, <2>3 DEF Tells
  <2> QED
    BY <1>5, <2>2, <2>4
<1>10. ASSUME NEW u \in Users, NEW code \in DenialCodes, RecordDenial(u, code)
       PROVE  LogOf(log', issued', after)
  BY <1>6, <1>10 DEF RecordDenial
<1>11. CASE RecordStart
  BY <1>6, <1>11 DEF RecordStart
<1>12. ASSUME NEW u \in Users, DeleteHistory(u)
       PROVE  LogOf(log', issued', after)
  <2>1. log' = Purged(log, u)
    BY <1>12 DEF DeleteHistory
  <2>2. LogOf(log', issued, before)
    BY <1>1, <2>1, PurgedSound
  <2> QED
    BY <1>2, <2>2, LaterSound
<1>13. CASE UNCHANGED vars \/ Tick \/ Access
  <2>1. \/ log' = log
        \/ \E u \in Users, b \in BOOLEAN : SetOperator(u, b)
    BY <1>13 DEF vars, Tick, Access, Invite, Redeem, Revoke, Rotate
  <2> QED
    BY <1>4, <1>7, <2>1
<1>14. CASE Admission
  <2>1. \/ log' = log
        \/ \E c \in Callers : Admit(c)
        \/ \E r \in DOMAIN ledger, s \in Endings, n \in Totals \cup {Unknown} : Finish(r, s, n)
    BY <1>14 DEF Admission, CallReserve, Deny
  <2> QED
    BY <1>4, <1>8, <1>9, <2>1
<1>15. CASE Audit
  BY <1>10, <1>11, <1>12, <1>15 DEF Audit
<1> QED
  BY <1>13, <1>14, <1>15 DEF Next

LEMMA LogInitially == Init => LogInv
<1> SUFFICES ASSUME Init PROVE LogInv
  OBVIOUS
<1>1. log = <<>>
  BY DEF Init
<1>2. log \in Seq(Events) /\ DOMAIN log = {}
  BY <1>1
<1> QED
  BY <1>2, InitTyped DEF LogInv, LogOf

\* Every table of the store, the event log too, keeps its columns and their types.
THEOREM StoreTyped == Spec => []TypeOK
<1>1. LogInv => TypeOK
  BY DEF LogInv, LogOf, TypeOK
<1> QED
  BY <1>1, LogInitially, LogStep, PTL DEF Spec

\* Whatever the order of commits, the types, the single slot and the uniqueness of keys.
THEOREM AdmissionAlwaysSound == Spec => []AdmissionSound
BY StoreTyped, SingleSlotKept, IdempotencyKept, PTL DEF AdmissionSound

\* However the log is coalesced, trimmed and purged, and whatever is abandoned or ends
\* late, it has no denial twice within the window and of a request its admission, then one
\* end.
THEOREM LogKept == Spec => []LogSound
<1>1. LogInv => LogSound
  BY DEF LogInv, LogOf, LogSound, DenialsSpaced, OneEndPerRequest
<1> QED
  BY <1>1, LogInitially, LogStep, PTL DEF Spec
=============================================================================
