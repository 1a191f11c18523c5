---------------------------- MODULE LedgerProofs ----------------------------
(***************************************************************************)
(* Lemmas about the operators of Ledger, for every value of its constants: *)
(* what the cleanup, a settlement, a new row and the deletion of metadata  *)
(* do to a ledger.  The proofs of AssistantStore and of AnswerService cite *)
(* them.                                                                   *)
(***************************************************************************)
EXTENDS Ledger, FiniteSetTheorems, TLAPS

\* A finite set of rows, each of its type.
WellFormed(L) == IsFiniteSet(DOMAIN L) /\ L \in [DOMAIN L -> Row]

LEMMA NumberedWellFormed ==
    ASSUME NEW L, NEW n \in Nat, DOMAIN L \subseteq 1 .. n, L \in [DOMAIN L -> Row]
    PROVE  WellFormed(L)
<1>1. IsFiniteSet(1 .. n)
  BY FS_Interval
<1>2. IsFiniteSet(DOMAIN L)
  BY <1>1, FS_Subset
<1> QED
  BY <1>2 DEF WellFormed

\* The cleanup of a well-formed ledger leaves a well-formed part of it.
LEMMA SweptTyped ==
    ASSUME NEW L, L \in [DOMAIN L -> Row], NEW now
    PROVE  /\ DOMAIN Swept(L, now) \subseteq DOMAIN L
           /\ Swept(L, now) \in [DOMAIN Swept(L, now) -> Row]
<1>1. Kept(L, now) \subseteq DOMAIN L
  BY DEF Kept
<1>2. ASSUME NEW r \in Kept(L, now)
      PROVE  [L[r] EXCEPT
                 !.status = IF Lapsed(L[r], now) THEN "abandoned" ELSE @,
                 !.meta   = @ /\ L[r].created + MetaKeep >= now] \in Row
  <2>1. L[r] \in Row
    BY <1>1, <1>2
  <2>2. (IF Lapsed(L[r], now) THEN "abandoned" ELSE L[r].status) \in Statuses
    BY <2>1 DEF Row, Statuses
  <2>3. (L[r].meta /\ L[r].created + MetaKeep >= now) \in BOOLEAN
    OBVIOUS
  <2> QED
    BY <2>1, <2>2, <2>3 DEF Row
<1> QED
  BY <1>1, <1>2 DEF Swept

\* A ledger stays well formed when a running row is inserted under the next
\* identifier, when a row is settled, and when metadata is cleared.
LEMMA InsertTyped ==
    ASSUME NEW n \in Nat, NEW L, DOMAIN L \subseteq 1 .. n, L \in [DOMAIN L -> Row],
           NEW row \in Row
    PROVE  /\ DOMAIN Insert(L, n + 1, row) = DOMAIN L \cup {n + 1}
           /\ DOMAIN Insert(L, n + 1, row) \subseteq 1 .. n + 1
           /\ Insert(L, n + 1, row) \in [DOMAIN L \cup {n + 1} -> Row]
BY DEF Insert

LEMMA SettleTyped ==
    ASSUME NEW L, L \in [DOMAIN L -> Row], NEW rid \in DOMAIN L,
           NEW status \in Outcomes, NEW total \in Nat \cup {Unknown}
    PROVE  /\ DOMAIN Settle(L, rid, status, total) = DOMAIN L
           /\ Settle(L, rid, status, total) \in [DOMAIN L -> Row]
<1> DEFINE new == [L[rid] EXCEPT !.status  = status,
                                 !.meta    = TRUE,
                                 !.charged = IF status = "ok" /\ total # Unknown
                                             THEN total ELSE @]
<1>1. L[rid] \in Row
  OBVIOUS
<1>2. status \in Statuses
  BY DEF Statuses
<1>3. (IF status = "ok" /\ total # Unknown THEN total ELSE L[rid].charged) \in Nat
  BY <1>1 DEF Row
<1>4. new \in Row
  BY <1>1, <1>2, <1>3 DEF Row
<1>5. Settle(L, rid, status, total) = [L EXCEPT ![rid] = new]
  BY DEF Settle
<1> QED
  BY <1>4, <1>5

LEMMA ClearMetaTyped ==
    ASSUME NEW L, L \in [DOMAIN L -> Row], NEW u
    PROVE  /\ DOMAIN ClearMeta(L, u) = DOMAIN L
           /\ ClearMeta(L, u) \in [DOMAIN L -> Row]
<1>1. ASSUME NEW r \in DOMAIN L
      PROVE  [L[r] EXCEPT !.meta = @ /\ L[r].user # u] \in Row
  <2>1. L[r] \in Row
    OBVIOUS
  <2>2. (L[r].meta /\ L[r].user # u) \in BOOLEAN
    OBVIOUS
  <2> QED
    BY <2>1, <2>2 DEF Row
<1> QED
  BY <1>1 DEF ClearMeta

\* M has some of the rows of L, unchanged but for metadata that was cleared and for
\* running rows that were abandoned.
Thins(M, L) ==
    /\ DOMAIN M \subseteq DOMAIN L
    /\ \A r \in DOMAIN M :
          /\ M[r].user = L[r].user /\ M[r].idem = L[r].idem
          /\ M[r].created = L[r].created /\ M[r].charged = L[r].charged
          /\ M[r].meta => L[r].meta
          /\ \/ M[r].status = L[r].status
             \/ L[r].status = "running" /\ M[r].status = "abandoned"

LEMMA SweptThins ==
    ASSUME NEW L, WellFormed(L), NEW now
    PROVE  Thins(Swept(L, now), L) /\ WellFormed(Swept(L, now))
<1>1. DOMAIN Swept(L, now) \subseteq DOMAIN L
  BY DEF Swept, Kept
<1>2. ASSUME NEW r \in DOMAIN Swept(L, now)
      PROVE  /\ Swept(L, now)[r] \in Row
             /\ Swept(L, now)[r].user = L[r].user /\ Swept(L, now)[r].idem = L[r].idem
             /\ Swept(L, now)[r].created = L[r].created
             /\ Swept(L, now)[r].charged = L[r].charged
             /\ Swept(L, now)[r].meta => L[r].meta
             /\ \/ Swept(L, now)[r].status = L[r].status
                \/ L[r].status = "running" /\ Swept(L, now)[r].status = "abandoned"
  <2> DEFINE status == IF Lapsed(L[r], now) THEN "abandoned" ELSE L[r].status
             meta   == L[r].meta /\ L[r].created + MetaKeep >= now
  <2>1. L[r] \in Row
    BY <1>1, <1>2 DEF WellFormed
  <2>2. Swept(L, now)[r] = [[L[r] EXCEPT !.status = status] EXCEPT !.meta = meta]
    BY <1>2 DEF Swept
  <2>3. status \in Statuses /\ meta \in BOOLEAN
    BY <2>1 DEF Row, Statuses
  <2>4. status = L[r].status \/ (L[r].status = "running" /\ status = "abandoned")
    BY DEF Lapsed
  <2>5. meta => L[r].meta
    OBVIOUS
  <2> HIDE DEF status, meta
  <2>6. Swept(L, now)[r].meta = meta
    BY <2>1, <2>2, <2>3 DEF Row
  <2>7. Swept(L, now)[r].meta => L[r].meta
    BY <2>5, <2>6
  <2> QED
    BY <2>1, <2>2, <2>3, <2>4, <2>7 DEF Row
<1>3. IsFiniteSet(DOMAIN Swept(L, now))
  BY <1>1, FS_Subset DEF WellFormed
<1>4. Swept(L, now) \in [DOMAIN Swept(L, now) -> Row]
  BY <1>2 DEF Swept
<1> QED
  BY <1>1, <1>2, <1>3, <1>4 DEF Thins, WellFormed

LEMMA ClearMetaThins ==
    ASSUME NEW L, WellFormed(L), NEW u
    PROVE  /\ Thins(ClearMeta(L, u), L)
           /\ Running(ClearMeta(L, u)) = Running(L)
<1>1. ASSUME NEW r \in DOMAIN L
      PROVE  /\ ClearMeta(L, u)[r].user = L[r].user /\ ClearMeta(L, u)[r].idem = L[r].idem
             /\ ClearMeta(L, u)[r].created = L[r].created
             /\ ClearMeta(L, u)[r].charged = L[r].charged
             /\ ClearMeta(L, u)[r].status = L[r].status
             /\ ClearMeta(L, u)[r].meta => L[r].meta
  <2> DEFINE meta == L[r].meta /\ L[r].user # u
  <2>1. L[r] \in Row /\ meta \in BOOLEAN /\ (meta => L[r].meta)
    BY DEF WellFormed
  <2>2. ClearMeta(L, u)[r] = [L[r] EXCEPT !.meta = meta]
    BY DEF ClearMeta
  <2> HIDE DEF meta
  <2>3. ClearMeta(L, u)[r].meta = meta
    BY <2>1, <2>2 DEF Row
  <2>4. ClearMeta(L, u)[r].meta => L[r].meta
    BY <2>1, <2>3
  <2> QED
    BY <2>1, <2>2, <2>4 DEF Row
<1> QED
  BY <1>1 DEF Thins, ClearMeta, Running

-----------------------------------------------------------------------------
(***************************************************************************)
(* Charged is a sum: the tokens of a finite set of rows are finitely many, *)
(* fewer rows hold no more of them, and one row more adds its charge.      *)
(***************************************************************************)
LEMMA TokensFinite ==
    ASSUME NEW L, WellFormed(L), NEW S \in SUBSET DOMAIN L
    PROVE  IsFiniteSet(TokenSet(L, S)) /\ Charged(L, S) \in Nat
<1> DEFINE held == [r \in S |-> {r} \X (1 .. L[r].charged)]
           T    == {held[r] : r \in S}
<1>1. IsFiniteSet(S)
  BY FS_Subset DEF WellFormed
<1>2. held \in Surjection(S, T)
  BY DEF Surjection
<1>3. IsFiniteSet(T)
  BY <1>1, <1>2, FS_Surjection
<1>4. ASSUME NEW r \in S PROVE IsFiniteSet(held[r])
  <2>1. L[r].charged \in Nat
    BY DEF WellFormed, Row
  <2>2. IsFiniteSet(1 .. L[r].charged)
    BY <2>1, FS_Interval
  <2>3. IsFiniteSet({r})
    BY FS_Singleton
  <2> QED
    BY <2>2, <2>3, FS_Product
<1>5. TokenSet(L, S) = UNION T
  BY DEF TokenSet
<1>6. IsFiniteSet(UNION T)
  <2>1. \A X \in T : IsFiniteSet(X)
    BY <1>4
  <2> HIDE DEF T
  <2> QED
    BY <1>3, <2>1, FS_UNION
<1> QED
  BY <1>5, <1>6, FS_CardinalityType DEF Charged

LEMMA ChargedMonotone ==
    ASSUME NEW L, WellFormed(L), NEW M, WellFormed(M),
           NEW S \in SUBSET DOMAIN L, NEW T \in SUBSET DOMAIN M,
           T \subseteq S, \A r \in T : M[r].charged = L[r].charged
    PROVE  Charged(M, T) <= Charged(L, S)
<1>1. TokenSet(M, T) \subseteq TokenSet(L, S)
  BY DEF TokenSet
<1>2. IsFiniteSet(TokenSet(L, S))
  BY TokensFinite
<1> QED
  BY <1>1, <1>2, FS_Subset DEF Charged

LEMMA ChargedInsert ==
    ASSUME NEW L, WellFormed(L), NEW S \in SUBSET DOMAIN L, NEW x \in DOMAIN L, x \notin S
    PROVE  Charged(L, S \cup {x}) = Charged(L, S) + L[x].charged
<1> DEFINE new == {x} \X (1 .. L[x].charged)
<1>1. TokenSet(L, S \cup {x}) = TokenSet(L, S) \cup new
  BY DEF TokenSet
<1>2. TokenSet(L, S) \cap new = {}
  BY DEF TokenSet
<1>3. L[x].charged \in Nat
  BY DEF WellFormed, Row
<1>4. IsFiniteSet(new) /\ Cardinality(new) = L[x].charged
  <2>1. IsFiniteSet(1 .. L[x].charged) /\ Cardinality(1 .. L[x].charged) = L[x].charged
    BY <1>3, FS_Interval
  <2>2. IsFiniteSet({x}) /\ Cardinality({x}) = 1
    BY FS_Singleton
  <2> QED
    BY <1>3, <2>1, <2>2, FS_Product
<1>5. IsFiniteSet(TokenSet(L, S)) /\ Charged(L, S) \in Nat
  BY TokensFinite
<1> HIDE DEF new
<1>6. Cardinality(TokenSet(L, S) \cup new)
        = Cardinality(TokenSet(L, S)) + Cardinality(new) - Cardinality({})
  BY <1>2, <1>4, <1>5, FS_Union
<1>7. Cardinality({}) = 0
  BY FS_EmptySet
<1>8. /\ Charged(L, S \cup {x}) = Cardinality(TokenSet(L, S) \cup new)
      /\ Charged(L, S) = Cardinality(TokenSet(L, S))
  BY <1>1 DEF Charged
<1> QED
  BY <1>3, <1>4, <1>5, <1>6, <1>7, <1>8

-----------------------------------------------------------------------------
(***************************************************************************)
(* The two other things a step does to a ledger.                           *)
(***************************************************************************)
\* The running row x of L is settled in M.
Settles(M, L, x) ==
    /\ DOMAIN M = DOMAIN L /\ x \in Running(L)
    /\ \A r \in DOMAIN L \ {x} : M[r] = L[r]
    /\ M[x].user = L[x].user /\ M[x].idem = L[x].idem /\ M[x].created = L[x].created
    /\ M[x].status # "running"
    /\ M[x].status = "ok" \/ M[x].charged = L[x].charged

\* M is L with the row of call c inserted under the new identifier x.
Extended(M, L, x, c) ==
    /\ DOMAIN M = DOMAIN L \cup {x} /\ x \notin DOMAIN L
    /\ \A r \in DOMAIN L : M[r] = L[r]
    /\ M[x] = NewRow(c)

\* Settling a running row settles it, with the status given and the total charged if it
\* is known and the answer ok.
LEMMA SettleSettles ==
    ASSUME NEW L, L \in [DOMAIN L -> Row], NEW rid \in Running(L),
           NEW status \in Outcomes, NEW total \in Nat \cup {Unknown}
    PROVE  /\ Settles(Settle(L, rid, status, total), L, rid)
           /\ Settle(L, rid, status, total)[rid].status = status
           /\ Settle(L, rid, status, total)[rid].charged =
                 IF status = "ok" /\ total # Unknown THEN total ELSE L[rid].charged
<1> DEFINE charged == IF status = "ok" /\ total # Unknown THEN total ELSE L[rid].charged
           new == [L[rid] EXCEPT !.status = status, !.meta = TRUE, !.charged = charged]
<1>1. rid \in DOMAIN L /\ L[rid] \in Row
  BY DEF Running
<1>2. Settle(L, rid, status, total) = [L EXCEPT ![rid] = new]
  BY DEF Settle
<1>3. status # "running" /\ (status = "ok" \/ charged = L[rid].charged)
  BY DEF Outcomes
<1> HIDE DEF charged
<1>4. /\ new.user = L[rid].user /\ new.idem = L[rid].idem
      /\ new.created = L[rid].created /\ new.status = status /\ new.charged = charged
  BY <1>1 DEF Row
<1> HIDE DEF new
<1>5. Settle(L, rid, status, total)[rid] = new
  BY <1>1, <1>2
<1>6. Settles(Settle(L, rid, status, total), L, rid)
  BY <1>1, <1>2, <1>3, <1>4 DEF Settles
<1> QED
  BY <1>4, <1>5, <1>6 DEF charged

LEMMA ThinBudget ==
    ASSUME NEW L, WellFormed(L), NEW M, WellFormed(M), Thins(M, L),
           NEW S \in SUBSET DOMAIN L, NEW T \in SUBSET DOMAIN M, T \subseteq S,
           NEW n \in Nat, NEW m \in Nat, n <= m, WithinBudget(L, S, n)
    PROVE  WithinBudget(M, T, m)
<1>1. CASE Charged(L, S) <= n
  <2>1. Charged(M, T) <= Charged(L, S)
    BY ChargedMonotone DEF Thins
  <2>2. Charged(L, S) \in Nat /\ Charged(M, T) \in Nat
    BY TokensFinite
  <2> QED
    BY <1>1, <2>1, <2>2 DEF WithinBudget
<1>2. ASSUME S \cap Running(L) = {}, NEW r \in S, L[r].status = "ok",
             Charged(L, S \ {r}) <= n
      PROVE  WithinBudget(M, T, m)
  <2>1. T \cap Running(M) = {}
    BY <1>2 DEF Running, Thins
  <2>2. Charged(M, T \ {r}) <= Charged(L, S \ {r})
    BY ChargedMonotone DEF Thins
  <2>3. Charged(L, S \ {r}) \in Nat /\ Charged(M, T \ {r}) \in Nat
    BY TokensFinite
  <2>4. CASE r \in T
    <3>1. M[r].status = "ok"
      BY <1>2, <2>4 DEF Thins
    <3>2. Charged(M, T \ {r}) <= m
      BY <1>2, <2>2, <2>3
    <3> QED
      BY <2>1, <2>4, <3>1, <3>2 DEF WithinBudget
  <2>5. CASE r \notin T
    <3>1. T \ {r} = T
      BY <2>5
    <3> QED
      BY <1>2, <2>2, <2>3, <3>1 DEF WithinBudget
  <2> QED
    BY <2>4, <2>5
<1> QED
  BY <1>1, <1>2 DEF WithinBudget

LEMMA SettleBudget ==
    ASSUME NEW L, WellFormed(L), NEW M, WellFormed(M), SingleSlot(L),
           NEW x, Settles(M, L, x),
           NEW S \in SUBSET DOMAIN L, NEW n \in Nat, WithinBudget(L, S, n)
    PROVE  WithinBudget(M, S, n)
<1>1. Running(M) = {}
  BY DEF Running, Settles, SingleSlot
<1>2. CASE x \notin S
  <2>1. \A r \in S : M[r] = L[r]
    BY <1>2 DEF Settles
  <2>2. ASSUME NEW R \in SUBSET S
        PROVE  Charged(M, R) = Charged(L, R)
    BY <2>1, <2>2 DEF Charged, TokenSet
  <2> QED
    BY <1>1, <2>1, <2>2 DEF WithinBudget
<1>3. CASE x \in S
  <2>1. Charged(L, S) <= n
    BY <1>3 DEF WithinBudget, Settles
  <2>2. Charged(L, S) \in Nat /\ Charged(M, S) \in Nat /\ Charged(M, S \ {x}) \in Nat
    BY TokensFinite DEF Settles
  <2>3. CASE M[x].charged = L[x].charged
    <3>1. Charged(M, S) <= Charged(L, S)
      BY <2>3, ChargedMonotone DEF Settles
    <3> QED
      BY <2>1, <2>2, <3>1 DEF WithinBudget
  <2>4. CASE M[x].status = "ok"
    <3>1. Charged(M, S \ {x}) <= Charged(L, S)
      BY ChargedMonotone DEF Settles
    <3>2. Charged(M, S \ {x}) <= n
      BY <2>1, <2>2, <3>1
    <3>3. S \cap Running(M) = {}
      BY <1>1
    <3> QED
      BY <1>3, <2>4, <3>2, <3>3 DEF WithinBudget
  <2> QED
    BY <2>3, <2>4 DEF Settles
<1> QED
  BY <1>2, <1>3

LEMMA InsertBudget ==
    ASSUME NEW L, WellFormed(L), NEW M, WellFormed(M),
           NEW x, NEW c \in ReserveCalls, Extended(M, L, x, c),
           NEW S \in SUBSET DOMAIN L, NEW B \in SUBSET DOMAIN L, S \subseteq B,
           NEW n \in Nat, Charged(L, B) + c.tokens <= n
    PROVE  WithinBudget(M, S \cup {x}, n)
<1>1. Charged(M, S \cup {x}) = Charged(M, S) + M[x].charged
  BY ChargedInsert DEF Extended
<1>2. M[x].charged = c.tokens
  BY DEF Extended, NewRow
<1>3. Charged(M, S) <= Charged(L, B)
  BY ChargedMonotone DEF Extended
<1>4. Charged(M, S) \in Nat /\ Charged(L, B) \in Nat /\ c.tokens \in Nat
  BY TokensFinite DEF Extended, ReserveCalls
<1> QED
  BY <1>1, <1>2, <1>3, <1>4 DEF WithinBudget

LEMMA BesideBudget ==
    ASSUME NEW L, WellFormed(L), NEW M, NEW x, NEW c, Extended(M, L, x, c),
           NEW S \in SUBSET DOMAIN L, NEW n \in Nat, WithinBudget(L, S, n)
    PROVE  WithinBudget(M, S, n)
<1>1. \A r \in S : M[r] = L[r]
  BY DEF Extended
<1>2. ASSUME NEW R \in SUBSET S
      PROVE  Charged(M, R) = Charged(L, R)
  BY <1>1, <1>2 DEF Charged, TokenSet
<1>3. S \cap Running(M) = S \cap Running(L)
  BY <1>1 DEF Running, Extended
<1> QED
  BY <1>1, <1>2, <1>3 DEF WithinBudget

LEMMA InsertCount ==
    ASSUME NEW B, IsFiniteSet(B), NEW S \in SUBSET B, NEW x,
           NEW n \in Nat, Cardinality(B) < n
    PROVE  Cardinality(S \cup {x}) <= n
<1>1. IsFiniteSet(S) /\ Cardinality(S) <= Cardinality(B)
  BY FS_Subset
<1>2. Cardinality(S \cup {x}) <= Cardinality(S) + 1
  <2>1. Cardinality(S) \in Nat
    BY <1>1, FS_CardinalityType
  <2> QED
    BY <1>1, <2>1, FS_AddElement
<1>3. Cardinality(S \cup {x}) \in Nat /\ Cardinality(S) \in Nat /\ Cardinality(B) \in Nat
  BY <1>1, FS_AddElement, FS_CardinalityType
<1> QED
  BY <1>1, <1>2, <1>3
=============================================================================
