------------------------- MODULE LedgerReads_proofs -------------------------
(***************************************************************************)
(* The theorems about LedgerReads, for every list, length of a page, set   *)
(* of imports and order of the rows.                                       *)
(***************************************************************************)
EXTENDS ReadsProperties, LedgerImport_proofs, FiniteSetTheorems

-----------------------------------------------------------------------------
(* The places of the rows of a sorted list: S the rows, R the order.       *)

Linear(S, R) ==
  /\ \A x \in S : <<x, x>> \notin R
  /\ \A x, y, z \in S : <<x, y>> \in R /\ <<y, z>> \in R => <<x, z>> \in R
  /\ \A x, y \in S : x = y \/ <<x, y>> \in R \/ <<y, x>> \in R

RowsBefore(S, R, x) == { y \in S : <<y, x>> \in R }

Place(S, R, x) == Cardinality(RowsBefore(S, R, x))

LEMMA PlaceType ==
  ASSUME NEW S, IsFiniteSet(S), NEW R, Linear(S, R), NEW x \in S
  PROVE  /\ IsFiniteSet(RowsBefore(S, R, x))
         /\ Place(S, R, x) \in Nat /\ Cardinality(S) \in Nat
         /\ Place(S, R, x) < Cardinality(S)
<1> DEFINE B == RowsBefore(S, R, x)
<1>1. B \in SUBSET S /\ x \notin B
  BY DEF RowsBefore, Linear
<1> HIDE DEF B
<1>2. IsFiniteSet(B) /\ Cardinality(B) <= Cardinality(S) /\ B # S
  BY <1>1, FS_Subset
<1>3. Cardinality(B) # Cardinality(S)
  BY <1>1, <1>2, FS_Subset
<1>4. Cardinality(B) \in Nat /\ Cardinality(S) \in Nat
  BY <1>2, FS_CardinalityType
<1> QED
  BY <1>2, <1>3, <1>4 DEF B, Place

LEMMA PlaceLess ==
  ASSUME NEW S, IsFiniteSet(S), NEW R, Linear(S, R), NEW x \in S, NEW y \in S,
         <<x, y>> \in R
  PROVE  Place(S, R, x) < Place(S, R, y)
<1> DEFINE B == RowsBefore(S, R, x)
           C == RowsBefore(S, R, y)
<1>1. B \in SUBSET C /\ B # C
  BY DEF RowsBefore, Linear
<1>2. IsFiniteSet(C) /\ Place(S, R, x) \in Nat /\ Place(S, R, y) \in Nat
  BY PlaceType
<1>3. Place(S, R, x) = Cardinality(B) /\ Place(S, R, y) = Cardinality(C)
  BY DEF Place
<1> HIDE DEF B, C
<1>4. Cardinality(B) <= Cardinality(C) /\ (Cardinality(C) = Cardinality(B) => C = B)
  BY <1>1, <1>2, FS_Subset
<1> QED
  BY <1>1, <1>2, <1>3, <1>4

LEMMA PlaceUnique ==
  ASSUME NEW S, IsFiniteSet(S), NEW R, Linear(S, R), NEW x \in S, NEW y \in S,
         Place(S, R, x) = Place(S, R, y)
  PROVE  x = y
<1>1. Place(S, R, x) \in Nat /\ Place(S, R, y) \in Nat
  BY PlaceType
<1>2. <<x, y>> \notin R /\ <<y, x>> \notin R
  BY <1>1, PlaceLess
<1> QED
  BY <1>2 DEF Linear

(* Every place is taken. *)
LEMMA PlaceTaken ==
  ASSUME NEW S, IsFiniteSet(S), NEW R, Linear(S, R),
         NEW n \in Nat, n < Cardinality(S)
  PROVE  \E x \in S : Place(S, R, x) = n
<1> DEFINE T == 0..(Cardinality(S) - 1)
           f == [x \in S |-> Place(S, R, x)]
<1>1. Cardinality(S) \in Nat
  BY FS_CardinalityType
<1>2. IsFiniteSet(T) /\ Cardinality(T) = Cardinality(S)
  <2>1. 0 \in Int /\ Cardinality(S) - 1 \in Int /\ ~(0 > Cardinality(S) - 1)
    BY <1>1
  <2>2. IsFiniteSet(T) /\ Cardinality(T) = Cardinality(S) - 1 - 0 + 1
    BY <2>1, FS_Interval
  <2> QED
    BY <1>1, <2>2
<1>3. \A x \in S : Place(S, R, x) \in T
  BY <1>1, PlaceType
<1>4. f \in Injection(S, T)
  <2>1. f \in [S -> T]
    BY <1>3
  <2>2. \A x, y \in S : f[x] = f[y] => x = y
    BY PlaceUnique
  <2> HIDE DEF f, T
  <2> QED
    BY <2>1, <2>2 DEF Injection, IsInjective
<1>5. f \in Surjection(S, T)
  <2> HIDE DEF f, T
  <2> QED
    BY <1>2, <1>4, FS_Injection
<1>6. n \in T
  BY <1>1
<1>7. PICK x \in S : f[x] = n
  <2> HIDE DEF f, T
  <2> QED
    BY <1>5, <1>6 DEF Surjection
<1> QED
  BY <1>7

(* The rows at the places from o on, at most l of them.                    *)
Slice(S, R, o, l) == { x \in S : Place(S, R, x) \in o..(o + l - 1) }

LEMMA SliceSize ==
  ASSUME NEW S, IsFiniteSet(S), NEW R, Linear(S, R), NEW o \in Nat, NEW l \in Nat
  PROVE  LET P == Slice(S, R, o, l)
         IN  /\ IsFiniteSet(P) /\ Cardinality(P) \in Nat
             /\ Cardinality(P) <= l
             /\ P # {} => o + Cardinality(P) <= Cardinality(S)
             /\ (\E x \in S : Place(S, R, x) >= o + l) => Cardinality(P) = l
<1> DEFINE P == Slice(S, R, o, l)
           n == Cardinality(S)
           top == IF o + l < n THEN o + l - 1 ELSE n - 1
           T == o..top
           f == [x \in P |-> Place(S, R, x)]
<1>1. n \in Nat /\ top \in Int
  BY FS_CardinalityType
<1>2. IsFiniteSet(P) /\ Cardinality(P) \in Nat
  <2>1. P \in SUBSET S
    BY DEF Slice
  <2> HIDE DEF P
  <2> QED
    BY <2>1, FS_Subset, FS_CardinalityType
<1>3. IsFiniteSet(T) /\ Cardinality(T) = IF o > top THEN 0 ELSE top - o + 1
  <2> HIDE DEF top
  <2> QED
    BY <1>1, FS_Interval
<1>4. \A x \in P : x \in S /\ Place(S, R, x) \in T
  <2> SUFFICES ASSUME NEW x \in P
               PROVE  x \in S /\ Place(S, R, x) \in T
    OBVIOUS
  <2>1. x \in S /\ Place(S, R, x) \in o..(o + l - 1)
    BY DEF Slice
  <2>2. Place(S, R, x) \in Nat /\ Place(S, R, x) < n
    BY <2>1, PlaceType
  <2> HIDE DEF n
  <2> QED
    BY <1>1, <2>1, <2>2
<1>5. \A i \in T : \E x \in P : f[x] = i
  <2> SUFFICES ASSUME NEW i \in T
               PROVE  \E x \in P : Place(S, R, x) = i
    OBVIOUS
  <2>1. i \in Nat /\ i < n /\ i \in o..(o + l - 1)
    <3> HIDE DEF n
    <3> QED
      BY <1>1
  <2>2. PICK x \in S : Place(S, R, x) = i
    BY <2>1, PlaceTaken
  <2> QED
    BY <2>1, <2>2 DEF Slice
<1>6. f \in Injection(P, T) /\ f \in Surjection(P, T)
  <2>1. f \in [P -> T]
    BY <1>4
  <2>2. \A x, y \in P : f[x] = f[y] => x = y
    BY <1>4, PlaceUnique
  <2> HIDE DEF f, T, P
  <2> QED
    BY <1>5, <2>1, <2>2 DEF Injection, IsInjective, Surjection
<1>7. Cardinality(P) = Cardinality(T)
  <2> HIDE DEF f, T, P
  <2> QED
    BY <1>3, <1>6, FS_Injection
<1>8. P # {} => ~(o > top)
  <2> SUFFICES ASSUME NEW x \in P
               PROVE  ~(o > top)
    OBVIOUS
  <2>1. Place(S, R, x) \in T
    BY <1>4
  <2> HIDE DEF top
  <2> QED
    BY <1>1, <2>1
<1>9. ASSUME NEW x \in S, Place(S, R, x) >= o + l
      PROVE  o + l < n
  <2>1. Place(S, R, x) \in Nat /\ Place(S, R, x) < n
    BY PlaceType
  <2> HIDE DEF n
  <2> QED
    BY <1>1, <1>9, <2>1
<1> HIDE DEF P, n, T, f
<1>10. Cardinality(P) <= l /\ (P # {} => o + Cardinality(P) <= n)
  <2>1. CASE o > top
    BY <1>2, <1>3, <1>7, <1>8, <2>1
  <2>2. CASE ~(o > top)
    <3>1. Cardinality(P) = top - o + 1
      BY <1>3, <1>7, <2>2
    <3> QED
      BY <1>1, <3>1
  <2> QED
    BY <2>1, <2>2
<1>11. o + l < n => Cardinality(P) = l
  BY <1>1, <1>3, <1>7
<1> QED
  BY <1>2, <1>9, <1>10, <1>11 DEF P, n

(* Without row a, the rows behind it move up by one place.                 *)
LEMMA PlaceShifts ==
  ASSUME NEW S, IsFiniteSet(S), NEW R, Linear(S, R), NEW a \in S, NEW x \in S \ {a}
  PROVE  Place(S \ {a}, R, x) = IF <<a, x>> \in R THEN Place(S, R, x) - 1
                                                   ELSE Place(S, R, x)
<1> DEFINE B == RowsBefore(S, R, x)
<1>1. IsFiniteSet(B)
  BY PlaceType
<1>2. RowsBefore(S \ {a}, R, x) = B \ {a}
  BY DEF RowsBefore
<1>3. a \in B <=> <<a, x>> \in R
  BY DEF RowsBefore
<1> HIDE DEF B
<1>4. Cardinality(B \ {a}) = IF a \in B THEN Cardinality(B) - 1 ELSE Cardinality(B)
  BY <1>1, FS_RemoveElement
<1> QED
  BY <1>2, <1>3, <1>4 DEF Place, B

(* At most one row crosses place c when row a leaves the list, or joins it,*)
(* a itself included.                                                      *)
Crossing(S, R, a, c) ==
  { x \in S : Place(S, R, x) >= c /\ (x = a \/ Place(S \ {a}, R, x) < c) }

LEMMA OneCrosses ==
  ASSUME NEW S, IsFiniteSet(S), NEW R, Linear(S, R), NEW a \in S, NEW c \in Nat
  PROVE  /\ IsFiniteSet(Crossing(S, R, a, c))
         /\ Cardinality(Crossing(S, R, a, c)) <= 1
<1> DEFINE C == Crossing(S, R, a, c)
<1>1. ASSUME NEW x \in C, x # a
      PROVE  <<a, x>> \in R /\ Place(S, R, x) = c
  <2>1. /\ x \in S \ {a} /\ Place(S, R, x) \in Nat
        /\ Place(S, R, x) >= c /\ Place(S \ {a}, R, x) < c
    BY <1>1, PlaceType DEF Crossing
  <2> QED
    BY <2>1, PlaceShifts
<1>2. ASSUME NEW x \in C, a \in C
      PROVE  x = a
  <2> SUFFICES ASSUME x # a
               PROVE  FALSE
    OBVIOUS
  <2>1. x \in S /\ Place(S, R, a) < Place(S, R, x)
    BY <1>1, PlaceLess DEF Crossing
  <2>2. Place(S, R, a) >= c /\ Place(S, R, a) \in Nat
    BY <1>2, PlaceType DEF Crossing
  <2>3. Place(S, R, x) = c
    BY <1>1
  <2> HIDE DEF C
  <2> QED
    BY <2>1, <2>2, <2>3
<1>3. ASSUME NEW x \in C, NEW y \in C
      PROVE  x = y
  <2>1. CASE a \in C
    BY <1>2, <2>1
  <2>2. CASE a \notin C
    <3>1. x \in S /\ y \in S
      BY DEF Crossing
    <3>2. Place(S, R, x) = Place(S, R, y)
      BY <1>1, <2>2
    <3> QED
      BY <3>1, <3>2, PlaceUnique
  <2> QED
    BY <2>1, <2>2
<1>4. C = {} \/ \E x : C = {x}
  <2> HIDE DEF C
  <2> QED
    BY <1>3
<1> HIDE DEF C
<1>5. IsFiniteSet(C) /\ Cardinality(C) <= 1
  <2>1. CASE C = {}
    BY <2>1, FS_EmptySet
  <2>2. ASSUME NEW x, C = {x}
        PROVE  IsFiniteSet(C) /\ Cardinality(C) <= 1
    <3>1. IsFiniteSet({x}) /\ Cardinality({x}) = 1
      BY FS_Singleton
    <3> QED
      BY <2>2, <3>1
  <2> QED
    BY <1>4, <2>1, <2>2
<1> QED
  BY <1>5 DEF C

-----------------------------------------------------------------------------
(* The reads leave the imports alone: what is proved of LedgerImport holds *)
(* beside any number of them.                                              *)
LEMMA ImportsBesideReads == ReadsSpec => Spec
<1>1. InitReads => Init
  BY DEF InitReads
<1>2. [NextReads]_readsVars => [Next]_vars
  BY DEF NextReads, ImportGoesOn, FirstPage, NextPage, Leave, readsVars, vars
<1> QED
  BY <1>1, <1>2, PTL DEF ReadsSpec, Spec

-----------------------------------------------------------------------------
(* The order of the serial ids.                                            *)

LEMMA OrderGoesOn ==
  ASSUME NEW S, NEW T, NEW ids \in SUBSET (S \X S), Linear(S, ids),
         \A x, y \in T \ S : x = y
  PROVE  LET new == Ordered(ids, S, T)
         IN  /\ new \in SUBSET (T \X T)
             /\ Linear(T, new)
             /\ \A x, y \in S \cap T : <<x, y>> \in new <=> <<x, y>> \in ids
<1> DEFINE new == Ordered(ids, S, T)
<1>1. new \in SUBSET (T \X T)
  BY DEF Ordered
<1>2. \A x, y : <<x, y>> \in new <=> \/ x \in T /\ y \in T /\ <<x, y>> \in ids
                                     \/ x \in S \cap T /\ y \in T \ S
  BY DEF Ordered
<1>3. \A x, y : <<x, y>> \in ids => x \in S /\ y \in S
  OBVIOUS
<1> HIDE DEF new
<1>4. Linear(T, new)
  BY <1>2, <1>3 DEF Linear
<1> QED
  BY <1>1, <1>2, <1>3, <1>4 DEF new

EntriesWithId   == { k \in Keys : HasEntryId(k) }
PositionsWithId == { p \in PositionIds : HasPositionId(p) }

IdsOrdered ==
  /\ entryIds \in SUBSET (EntriesWithId \X EntriesWithId)
  /\ Linear(EntriesWithId, entryIds)
  /\ positionIds \in SUBSET (PositionsWithId \X PositionsWithId)
  /\ Linear(PositionsWithId, positionIds)

(* A step moves one thread, and writes the tables only in its commit.      *)
LEMMA OneThreadMoves ==
  ASSUME TypeOK, [Next]_vars
  PROVE  \/ UNCHANGED <<positions, ledger, pc, req, pos>>
         \/ \E t \in Threads :
              /\ \A u \in Others(t) : pc'[u] = pc[u] /\ req'[u] = req[u] /\ pos'[u] = pos[u]
              /\ \/ UNCHANGED <<positions, ledger>>
                 \/ Commits(t) /\ pc'[t] = "idle"
<1> DEFINE Alone(t) ==
             \A u \in Others(t) : pc'[u] = pc[u] /\ req'[u] = req[u] /\ pos'[u] = pos[u]
           Still == UNCHANGED <<positions, ledger>>
           Nothing == UNCHANGED <<positions, ledger, pc, req, pos>>
<1>1. ASSUME NEW t \in Threads, NEW r \in Requests, Receive(t, r) \/ RejectEventType(t, r)
      PROVE  Alone(t) /\ Still
  BY <1>1 DEF Receive, RejectEventType, End, Answer, GoTo, Others, TypeOK, tables
<1>2. ASSUME NEW t \in Threads, Step(t) \/ Abort(t), ~Commits(t)
      PROVE  Alone(t) /\ Still
  BY <1>2 DEF Step, Abort, Commits, ResolvePortfolio, RejectPortfolio, PassIdempotency,
       ReplyDuplicate, FindPosition, FindNoPosition, InsertPosition, InsertPositionFails,
       UpdatePosition, UpdatePositionOverflows, InsertLedger, InsertLedgerFails,
       End, Answer, GoTo, Others, TypeOK, tables
<1>3. ASSUME NEW t \in Threads, Commits(t)
      PROVE  Alone(t) /\ pc'[t] = "idle"
  BY <1>3 DEF Commits, Commit, CommitUnacknowledged, Answer, GoTo, Others, TypeOK
<1>4. ASSUME NEW name \in Portfolios, CreatePortfolio(name)
      PROVE  Nothing
  BY <1>4 DEF CreatePortfolio, locals
<1>5. UNCHANGED vars => Nothing
  BY DEF vars
<1> HIDE DEF Alone, Still, Nothing
<1>6. Nothing \/ \E t \in Threads : Alone(t) /\ (Still \/ (Commits(t) /\ pc'[t] = "idle"))
  BY <1>1, <1>2, <1>3, <1>4, <1>5 DEF Next
<1> QED
  BY <1>6 DEF Alone, Still, Nothing

(* At most one row gets an id in a step.                                   *)
LEMMA OneNewEntry ==
  ASSUME TypeOK, TransactionsExclude, [Next]_vars
  PROVE  \A k, l \in EntriesWithId' \ EntriesWithId : k = l
<1>1. CASE UNCHANGED <<positions, ledger, pc, req, pos>>
  BY <1>1 DEF EntriesWithId, HasEntryId, HoldsKey
<1>2. ASSUME NEW t \in Threads,
             \A u \in Others(t) : pc'[u] = pc[u] /\ req'[u] = req[u],
             UNCHANGED ledger
      PROVE  \A k \in EntriesWithId' \ EntriesWithId : k = req'[t].idempotency_key
  BY <1>2 DEF EntriesWithId, HasEntryId, HoldsKey, Others
<1>3. ASSUME NEW t \in Threads,
             \A u \in Others(t) : pc'[u] = pc[u] /\ req'[u] = req[u],
             Commits(t), pc'[t] = "idle"
      PROVE  \A k \in EntriesWithId' \ EntriesWithId : k = req[t].idempotency_key
  <2>1. \A k \in Keys : KeyUsed(ledger', k) <=> KeyUsed(ledger, k) \/ k = req[t].idempotency_key
    BY <1>3, CommitIsPost, PostEffect
  <2> QED
    BY <1>3, <2>1 DEF EntriesWithId, HasEntryId, HoldsKey, Others
<1> QED
  BY <1>1, <1>2, <1>3, OneThreadMoves

LEMMA OneNewPosition ==
  ASSUME TypeOK, TransactionsExclude, [Next]_vars
  PROVE  \A p, r \in PositionsWithId' \ PositionsWithId : p = r
<1>1. CASE UNCHANGED <<positions, ledger, pc, req, pos>>
  BY <1>1 DEF PositionsWithId, HasPositionId, InsertsPosition, Exists
<1>2. ASSUME NEW t \in Threads,
             \A u \in Others(t) : pc'[u] = pc[u] /\ pos'[u] = pos[u],
             UNCHANGED positions
      PROVE  \A p \in PositionsWithId' \ PositionsWithId : p = pos'[t]
  BY <1>2 DEF PositionsWithId, HasPositionId, InsertsPosition, Others, Exists
<1>3. ASSUME NEW t \in Threads,
             \A u \in Others(t) : pc'[u] = pc[u] /\ pos'[u] = pos[u],
             Commits(t), pc'[t] = "idle"
      PROVE  \A p \in PositionsWithId' \ PositionsWithId : p = pos[t]
  <2>1. \A p \in PositionIds : Exists(positions', p) <=> Exists(positions, p) \/ p = pos[t]
    BY <1>3, CommitIsPost, PostEffect
  <2> QED
    BY <1>3, <2>1 DEF PositionsWithId, HasPositionId, InsertsPosition, Others
<1> QED
  BY <1>1, <1>2, <1>3, OneThreadMoves

LEMMA IdsStayOrdered ==
  ASSUME TypeOK, TransactionsExclude, IdsOrdered, [Next]_vars, IdsGoOn
  PROVE  /\ IdsOrdered'
         /\ \A k, l \in EntriesWithId \cap EntriesWithId' :
              <<k, l>> \in entryIds' <=> <<k, l>> \in entryIds
         /\ \A p, r \in PositionsWithId \cap PositionsWithId' :
              <<p, r>> \in positionIds' <=> <<p, r>> \in positionIds
<1>1. /\ entryIds' = Ordered(entryIds, EntriesWithId, EntriesWithId')
      /\ positionIds' = Ordered(positionIds, PositionsWithId, PositionsWithId')
  BY DEF IdsGoOn, EntriesWithId, PositionsWithId
<1>2. /\ entryIds' \in SUBSET (EntriesWithId' \X EntriesWithId')
      /\ Linear(EntriesWithId', entryIds')
      /\ \A k, l \in EntriesWithId \cap EntriesWithId' :
              <<k, l>> \in entryIds' <=> <<k, l>> \in entryIds
  BY <1>1, OneNewEntry, OrderGoesOn DEF IdsOrdered
<1>3. /\ positionIds' \in SUBSET (PositionsWithId' \X PositionsWithId')
      /\ Linear(PositionsWithId', positionIds')
      /\ \A p, r \in PositionsWithId \cap PositionsWithId' :
              <<p, r>> \in positionIds' <=> <<p, r>> \in positionIds
  BY <1>1, OneNewPosition, OrderGoesOn DEF IdsOrdered
<1> QED
  BY <1>2, <1>3 DEF IdsOrdered, Linear
-----------------------------------------------------------------------------
(* How a step moves the rows of a list.                                    *)

(* The rows from place c on. *)
From(S, R, c) == { x \in S : Place(S, R, x) >= c }

(* Row a leaves a list; T is the list without it, Q its order. *)
LEMMA OneLeaves ==
  ASSUME NEW S, NEW T, NEW R, NEW Q, NEW a, NEW c \in Nat,
         IsFiniteSet(S), Linear(S, R), a \in S, T = S \ {a},
         \A x, y \in T : <<x, y>> \in R <=> <<x, y>> \in Q
  PROVE  /\ IsFiniteSet(From(S, R, c) \ From(T, Q, c))
         /\ Cardinality(From(S, R, c) \ From(T, Q, c)) <= 1
         /\ From(T, Q, c) \subseteq From(S, R, c)
<1>1. ASSUME NEW x \in T
      PROVE  Place(T, Q, x) = Place(S \ {a}, R, x)
  BY DEF Place, RowsBefore
<1>2. From(S, R, c) \ From(T, Q, c) \in SUBSET Crossing(S, R, a, c)
  <2> SUFFICES ASSUME NEW x \in S, Place(S, R, x) >= c, x \notin From(T, Q, c), x # a
               PROVE  Place(S \ {a}, R, x) < c
    BY DEF From, Crossing
  <2>1. ~(Place(S \ {a}, R, x) >= c)
    BY <1>1 DEF From
  <2>2. Place(S, R, x) \in Nat
    BY PlaceType
  <2>3. Place(S \ {a}, R, x) \in Int
    <3>1. x \in S \ {a}
      OBVIOUS
    <3>2. Place(S \ {a}, R, x) = IF <<a, x>> \in R THEN Place(S, R, x) - 1 ELSE Place(S, R, x)
      BY <3>1, PlaceShifts
    <3> QED
      BY <2>2, <3>2
  <2> QED
    BY <2>1, <2>3
<1>3. From(T, Q, c) \subseteq From(S, R, c)
  <2> SUFFICES ASSUME NEW x \in T, Place(T, Q, x) >= c
               PROVE  Place(S, R, x) >= c
    BY DEF From
  <2>1. x \in S \ {a} /\ Place(S, R, x) \in Nat
    BY PlaceType
  <2>2. Place(S \ {a}, R, x) = IF <<a, x>> \in R THEN Place(S, R, x) - 1 ELSE Place(S, R, x)
    BY <2>1, PlaceShifts
  <2> QED
    BY <1>1, <2>1, <2>2
<1> DEFINE D == From(S, R, c) \ From(T, Q, c)
           C == Crossing(S, R, a, c)
<1>4. IsFiniteSet(C) /\ Cardinality(C) <= 1
  BY OneCrosses
<1>5. D \in SUBSET C
  BY <1>2
<1> HIDE DEF C, D
<1>6. /\ IsFiniteSet(D) /\ Cardinality(D) \in Nat
      /\ Cardinality(C) \in Nat /\ Cardinality(D) <= Cardinality(C)
  BY <1>4, <1>5, FS_Subset, FS_CardinalityType
<1>7. IsFiniteSet(D) /\ Cardinality(D) <= 1
  BY <1>4, <1>6
<1> QED
  BY <1>3, <1>7 DEF D

(* What a step does to the rows from place c on, it does to the list: S    *)
(* and R are the list and its order before, T and Q after.                 *)
Follows(S, T, A, B) ==
  /\ IsFiniteSet(A \ B) /\ IsFiniteSet(B \ A)
  /\ Cardinality(S \ T) \in Nat /\ Cardinality(T \ S) \in Nat
  /\ Cardinality(A \ B) <= Cardinality(S \ T)
  /\ Cardinality(B \ A) <= Cardinality(T \ S)
  /\ Cardinality(T) + Cardinality(S \ T) = Cardinality(S) + Cardinality(T \ S)

LEMMA OneMoves ==
  ASSUME NEW S, NEW T, NEW R, NEW Q, NEW a, NEW c \in Nat,
         IsFiniteSet(S), IsFiniteSet(T), Linear(S, R), Linear(T, Q),
         \A x : x # a => (x \in S <=> x \in T),
         \A x, y \in S \cap T : <<x, y>> \in R <=> <<x, y>> \in Q
  PROVE  Follows(S, T, From(S, R, c), From(T, Q, c))
<1> DEFINE A == From(S, R, c)
           B == From(T, Q, c)
<1>1. Cardinality(S) \in Nat /\ Cardinality(T) \in Nat
  BY FS_CardinalityType
<1>2. IsFiniteSet({}) /\ Cardinality({}) = 0 /\ Cardinality({a}) = 1
  BY FS_EmptySet, FS_Singleton
<1>3. CASE S = T
  <2>1. A = B
    <3>1. \A x \in S : Place(S, R, x) = Place(T, Q, x)
      BY <1>3 DEF Place, RowsBefore
    <3> QED
      BY <1>3, <3>1 DEF From
  <2>2. A \ B = {} /\ B \ A = {} /\ S \ T = {} /\ T \ S = {}
    BY <1>3, <2>1
  <2> HIDE DEF A, B
  <2>3. Follows(S, T, A, B)
    BY <1>1, <1>2, <1>3, <2>2 DEF Follows
  <2> QED
    BY <2>3 DEF A, B
<1>4. CASE a \in S /\ a \notin T
  <2>1. T = S \ {a} /\ S \ T = {a} /\ T \ S = {}
    BY <1>4
  <2>2. /\ IsFiniteSet(A \ B) /\ Cardinality(A \ B) <= 1
        /\ B \ A = {}
    BY <1>4, <2>1, OneLeaves
  <2>3. Cardinality(T) = Cardinality(S) - 1
    BY <1>4, <2>1, FS_RemoveElement
  <2> HIDE DEF A, B
  <2>4. /\ Cardinality(S \ T) = 1 /\ Cardinality(T \ S) = 0
        /\ IsFiniteSet(B \ A) /\ Cardinality(B \ A) = 0
    BY <1>2, <2>1, <2>2
  <2>5. Follows(S, T, A, B)
    BY <1>1, <2>2, <2>3, <2>4 DEF Follows
  <2> QED
    BY <2>5 DEF A, B
<1>5. CASE a \notin S /\ a \in T
  <2>1. S = T \ {a} /\ T \ S = {a} /\ S \ T = {}
    BY <1>5
  <2>2. /\ IsFiniteSet(B \ A) /\ Cardinality(B \ A) <= 1
        /\ A \ B = {}
    BY <1>5, <2>1, OneLeaves
  <2>3. Cardinality(S) = Cardinality(T) - 1
    BY <1>5, <2>1, FS_RemoveElement
  <2> HIDE DEF A, B
  <2>4. /\ Cardinality(T \ S) = 1 /\ Cardinality(S \ T) = 0
        /\ IsFiniteSet(A \ B) /\ Cardinality(A \ B) = 0
    BY <1>2, <2>1, <2>2
  <2>5. Follows(S, T, A, B)
    BY <1>1, <2>2, <2>3, <2>4 DEF Follows
  <2> QED
    BY <2>5 DEF A, B
<1>6. S = T \/ (a \in S /\ a \notin T) \/ (a \notin S /\ a \in T)
  OBVIOUS
<1> QED
  BY <1>3, <1>4, <1>5, <1>6

(* A step changes one row of a list at most; no entry leaves one.          *)
LEMMA OneRowChanges ==
  ASSUME TypeOK, TransactionsExclude, [Next]_vars, NEW q \in Queries
  PROVE  /\ \E a : \A x : x # a => (x \in Selected(q) <=> x \in Selected(q)')
         /\ q.of = "entries" => Selected(q) \subseteq Selected(q)'
<1>1. CASE UNCHANGED <<positions, ledger, ledgerSum>>
  BY <1>1 DEF Selected, EntryMatches, PositionMatches, Exists
<1>2. ASSUME NEW t \in Threads, Commits(t)
      PROVE  /\ \E a : \A x : x # a => (x \in Selected(q) <=> x \in Selected(q)')
             /\ q.of = "entries" => Selected(q) \subseteq Selected(q)'
  <2>1. Post(t) /\ req[t].event_type \in ALLOWED_EVENT_TYPES /\ pos[t] \in PositionIds
    BY <1>2, CommitIsPost
  <2>2. CASE q.of = "entries"
    <3> DEFINE e == LedgerEntry(req[t], pos[t])
               n == Len(ledger)
    <3>1. /\ n \in Nat /\ DOMAIN ledger = 1..n /\ DOMAIN ledger' = 1..(n + 1)
          /\ \A i \in 1..n : ledger'[i] = ledger[i]
          /\ ledger'[n + 1] = e
      BY <2>1, PostEffect DEF TypeOK, Post
    <3> HIDE DEF e, n
    <3>2. \A i \in 1..(n + 1) : i \in 1..n \/ i = n + 1
      BY <3>1
    <3>3. \A x : x \in Selected(q) <=>
            \E i \in 1..n : EntryMatches(q, ledger[i]) /\ x = ledger[i].idempotency_key
      BY <2>2, <3>1 DEF Selected
    <3>4. \A x : x \in Selected(q)' <=>
            \E i \in 1..(n + 1) : EntryMatches(q, ledger'[i]) /\ x = ledger'[i].idempotency_key
      BY <2>2, <3>1 DEF Selected, EntryMatches
    <3>5. \A i \in 1..n : i \in 1..(n + 1)
      BY <3>1
    <3>6. \A x \in Selected(q) : x \in Selected(q)'
      BY <3>1, <3>3, <3>4, <3>5
    <3>7. \A x : x # e.idempotency_key /\ x \in Selected(q)' => x \in Selected(q)
      BY <3>1, <3>2, <3>3, <3>4
    <3> QED
      BY <3>6, <3>7
  <2>3. CASE q.of # "entries"
    <3>1. \A p \in PositionIds : p # pos[t] => positions'[p] = positions[p]
      BY <2>1 DEF Post, TypeOK
    <3>2. \A p : p # pos[t] => (p \in Selected(q) <=> p \in Selected(q)')
      BY <2>3, <3>1 DEF Selected, PositionMatches, Exists
    <3> QED
      BY <2>3, <3>2
  <2> QED
    BY <2>2, <2>3
<1> QED
  BY <1>1, <1>2, OnlyCommitsWrite
-----------------------------------------------------------------------------
(* The lists are finite and linearly ordered.                              *)

OrderOf(q) == { x \in Selected(q) \X Selected(q) : Before(q, x[1], x[2]) }

FiniteLists == \A q \in Queries : IsFiniteSet(Selected(q))

ListsInv == IdsOrdered /\ FiniteLists

LEMMA SelectedHaveIds ==
  TypeOK => \A q \in Queries :
              /\ q.of = "entries" => Selected(q) \subseteq EntriesWithId
              /\ q.of # "entries" => Selected(q) \subseteq PositionsWithId
<1> SUFFICES ASSUME TypeOK, NEW q \in Queries
             PROVE  /\ q.of = "entries" => Selected(q) \subseteq EntriesWithId
                    /\ q.of # "entries" => Selected(q) \subseteq PositionsWithId
  OBVIOUS
<1>1. ASSUME q.of = "entries", NEW i \in DOMAIN ledger
      PROVE  ledger[i].idempotency_key \in EntriesWithId
  <2>1. i \in 1..Len(ledger) /\ ledger[i] \in Entries
    BY <1>1 DEF TypeOK
  <2> QED
    BY <2>1 DEF EntriesWithId, HasEntryId, KeyUsed, Entries
<1>2. q.of # "entries" => Selected(q) \subseteq PositionsWithId
  BY DEF Selected, PositionMatches, PositionsWithId, HasPositionId
<1> QED
  BY <1>1, <1>2 DEF Selected

(* Sorting by a number, then by a linear order, is a linear order. *)
LEMMA SortedIsLinear ==
  ASSUME NEW U, NEW ids, Linear(U, ids), NEW S \in SUBSET U, NEW R, NEW n \in [U -> Int],
         \A x, y \in S : <<x, y>> \in R <=> n[x] < n[y] \/ (n[x] = n[y] /\ <<x, y>> \in ids)
  PROVE  Linear(S, R)
<1>1. \A x \in S : x \in U /\ n[x] \in Int
  OBVIOUS
<1>2. ASSUME NEW x \in S
      PROVE  <<x, x>> \notin R
  <2>1. <<x, x>> \notin ids /\ n[x] \in Int
    BY <1>1 DEF Linear
  <2> QED
    BY <2>1
<1>3. ASSUME NEW x \in S, NEW y \in S, NEW z \in S, <<x, y>> \in R, <<y, z>> \in R
      PROVE  <<x, z>> \in R
  <2>1. n[x] <= n[y] /\ n[y] <= n[z]
    BY <1>1, <1>3
  <2>2. CASE n[x] = n[z]
    <3>1. <<x, y>> \in ids /\ <<y, z>> \in ids
      BY <1>1, <1>3, <2>1, <2>2
    <3> QED
      BY <1>1, <2>2, <3>1 DEF Linear
  <2>3. CASE n[x] # n[z]
    BY <1>1, <2>1, <2>3
  <2> QED
    BY <2>2, <2>3
<1>4. ASSUME NEW x \in S, NEW y \in S
      PROVE  x = y \/ <<x, y>> \in R \/ <<y, x>> \in R
  <2>1. /\ x = y \/ <<x, y>> \in ids \/ <<y, x>> \in ids
        /\ n[x] \in Int /\ n[y] \in Int
    BY <1>1 DEF Linear
  <2> QED
    BY <2>1
<1> QED
  BY <1>2, <1>3, <1>4 DEF Linear

LEMMA ListsLinear ==
  TypeOK /\ IdsOrdered => \A q \in Queries : Linear(Selected(q), OrderOf(q))
<1> SUFFICES ASSUME TypeOK, IdsOrdered, NEW q \in Queries
             PROVE  Linear(Selected(q), OrderOf(q))
  OBVIOUS
<1>1. \A x, y \in Selected(q) : <<x, y>> \in OrderOf(q) <=> Before(q, x, y)
  BY DEF OrderOf
<1>2. CASE q.of = "entries"
  <2> DEFINE n == [k \in EntriesWithId |-> -OccurredAt[k]]
             ids == { x \in EntriesWithId \X EntriesWithId : <<x[2], x[1]>> \in entryIds }
  <2>1. Selected(q) \in SUBSET EntriesWithId
    BY <1>2, SelectedHaveIds
  <2>2. n \in [EntriesWithId -> Int] /\ \A k \in EntriesWithId : OccurredAt[k] \in Nat
    BY ReadsAssumption DEF EntriesWithId
  <2>3. Linear(EntriesWithId, ids)
    BY DEF IdsOrdered, Linear
  <2>4. \A k, l \in EntriesWithId :
          Before(q, k, l) <=> n[k] < n[l] \/ (n[k] = n[l] /\ <<k, l>> \in ids)
    BY <1>2, <2>2 DEF Before, EntryBefore
  <2> HIDE DEF n, ids
  <2> QED
    BY <1>1, <2>1, <2>2, <2>3, <2>4, SortedIsLinear
<1>3. CASE q.of # "entries"
  <2> DEFINE n == [p \in PositionsWithId |-> TickerPlace[p[2]]]
  <2>1. Selected(q) \in SUBSET PositionsWithId
    BY <1>3, SelectedHaveIds
  <2>2. n \in [PositionsWithId -> Int]
    BY ReadsAssumption DEF PositionsWithId, PositionIds
  <2>3. Linear(PositionsWithId, positionIds)
    BY DEF IdsOrdered
  <2>4. \A p, r \in PositionsWithId :
          Before(q, p, r) <=> n[p] < n[r] \/ (n[p] = n[r] /\ <<p, r>> \in positionIds)
    BY <1>3 DEF Before, PositionBefore
  <2> HIDE DEF n
  <2> QED
    BY <1>1, <2>1, <2>2, <2>3, <2>4, SortedIsLinear
<1> QED
  BY <1>2, <1>3

LEMMA ListsStay ==
  ASSUME TypeOK, TransactionsExclude, ListsInv, [NextReads]_readsVars
  PROVE  ListsInv'
<1>1. CASE UNCHANGED <<vars, inserted>>
  <2>1. IdsOrdered'
    BY <1>1 DEF ListsInv, IdsOrdered, EntriesWithId, PositionsWithId, HasEntryId,
                HasPositionId, HoldsKey, InsertsPosition, vars, inserted, Linear, KeyUsed, Exists
  <2>2. ASSUME NEW q \in Queries
        PROVE  Selected(q)' = Selected(q)
    BY <1>1 DEF Selected, EntryMatches, PositionMatches, Exists, vars
  <2> QED
    BY <2>1, <2>2 DEF ListsInv, FiniteLists
<1>2. CASE ImportGoesOn
  <2>1. [Next]_vars /\ IdsGoOn
    BY <1>2 DEF ImportGoesOn
  <2>2. ASSUME NEW q \in Queries
        PROVE  IsFiniteSet(Selected(q)')
    <3>1. PICK a : \A x : x # a => (x \in Selected(q) <=> x \in Selected(q)')
      BY <2>1, OneRowChanges
    <3> DEFINE S == Selected(q)
               T == Selected(q)'
    <3>2. T \in SUBSET (S \cup {a})
      BY <3>1
    <3>3. IsFiniteSet(S)
      BY DEF ListsInv, FiniteLists
    <3> HIDE DEF S, T
    <3>4. IsFiniteSet(S \cup {a})
      BY <3>3, FS_AddElement
    <3>5. IsFiniteSet(T)
      BY <3>2, <3>4, FS_Subset
    <3> QED
      BY <3>5 DEF T
  <2> QED
    BY <2>1, <2>2, IdsStayOrdered DEF ListsInv, FiniteLists
<1> QED
  BY <1>1, <1>2 DEF NextReads, FirstPage, NextPage, Leave, readsVars

LEMMA ListsAreSound == ReadsSpec => [](TypeOK /\ TransactionsExclude /\ ListsInv)
<1>1. InitReads => ListsInv
  <2> SUFFICES ASSUME InitReads
               PROVE  ListsInv
    OBVIOUS
  <2>1. EntriesWithId = {} /\ PositionsWithId = {} /\ entryIds = {} /\ positionIds = {}
    BY DEF InitReads, Init, EntriesWithId, PositionsWithId, HasEntryId, HasPositionId,
           HoldsKey, InsertsPosition, KeyUsed, Exists, NoRow
  <2>2. ASSUME NEW q \in Queries
        PROVE  Selected(q) = {}
    BY DEF InitReads, Init, Selected, EntryMatches, PositionMatches, Exists, NoRow
  <2> QED
    BY <2>1, <2>2, FS_EmptySet DEF ListsInv, IdsOrdered, FiniteLists, Linear
<1>2. TypeOK /\ TransactionsExclude /\ ListsInv /\ [NextReads]_readsVars => ListsInv'
  BY ListsStay
<1> QED
  BY <1>1, <1>2, ImportsBesideReads, TypeCorrect, Exclusion, PTL DEF ReadsSpec
-----------------------------------------------------------------------------
(* The pages.                                                              *)

(* The rows of the list of q from place c on. *)
Ahead(q, c) == From(Selected(q), OrderOf(q), c)

LEMMA ListsLinearNext ==
  ASSUME TypeOK', IdsOrdered'
  PROVE  \A q \in Queries : Linear(Selected(q)', OrderOf(q)')
<1>1. (TypeOK /\ IdsOrdered => \A q \in Queries : Linear(Selected(q), OrderOf(q)))'
  BY ListsLinear, PTL
<1> QED
  BY <1>1

LEMMA SelectedHaveIdsNext ==
  ASSUME TypeOK'
  PROVE  \A q \in Queries :
           /\ q.of = "entries" => Selected(q)' \subseteq EntriesWithId'
           /\ q.of # "entries" => Selected(q)' \subseteq PositionsWithId'
<1>1. (TypeOK => \A q \in Queries :
                   /\ q.of = "entries" => Selected(q) \subseteq EntriesWithId
                   /\ q.of # "entries" => Selected(q) \subseteq PositionsWithId)'
  BY SelectedHaveIds, PTL
<1> QED
  BY <1>1

(* An import moves the rows ahead no further than it moves the list. *)
LEMMA ImportMovesList ==
  ASSUME TypeOK, TypeOK', TransactionsExclude, ListsInv, ListsInv', [Next]_vars, IdsGoOn,
         NEW q \in Queries, NEW c \in Nat
  PROVE  Follows(Selected(q), Selected(q)', Ahead(q, c), Ahead(q, c)')
<1> DEFINE S == Selected(q)
           T == Selected(q)'
           R == OrderOf(q)
           Q == OrderOf(q)'
<1>1. Linear(S, R) /\ Linear(T, Q) /\ IsFiniteSet(S) /\ IsFiniteSet(T)
  BY ListsLinear, ListsLinearNext DEF ListsInv, FiniteLists
<1>2. PICK a : \A x : x # a => (x \in S <=> x \in T)
  BY OneRowChanges
<1>3. \A x, y \in S \cap T : <<x, y>> \in R <=> <<x, y>> \in Q
  <2>1. \A x, y \in S \cap T : /\ <<x, y>> \in R <=> Before(q, x, y)
                               /\ <<x, y>> \in Q <=> Before(q, x, y)'
    BY DEF OrderOf
  <2>2. CASE q.of = "entries"
    <3>1. S \subseteq EntriesWithId /\ T \subseteq EntriesWithId'
      BY <2>2, SelectedHaveIds, SelectedHaveIdsNext
    <3>2. \A k, l \in EntriesWithId \cap EntriesWithId' :
            <<k, l>> \in entryIds' <=> <<k, l>> \in entryIds
      BY IdsStayOrdered DEF ListsInv
    <3>3. \A k, l \in S \cap T : Before(q, k, l) <=> Before(q, k, l)'
      <4> HIDE DEF S, T
      <4> QED
        BY <2>2, <3>1, <3>2 DEF Before, EntryBefore
    <3> QED
      BY <2>1, <3>3
  <2>3. CASE q.of # "entries"
    <3>1. S \subseteq PositionsWithId /\ T \subseteq PositionsWithId'
      BY <2>3, SelectedHaveIds, SelectedHaveIdsNext
    <3>2. \A p, r \in PositionsWithId \cap PositionsWithId' :
            <<p, r>> \in positionIds' <=> <<p, r>> \in positionIds
      BY IdsStayOrdered DEF ListsInv
    <3>3. \A p, r \in S \cap T : Before(q, p, r) <=> Before(q, p, r)'
      <4> HIDE DEF S, T
      <4> QED
        BY <2>3, <3>1, <3>2 DEF Before, PositionBefore
    <3> QED
      BY <2>1, <3>3
  <2> QED
    BY <2>2, <2>3
<1>4. Ahead(q, c) = From(S, R, c) /\ Ahead(q, c)' = From(T, Q, c)
  BY DEF Ahead, From, Place, RowsBefore
<1> HIDE DEF S, T, R, Q
<1>5. Follows(S, T, From(S, R, c), From(T, Q, c))
  BY <1>1, <1>2, <1>3, OneMoves
<1> QED
  BY <1>4, <1>5 DEF S, T

(* A page takes the rows ahead as far as it goes; one that is not full     *)
(* takes all of them.                                                      *)
LEMMA PageTakes ==
  ASSUME TypeOK, ListsInv, NEW q \in Queries, NEW o \in Nat
  PROVE  LET P == Page(q, o)
         IN  /\ P = Ahead(q, o) \ Ahead(q, o + Limit)
             /\ Ahead(q, o + Limit) \subseteq Ahead(q, o)
             /\ IsFiniteSet(P) /\ Cardinality(P) \in Nat /\ Cardinality(P) <= Limit
             /\ P # {} => o + Cardinality(P) <= Cardinality(Selected(q))
             /\ Cardinality(P) # Limit => Ahead(q, o + Limit) = {}
             /\ Ahead(q, o) \subseteq Selected(q) /\ Ahead(q, 0) = Selected(q)
<1> DEFINE S == Selected(q)
           R == OrderOf(q)
<1>1. Linear(S, R) /\ IsFiniteSet(S) /\ Limit \in Nat
  BY ListsLinear, ReadsAssumption DEF ListsInv, FiniteLists
<1>2. \A x \in S : Rank(q, x) = Place(S, R, x)
  BY DEF Rank, Place, RowsBefore, OrderOf
<1>3. Page(q, o) = Slice(S, R, o, Limit)
  BY <1>2 DEF Page, Slice
<1>4. \A c : Ahead(q, c) = From(S, R, c)
  BY DEF Ahead
<1> HIDE DEF S, R
<1>5. \A x \in S : Place(S, R, x) \in Nat
  BY <1>1, PlaceType
<1>6. /\ Slice(S, R, o, Limit) = From(S, R, o) \ From(S, R, o + Limit)
      /\ From(S, R, o + Limit) \subseteq From(S, R, o)
      /\ From(S, R, 0) = S
      /\ From(S, R, o) \subseteq S
  BY <1>1, <1>5 DEF Slice, From
<1>7. LET P == Slice(S, R, o, Limit)
      IN  /\ IsFiniteSet(P) /\ Cardinality(P) \in Nat
          /\ Cardinality(P) <= Limit
          /\ P # {} => o + Cardinality(P) <= Cardinality(S)
          /\ (\E x \in S : Place(S, R, x) >= o + Limit) => Cardinality(P) = Limit
  BY <1>1, SliceSize
<1>8. Cardinality(Slice(S, R, o, Limit)) # Limit => From(S, R, o + Limit) = {}
  BY <1>7 DEF From
<1> QED
  BY <1>3, <1>4, <1>6, <1>7, <1>8 DEF S
(* A set whose rows are in X or in Y has no more rows than both have.      *)
LEMMA SmallUnion ==
  ASSUME NEW X, NEW Y, NEW Z, IsFiniteSet(X), IsFiniteSet(Y), Z \subseteq X \cup Y
  PROVE  /\ Cardinality(X) \in Nat /\ Cardinality(Z) \in Nat
         /\ Cardinality(Z) <= Cardinality(X) + Cardinality(Y)
<1>1. /\ IsFiniteSet(X \cup Y)
      /\ Cardinality(X \cup Y) = Cardinality(X) + Cardinality(Y) - Cardinality(X \cap Y)
  BY FS_Union
<1>2. Cardinality(X) \in Nat /\ Cardinality(Y) \in Nat /\ Cardinality(X \cap Y) \in Nat
  BY FS_Intersection, FS_CardinalityType
<1>3. IsFiniteSet(Z) /\ Cardinality(Z) <= Cardinality(X \cup Y)
  BY <1>1, FS_Subset
<1>4. Cardinality(Z) \in Nat /\ Cardinality(X \cup Y) \in Nat
  BY <1>1, <1>3, FS_CardinalityType
<1> QED
  BY <1>1, <1>2, <1>3, <1>4

-----------------------------------------------------------------------------
(* The invariant of a client that pages through a list: what it may have   *)
(* missed has been moved past it by rows that left, what it may see again  *)
(* has been moved ahead of it by rows that came.                           *)

(* The rows from the start that it has not been shown and will not be. *)
Missed(q, o) ==
  IF received = o THEN (start \ shown) \ Ahead(q, o) ELSE start \ shown

PagesSound(q, o) ==
  /\ start \subseteq Items(q) /\ shown \subseteq Items(q)
  /\ IsFiniteSet(start) /\ IsFiniteSet(shown)
  /\ left \in Nat /\ came \in Nat /\ received \in Nat /\ o \in Nat
  /\ received <= o /\ o <= received + Limit
  /\ received <= Cardinality(start) + came
  /\ Cardinality(Selected(q)) + left = Cardinality(start) + came
  /\ q.of = "entries" => left = 0
  /\ Cardinality(Missed(q, o)) <= left
  /\ received + Cardinality(shown \cap Ahead(q, o)) <= Cardinality(shown) + came

PagesInv ==
  /\ query \in Queries \cup {Unset}
  /\ query = Unset => NotReading
  /\ query # Unset => PagesSound(query, offset)

LEMMA SelectedAreItems ==
  ASSUME TypeOK, NEW q \in Queries
  PROVE  Selected(q) \subseteq Items(q)
<1>1. EntriesWithId \subseteq Keys /\ PositionsWithId \subseteq PositionIds
  BY DEF EntriesWithId, PositionsWithId
<1> QED
  BY <1>1, SelectedHaveIds DEF Items

LEMMA ReadsLeaveLists ==
  ASSUME UNCHANGED <<vars, inserted>>, NEW q, NEW c
  PROVE  Selected(q)' = Selected(q) /\ Ahead(q, c)' = Ahead(q, c)
<1>1. Selected(q)' = Selected(q)
  BY DEF Selected, EntryMatches, PositionMatches, Exists, vars
<1>2. OrderOf(q)' = OrderOf(q)
  BY <1>1 DEF OrderOf, Before, EntryBefore, PositionBefore, inserted
<1> QED
  BY <1>1, <1>2 DEF Ahead, From, Place, RowsBefore

LEMMA FirstPageIsSound ==
  ASSUME TypeOK, ListsInv, NEW q \in Queries, FirstPage(q)
  PROVE  PagesSound(q, Limit)'
<1> DEFINE P == Page(q, 0)
           S == Selected(q)
           A == Ahead(q, Limit)
<1>1. /\ shown' = P /\ received' = Cardinality(P) /\ start' = S
      /\ left' = 0 /\ came' = 0 /\ Selected(q)' = S /\ Ahead(q, Limit)' = A
  BY ReadsLeaveLists DEF FirstPage
<1>2. /\ P = S \ A /\ A \subseteq S
      /\ IsFiniteSet(P) /\ Cardinality(P) \in Nat /\ Cardinality(P) <= Limit
      /\ P # {} => Cardinality(P) <= Cardinality(S)
      /\ Cardinality(P) # Limit => A = {}
  <2>1. /\ P = Ahead(q, 0) \ Ahead(q, 0 + Limit)
        /\ Ahead(q, 0 + Limit) \subseteq Ahead(q, 0)
        /\ IsFiniteSet(P) /\ Cardinality(P) \in Nat /\ Cardinality(P) <= Limit
        /\ P # {} => 0 + Cardinality(P) <= Cardinality(S)
        /\ Cardinality(P) # Limit => Ahead(q, 0 + Limit) = {}
        /\ Ahead(q, 0) = S
    BY PageTakes
  <2>2. 0 + Limit = Limit
    BY ReadsAssumption
  <2> QED
    BY <2>1, <2>2
<1>3. S \subseteq Items(q) /\ IsFiniteSet(S) /\ Cardinality(S) \in Nat /\ Limit \in Nat \ {0}
  BY SelectedAreItems, FS_CardinalityType, ReadsAssumption DEF ListsInv, FiniteLists
<1>4. Cardinality({}) = 0
  BY FS_EmptySet
<1>5. Missed(q, Limit)' = {}
  <2>1. Missed(q, Limit)' = IF Cardinality(P) = Limit THEN (S \ P) \ A ELSE S \ P
    BY <1>1 DEF Missed
  <2> QED
    BY <1>2, <2>1
<1>6. P \cap A = {}
  BY <1>2
<1> HIDE DEF P, S, A
<1>7. Cardinality(P) <= Cardinality(S)
  BY <1>2, <1>3, <1>4
<1> QED
  BY <1>1, <1>2, <1>3, <1>4, <1>5, <1>6, <1>7 DEF PagesSound, Items

LEMMA NextPageIsSound ==
  ASSUME TypeOK, ListsInv, NEW q \in Queries, query = q, NEW o \in Nat, offset = o,
         PagesSound(q, o), NextPage
  PROVE  PagesSound(q, o + Limit)'
<1> DEFINE P == Page(q, o)
           S == Selected(q)
           A == Ahead(q, o)
           B == Ahead(q, o + Limit)
           T == shown \cup P
<1>1. /\ shown' = T /\ received' = o + Cardinality(P) /\ start' = start
      /\ left' = left /\ came' = came /\ Selected(q)' = S /\ Ahead(q, o + Limit)' = B
      /\ received = o
  BY ReadsLeaveLists DEF NextPage, More
<1>2. /\ P = A \ B /\ B \subseteq A
      /\ IsFiniteSet(P) /\ Cardinality(P) \in Nat /\ Cardinality(P) <= Limit
      /\ P # {} => o + Cardinality(P) <= Cardinality(S)
      /\ Cardinality(P) # Limit => B = {}
      /\ A \subseteq S
  BY PageTakes
<1>3. /\ S \subseteq Items(q) /\ IsFiniteSet(S) /\ Cardinality(S) \in Nat
      /\ Limit \in Nat \ {0} /\ o + Limit \in Nat
      /\ Cardinality(start) \in Nat /\ Cardinality(shown) \in Nat
  BY SelectedAreItems, FS_CardinalityType, ReadsAssumption
     DEF ListsInv, FiniteLists, PagesSound
<1>4. IsFiniteSet(T) /\ Cardinality(T) = Cardinality(shown) + Cardinality(P) - Cardinality(shown \cap P)
  BY <1>2, FS_Union DEF PagesSound
<1>5. /\ Cardinality(shown \cap P) \in Nat /\ Cardinality(T \cap B) \in Nat
      /\ Cardinality(shown \cap A) = Cardinality(shown \cap P) + Cardinality(T \cap B)
  <2> DEFINE X == shown \cap P
             Y == T \cap B
  <2>1. /\ X \cup Y = shown \cap A /\ X \cap Y = {}
        /\ X \in SUBSET shown /\ Y \in SUBSET shown
    BY <1>2
  <2> HIDE DEF X, Y
  <2>2. IsFiniteSet(X) /\ IsFiniteSet(Y) /\ Cardinality(X) \in Nat /\ Cardinality(Y) \in Nat
    BY <2>1, FS_Subset, FS_CardinalityType DEF PagesSound
  <2>3. Cardinality(X \cup Y) = Cardinality(X) + Cardinality(Y) - Cardinality(X \cap Y)
    BY <2>2, FS_Union
  <2>4. Cardinality(X \cap Y) = 0
    BY <2>1, FS_EmptySet
  <2>5. Cardinality(X \cup Y) = Cardinality(X) + Cardinality(Y)
    BY <2>2, <2>3, <2>4
  <2>6. Cardinality(shown \cap A) = Cardinality(X) + Cardinality(Y)
    <3> HIDE DEF A
    <3> QED
      BY <2>1, <2>5
  <2> QED
    BY <2>2, <2>6 DEF X, Y
<1>6. Cardinality(Missed(q, o + Limit)') <= left
  <2> DEFINE M == (start \ shown) \ A
             N == Missed(q, o + Limit)'
  <2>1. Cardinality(M) <= left /\ left \in Nat
    BY <1>1 DEF PagesSound, Missed
  <2>2. N = IF o + Cardinality(P) = o + Limit THEN (start \ T) \ B ELSE start \ T
    BY <1>1 DEF Missed
  <2>3. Cardinality(P) = Limit \/ B = {}
    BY <1>2
  <2>4. N \in SUBSET M
    BY <1>2, <2>2, <2>3
  <2>5. M \in SUBSET start /\ IsFiniteSet(start)
    BY DEF PagesSound
  <2> HIDE DEF M, N
  <2>6. IsFiniteSet(M)
    BY <2>5, FS_Subset
  <2>7. Cardinality(N) <= Cardinality(M) /\ Cardinality(N) \in Nat /\ Cardinality(M) \in Nat
    BY <2>4, <2>6, FS_Subset, FS_CardinalityType
  <2> QED
    BY <2>1, <2>7 DEF N
<1>7. P = {} => Cardinality(P) = 0
  BY FS_EmptySet
<1>8. T \subseteq Items(q)
  BY <1>2, <1>3 DEF PagesSound
<1>9. /\ start \subseteq Items(q) /\ IsFiniteSet(start)
      /\ left \in Nat /\ came \in Nat
      /\ o <= Cardinality(start) + came
      /\ Cardinality(S) + left = Cardinality(start) + came
      /\ q.of = "entries" => left = 0
      /\ o + Cardinality(shown \cap A) <= Cardinality(shown) + came
  BY <1>1 DEF PagesSound
<1> HIDE DEF P, S, A, B, T
<1>10. o + Cardinality(P) <= Cardinality(start) + came
  BY <1>2, <1>3, <1>7, <1>9
<1>11. (o + Cardinality(P)) + Cardinality(T \cap B) <= Cardinality(T) + came
  BY <1>2, <1>3, <1>4, <1>5, <1>9
<1>12. /\ o + Cardinality(P) \in Nat
       /\ o + Cardinality(P) <= o + Limit /\ o + Limit <= (o + Cardinality(P)) + Limit
  BY <1>2, <1>3
<1> QED
  BY <1>1, <1>3, <1>4, <1>6, <1>8, <1>9, <1>10, <1>11, <1>12 DEF PagesSound, Items
LEMMA ImportIsSound ==
  ASSUME TypeOK, TypeOK', TransactionsExclude, ListsInv, ListsInv', NEW q \in Queries,
         query = q, NEW o \in Nat, PagesSound(q, o), ImportGoesOn
  PROVE  PagesSound(q, o)'
<1> DEFINE S == Selected(q)
           T == Selected(q)'
           A == Ahead(q, o)
           B == Ahead(q, o)'
           M == Missed(q, o)
           N == Missed(q, o)'
<1>1. query # Unset
  BY ReadsAssumption
<1>2. /\ shown' = shown /\ received' = received /\ start' = start
      /\ left' = left + Cardinality(S \ T) /\ came' = came + Cardinality(T \ S)
  BY <1>1 DEF ImportGoesOn
<1>3. Follows(S, T, A, B)
  <2>1. [Next]_vars /\ IdsGoOn
    BY DEF ImportGoesOn
  <2> QED
    BY <2>1, ImportMovesList
<1>4. q.of = "entries" => Cardinality(S \ T) = 0
  <2>1. [Next]_vars
    BY DEF ImportGoesOn
  <2>2. q.of = "entries" => S \ T = {}
    BY <2>1, OneRowChanges
  <2> QED
    BY <2>2, FS_EmptySet
<1>5. /\ start \subseteq Items(q) /\ shown \subseteq Items(q)
      /\ IsFiniteSet(start) /\ IsFiniteSet(shown)
      /\ left \in Nat /\ came \in Nat /\ received \in Nat
      /\ received <= o /\ o <= received + Limit
      /\ received <= Cardinality(start) + came
      /\ Cardinality(S) + left = Cardinality(start) + came
      /\ q.of = "entries" => left = 0
      /\ Cardinality(M) <= left
      /\ received + Cardinality(shown \cap A) <= Cardinality(shown) + came
  BY DEF PagesSound
<1>6. N \subseteq M \cup (A \ B) /\ M \subseteq start
  BY <1>2 DEF Missed
<1>7. IsFiniteSet(S) /\ IsFiniteSet(T)
  BY DEF ListsInv, FiniteLists
<1> HIDE DEF S, T, A, B, M, N
<1>8. /\ Cardinality(S) \in Nat /\ Cardinality(T) \in Nat
      /\ Cardinality(start) \in Nat /\ Cardinality(shown) \in Nat
  BY <1>5, <1>7, FS_CardinalityType
<1>9. /\ Cardinality(S \ T) \in Nat /\ Cardinality(T \ S) \in Nat
      /\ IsFiniteSet(A \ B) /\ IsFiniteSet(B \ A)
      /\ Cardinality(A \ B) \in Nat /\ Cardinality(A \ B) <= Cardinality(S \ T)
      /\ Cardinality(B \ A) \in Nat /\ Cardinality(B \ A) <= Cardinality(T \ S)
      /\ Cardinality(T) + Cardinality(S \ T) = Cardinality(S) + Cardinality(T \ S)
  BY <1>3, FS_CardinalityType DEF Follows
<1>10. /\ Cardinality(M) \in Nat /\ Cardinality(N) \in Nat
       /\ Cardinality(N) <= Cardinality(M) + Cardinality(A \ B)
  BY <1>5, <1>6, <1>9, SmallUnion, FS_Subset
<1>11. /\ Cardinality(shown \cap A) \in Nat /\ Cardinality(shown \cap B) \in Nat
       /\ Cardinality(shown \cap B) <= Cardinality(shown \cap A) + Cardinality(B \ A)
  <2>1. IsFiniteSet(shown \cap A)
    BY <1>5, FS_Intersection
  <2>2. shown \cap B \subseteq (shown \cap A) \cup (B \ A)
    OBVIOUS
  <2> QED
    BY <1>9, <2>1, <2>2, SmallUnion
<1>12. Cardinality(T) + (left + Cardinality(S \ T)) = Cardinality(start) + (came + Cardinality(T \ S))
  BY <1>5, <1>8, <1>9
<1>13. Cardinality(N) <= left + Cardinality(S \ T)
  BY <1>5, <1>9, <1>10
<1>14. received + Cardinality(shown \cap B) <= Cardinality(shown) + (came + Cardinality(T \ S))
  BY <1>5, <1>8, <1>9, <1>11
<1>15. /\ left + Cardinality(S \ T) \in Nat /\ came + Cardinality(T \ S) \in Nat
       /\ received <= Cardinality(start) + (came + Cardinality(T \ S))
       /\ q.of = "entries" => left + Cardinality(S \ T) = 0
  BY <1>4, <1>5, <1>8, <1>9
<1> QED
  BY <1>2, <1>5, <1>12, <1>13, <1>14, <1>15 DEF PagesSound, Items, T, B, N

LEMMA PagesStaySound ==
  ASSUME TypeOK, TypeOK', TransactionsExclude, ListsInv, ListsInv', PagesInv,
         [NextReads]_readsVars
  PROVE  PagesInv'
<1>1. CASE UNCHANGED readsVars
  <2>1. query' = query /\ offset' = offset
    BY <1>1 DEF readsVars, reader
  <2>2. CASE query = Unset
    BY <1>1, <2>1, <2>2 DEF PagesInv, NotReading, readsVars, reader
  <2>3. CASE query # Unset
    <3>1. PagesSound(query, offset)
      BY <2>3 DEF PagesInv
    <3>2. PagesSound(query, offset)'
      <4>1. PICK q \in Queries : q = query
        BY <2>3 DEF PagesInv
      <4>2. offset \in Nat
        BY <3>1 DEF PagesSound
      <4>3. PICK o \in Nat : o = offset
        BY <4>2
      <4>4. PagesSound(q, o)'
        <5>1. Selected(q)' = Selected(q) /\ Ahead(q, o)' = Ahead(q, o)
          BY <1>1, ReadsLeaveLists DEF readsVars
        <5> QED
          BY <1>1, <3>1, <4>1, <4>3, <5>1 DEF PagesSound, Missed, readsVars, reader, Items
      <4> QED
        BY <2>1, <4>1, <4>3, <4>4
    <3> QED
      BY <2>1, <2>3, <3>2 DEF PagesInv
  <2> QED
    BY <2>2, <2>3
<1>2. ASSUME NEW q \in Queries, FirstPage(q)
      PROVE  PagesInv'
  <2>1. query' = q /\ offset' = Limit
    BY <1>2 DEF FirstPage
  <2>2. PagesSound(q, Limit)'
    BY <1>2, FirstPageIsSound
  <2> QED
    BY <2>1, <2>2, ReadsAssumption DEF PagesInv
<1>3. ASSUME query # Unset
      PROVE  \E q \in Queries, o \in Nat : q = query /\ o = offset /\ PagesSound(q, o)
  BY <1>3 DEF PagesInv, PagesSound
<1>4. CASE NextPage
  <2>1. query # Unset /\ query' = query /\ offset' = offset + Limit
    BY <1>4 DEF NextPage, More
  <2>2. PICK q \in Queries, o \in Nat : q = query /\ o = offset /\ PagesSound(q, o)
    BY <1>3, <2>1
  <2>3. PagesSound(q, o + Limit)'
    BY <1>4, <2>2, NextPageIsSound
  <2> QED
    BY <2>1, <2>2, <2>3, ReadsAssumption DEF PagesInv
<1>5. CASE Leave
  BY <1>5 DEF Leave, PagesInv, NotReading
<1>6. CASE ImportGoesOn
  <2>1. query' = query /\ offset' = offset
    BY <1>6 DEF ImportGoesOn
  <2>2. CASE query = Unset
    BY <1>6, <2>1, <2>2 DEF ImportGoesOn, PagesInv, NotReading
  <2>3. CASE query # Unset
    <3>1. PICK q \in Queries, o \in Nat : q = query /\ o = offset /\ PagesSound(q, o)
      BY <1>3, <2>3
    <3>2. PagesSound(q, o)'
      BY <1>6, <3>1, ImportIsSound
    <3> QED
      BY <2>1, <3>1, <3>2, ReadsAssumption DEF PagesInv
  <2> QED
    BY <2>2, <2>3
<1> QED
  BY <1>1, <1>2, <1>4, <1>5, <1>6 DEF NextReads
LEMMA PagesAreSound == ReadsSpec => [](TypeOK /\ ListsInv /\ PagesInv)
<1>1. InitReads => PagesInv
  BY DEF InitReads, PagesInv, NotReading
<1>2. /\ TypeOK /\ TransactionsExclude /\ ListsInv
      /\ TypeOK' /\ ListsInv'
      /\ PagesInv /\ [NextReads]_readsVars
      => PagesInv'
  BY PagesStaySound
<1> QED
  BY <1>1, <1>2, ListsAreSound, PTL DEF ReadsSpec

(***************************************************************************)
(* Types and counters of the reads: a client has received no more rows     *)
(* than matched when it began or have come since, and has asked for no     *)
(* more than a page beyond them (ledger.py:255-256, positions.py:52-53):   *)
(* paging ends when no more rows come.                                     *)
(***************************************************************************)
THEOREM ReadsTypeCorrect == ReadsSpec => []ReadsTypeOK
<1>1. TypeOK /\ ListsInv /\ PagesInv => ReadsTypeOK
  <2> SUFFICES ASSUME TypeOK, ListsInv, PagesInv
               PROVE  ReadsTypeOK
    OBVIOUS
  <2>1. entryIds \subseteq Keys \X Keys /\ positionIds \subseteq PositionIds \X PositionIds
    BY DEF ListsInv, IdsOrdered, EntriesWithId, PositionsWithId
  <2>2. CASE query = Unset
    <3>1. Cardinality(start) = 0
      BY <2>2, FS_EmptySet DEF PagesInv, NotReading
    <3> QED
      BY <2>1, <2>2, <3>1, ReadsAssumption DEF ReadsTypeOK, PagesInv, NotReading
  <2>3. CASE query # Unset
    <3>1. /\ query \in Queries
          /\ start \subseteq Items(query) /\ shown \subseteq Items(query)
          /\ IsFiniteSet(start)
          /\ left \in Nat /\ came \in Nat /\ received \in Nat /\ offset \in Nat
          /\ received <= offset /\ offset <= received + Limit
          /\ received <= Cardinality(start) + came
      BY <2>3 DEF PagesInv, PagesSound
    <3>2. Cardinality(start) \in Nat
      BY <3>1, FS_CardinalityType
    <3> QED
      BY <2>1, <2>3, <3>1, <3>2, ReadsAssumption DEF ReadsTypeOK
  <2> QED
    BY <2>2, <2>3
<1> QED
  BY <1>1, PagesAreSound, PTL

(***************************************************************************)
(* However imports overlap with a client's pages, it misses a row that was *)
(* there from first to last only for each row that has left the list, and  *)
(* no entry of the ledger: a row is carried behind the next page only by   *)
(* one that leaves before it (ledger.py:255-256, positions.py:52-53).      *)
(***************************************************************************)
THEOREM SkipsAreLeavers == ReadsSpec => []SkipsOnlyForLeavers
<1>1. TypeOK /\ ListsInv /\ PagesInv => SkipsOnlyForLeavers
  <2> SUFFICES ASSUME PagesInv, query # Unset, received # offset
               PROVE  /\ Cardinality(Skipped) <= left
                      /\ query.of = "entries" => Skipped = {}
    BY DEF SkipsOnlyForLeavers, Finished, More
  <2>1. /\ IsFiniteSet(start) /\ left \in Nat
        /\ query.of = "entries" => left = 0
        /\ Cardinality(start \ shown) <= left
    BY DEF PagesInv, PagesSound, Missed
  <2> DEFINE M == start \ shown
  <2>2. IsFiniteSet(M) /\ Cardinality(M) \in Nat
    BY <2>1, FS_Difference, FS_CardinalityType
  <2>3. Skipped \in SUBSET M
    BY DEF Skipped
  <2>4. Cardinality(M) <= left
    BY <2>1
  <2> HIDE DEF M
  <2>5. IsFiniteSet(Skipped) /\ Cardinality(Skipped) <= Cardinality(M)
    BY <2>2, <2>3, FS_Subset
  <2>6. Cardinality(Skipped) \in Nat /\ (Cardinality(Skipped) = 0 => Skipped = {})
    BY <2>5, FS_CardinalityType, FS_EmptySet
  <2> QED
    BY <2>1, <2>2, <2>4, <2>5, <2>6
<1> QED
  BY <1>1, PagesAreSound, PTL

(***************************************************************************)
(* And it is shown a row twice only for each row that has joined the list  *)
(* (the same lines): a row is carried ahead of the next page only by one   *)
(* that comes in before it.                                                *)
(***************************************************************************)
THEOREM RepeatsAreNewcomers == ReadsSpec => []RepeatsOnlyForNewcomers
<1>1. TypeOK /\ ListsInv /\ PagesInv => RepeatsOnlyForNewcomers
  <2> SUFFICES ASSUME PagesInv, query # Unset
               PROVE  received - Cardinality(shown) <= came
    BY DEF RepeatsOnlyForNewcomers
  <2>1. /\ IsFiniteSet(shown) /\ came \in Nat /\ received \in Nat
        /\ received + Cardinality(shown \cap Ahead(query, offset)) <= Cardinality(shown) + came
    BY DEF PagesInv, PagesSound
  <2>2. /\ Cardinality(shown) \in Nat
        /\ Cardinality(shown \cap Ahead(query, offset)) \in Nat
    BY <2>1, FS_Intersection, FS_CardinalityType
  <2> QED
    BY <2>1, <2>2
<1> QED
  BY <1>1, PagesAreSound, PTL

-----------------------------------------------------------------------------
(* What an import has recorded is found.                                   *)

(* An entry's position is stored under the entry's own spelling, or its    *)
(* spelling is one that the lookup finds the position by.                  *)
EntriesFindable ==
  \A i \in 1..Len(ledger) :
    LET p == ledger[i].position_id
        s == ledger[i].submitted_ticker
    IN  Exists(positions, p) /\ (p[2] = s \/ Lower[p[2]] = StripLower[s])

LEMMA EntriesStayFindable == Spec => []EntriesFindable
<1>1. Init => EntriesFindable
  BY DEF Init, EntriesFindable
<1>2. TypeOK /\ TransactionsExclude /\ EntriesFindable /\ [Next]_vars => EntriesFindable'
  <2> SUFFICES ASSUME TypeOK, TransactionsExclude, EntriesFindable, [Next]_vars
               PROVE  EntriesFindable'
    OBVIOUS
  <2>1. CASE UNCHANGED <<positions, ledger, ledgerSum>>
    BY <2>1 DEF EntriesFindable, Exists
  <2>2. ASSUME NEW t \in Threads, Commits(t)
        PROVE  EntriesFindable'
    <3> DEFINE e == LedgerEntry(req[t], pos[t])
               n == Len(ledger)
    <3>1. /\ pc[t] = "commit" /\ Post(t) /\ pos[t] \in PositionIds
          /\ req[t].event_type \in ALLOWED_EVENT_TYPES
      BY <2>2, CommitIsPost
    <3>2. e.position_id = pos[t] /\ e.submitted_ticker = req[t].ticker
      BY DEF LedgerEntry
    <3>3. pos[t][2] = req[t].ticker \/ Lower[pos[t][2]] = StripLower[req[t].ticker]
      BY <3>1 DEF TransactionsExclude, PositionResolved, Matching, OwnPosition
    <3>4. /\ n \in Nat /\ Len(ledger') = n + 1
          /\ \A i \in 1..n : ledger'[i] = ledger[i]
          /\ ledger'[n + 1] = e
      BY <3>1, PostEffect DEF TypeOK
    <3>5. \A q \in PositionIds : Exists(positions', q) <=> Exists(positions, q) \/ q = pos[t]
      BY <3>1, PostEffect
    <3>6. \A i \in 1..n : ledger[i].position_id \in PositionIds
      <4>1. \A i \in 1..n : ledger[i] \in Entries
        BY DEF TypeOK
      <4> QED
        BY <4>1 DEF Entries
    <3> HIDE DEF e, n
    <3> SUFFICES ASSUME NEW i \in 1..(n + 1)
                 PROVE  LET p == ledger'[i].position_id
                            s == ledger'[i].submitted_ticker
                        IN  Exists(positions', p) /\ (p[2] = s \/ Lower[p[2]] = StripLower[s])
      BY <3>4 DEF EntriesFindable
    <3>7. CASE i = n + 1
      BY <3>1, <3>2, <3>3, <3>4, <3>5, <3>7
    <3>8. CASE i # n + 1
      <4>1. i \in 1..n
        BY <3>4, <3>8
      <4>2. /\ Exists(positions, ledger[i].position_id)
            /\ \/ ledger[i].position_id[2] = ledger[i].submitted_ticker
               \/ Lower[ledger[i].position_id[2]] = StripLower[ledger[i].submitted_ticker]
        BY <4>1 DEF EntriesFindable, n
      <4> QED
        BY <3>4, <3>5, <3>6, <4>1, <4>2
    <3> QED
      BY <3>7, <3>8
  <2> QED
    BY <2>1, <2>2, OnlyCommitsWrite
<1> QED
  BY <1>1, <1>2, TypeCorrect, Exclusion, PTL DEF Spec

(* A finite, linearly ordered set has a first element. *)
LEMMA FirstIsThere ==
  ASSUME NEW S, IsFiniteSet(S), S # {}, NEW R, Linear(S, R)
  PROVE  \E x \in S : \A y \in S \ {x} : <<x, y>> \in R
<1>1. Cardinality(S) \in Nat /\ Cardinality(S) # 0
  BY FS_CardinalityType, FS_EmptySet
<1>2. PICK x \in S : Place(S, R, x) = 0
  BY <1>1, PlaceTaken
<1>3. ASSUME NEW y \in S, y # x
      PROVE  <<x, y>> \in R
  <2>1. Place(S, R, y) \in Nat
    BY PlaceType
  <2>2. <<y, x>> \notin R
    BY <1>2, <2>1, PlaceLess
  <2> QED
    BY <1>3, <2>2 DEF Linear
<1> QED
  BY <1>3

FinitelyMany == IsFiniteSet({ p \in PositionIds : Exists(positions, p) })

LEMMA PositionsStayFinite == Spec => []FinitelyMany
<1>1. Init => FinitelyMany
  <2> SUFFICES ASSUME Init PROVE FinitelyMany
    OBVIOUS
  <2>1. { p \in PositionIds : Exists(positions, p) } = {}
    BY DEF Init, Exists, NoRow
  <2> QED
    BY <2>1, FS_EmptySet DEF FinitelyMany
<1>2. TypeOK /\ TransactionsExclude /\ FinitelyMany /\ [Next]_vars => FinitelyMany'
  <2> SUFFICES ASSUME TypeOK, TransactionsExclude, FinitelyMany, [Next]_vars
               PROVE  FinitelyMany'
    OBVIOUS
  <2>1. CASE UNCHANGED positions
    BY <2>1 DEF FinitelyMany, Exists
  <2>2. ASSUME NEW t \in Threads, Commits(t)
        PROVE  FinitelyMany'
    <3> DEFINE S == { p \in PositionIds : Exists(positions, p) }
               T == { p \in PositionIds : Exists(positions', p) }
    <3>1. T \in SUBSET (S \cup {pos[t]})
      BY <2>2, CommitIsPost, PostEffect
    <3>2. IsFiniteSet(S)
      BY DEF FinitelyMany
    <3> HIDE DEF S, T
    <3>3. IsFiniteSet(S \cup {pos[t]})
      BY <3>2, FS_AddElement
    <3>4. IsFiniteSet(T)
      BY <3>1, <3>3, FS_Subset
    <3> QED
      BY <3>4 DEF FinitelyMany, T
  <2> QED
    BY <2>1, <2>2, OnlyCommitsWrite
<1> QED
  BY <1>1, <1>2, TypeCorrect, Exclusion, PTL DEF Spec

(* The lookup shows the first of the positions it finds, if there are any. *)
LEMMA FirstIsShown ==
  ASSUME TypeOK, IdsOrdered, FinitelyMany, NEW portfolio, NEW ticker,
         NEW p \in OfTicker(portfolio, ticker)
  PROVE  LET q == Shown(portfolio, ticker)
         IN  q \in OfTicker(portfolio, ticker) /\ (q = p \/ ShownBefore(q, p))
<1> DEFINE S   == OfTicker(portfolio, ticker)
           E   == { r \in PositionIds : Exists(positions, r) }
           R   == { x \in S \X S : ShownBefore(x[1], x[2]) }
           n   == [r \in PositionsWithId |-> IF positions[r].status = "closed" THEN 0 ELSE 1]
           ids == { x \in PositionsWithId \X PositionsWithId : <<x[2], x[1]>> \in positionIds }
<1>1. S \in SUBSET E /\ S \in SUBSET PositionsWithId /\ S # {}
  BY DEF OfTicker, PositionsWithId, HasPositionId
<1>2. IsFiniteSet(S)
  <2>1. IsFiniteSet(E)
    BY DEF FinitelyMany
  <2> HIDE DEF S, E
  <2> QED
    BY <1>1, <2>1, FS_Subset
<1>3. Linear(PositionsWithId, ids)
  BY DEF IdsOrdered, Linear
<1>4. n \in [PositionsWithId -> Int]
  OBVIOUS
<1>5. \A r \in S : positions[r].status \in {"open", "closed"}
  BY <1>1 DEF TypeOK, Rows, Exists
<1>6. \A x, y \in S :
        <<x, y>> \in R <=> n[x] < n[y] \/ (n[x] = n[y] /\ <<x, y>> \in ids)
  <2> SUFFICES ASSUME NEW x \in S, NEW y \in S
               PROVE  <<x, y>> \in R <=> n[x] < n[y] \/ (n[x] = n[y] /\ <<x, y>> \in ids)
    OBVIOUS
  <2>1. <<x, y>> \in R <=> ShownBefore(x, y)
    OBVIOUS
  <2>2. x \in PositionsWithId /\ y \in PositionsWithId
    BY <1>1
  <2>3. <<x, y>> \in ids <=> <<y, x>> \in positionIds
    BY <2>2
  <2>4. /\ n[x] = IF positions[x].status = "closed" THEN 0 ELSE 1
        /\ n[y] = IF positions[y].status = "closed" THEN 0 ELSE 1
    BY <2>2
  <2>5. positions[x].status \in {"open", "closed"} /\ positions[y].status \in {"open", "closed"}
    BY <1>5
  <2> HIDE DEF R, n, ids, S
  <2> QED
    BY <2>1, <2>3, <2>4, <2>5 DEF ShownBefore
<1>7. Linear(S, R)
  <2> HIDE DEF S, R, n, ids
  <2> QED
    BY <1>1, <1>3, <1>4, <1>6, SortedIsLinear
<1>8. \E x \in S : \A y \in S \ {x} : ShownBefore(x, y)
  <2>1. \A x, y \in S : <<x, y>> \in R => ShownBefore(x, y)
    OBVIOUS
  <2> HIDE DEF S, R
  <2>2. PICK x \in S : \A y \in S \ {x} : <<x, y>> \in R
    BY <1>1, <1>2, <1>7, FirstIsThere
  <2> QED
    BY <2>1, <2>2
<1>9. /\ Shown(portfolio, ticker) \in S
      /\ \A y \in S \ {Shown(portfolio, ticker)} : ShownBefore(Shown(portfolio, ticker), y)
  <2>1. Shown(portfolio, ticker) = CHOOSE x \in S : \A y \in S \ {x} : ShownBefore(x, y)
    BY DEF Shown
  <2> HIDE DEF S
  <2> QED
    BY <1>8, <2>1
<1> QED
  BY <1>9

(***************************************************************************)
(* The position a reply names, if it is stored without blanks around its   *)
(* ticker, is found by the ticker the import was sent with                 *)
(* (positions.py:112-128 against ledger.py:109-144), whatever was imported *)
(* since under whatever spelling; and only a closed or newer position of   *)
(* the same symbol is shown instead.                                       *)
(***************************************************************************)
THEOREM RecordedIsFound == ReadsSpec => []ImportIsFound
<1>1. /\ TypeOK /\ AckedIsDurable /\ EntriesFindable /\ FinitelyMany /\ IdsOrdered
      => ImportIsFound
  <2> SUFFICES ASSUME TypeOK, AckedIsDurable, EntriesFindable, FinitelyMany, IdsOrdered,
                      NEW t \in Threads, Acknowledged(reply[t]), Findable(reply[t].position_id)
               PROVE  LET p == reply[t].position_id
                          s == reply[t].submitted_ticker
                          q == Shown(p[1], s)
                      IN  /\ p \in OfTicker(p[1], s)
                          /\ q \in OfTicker(p[1], s) /\ (q = p \/ ShownBefore(q, p))
    BY DEF ImportIsFound
  <2> DEFINE p == reply[t].position_id
             s == reply[t].submitted_ticker
  <2>1. PICK i \in 1..Len(ledger) : ledger[i].position_id = p /\ ledger[i].submitted_ticker = s
    BY DEF AckedIsDurable
  <2>2. p \in PositionIds
    <3>1. ledger[i] \in Entries
      BY <2>1 DEF TypeOK
    <3> QED
      BY <2>1, <3>1 DEF Entries
  <2>3. Exists(positions, p) /\ (p[2] = s \/ Lower[p[2]] = StripLower[s])
    BY <2>1 DEF EntriesFindable
  <2>4. p \in OfTicker(p[1], s)
    BY <2>2, <2>3 DEF OfTicker, Findable
  <2> HIDE DEF p, s
  <2>5. Shown(p[1], s) \in OfTicker(p[1], s)
        /\ (Shown(p[1], s) = p \/ ShownBefore(Shown(p[1], s), p))
    BY <2>4, FirstIsShown
  <2> QED
    BY <2>4, <2>5 DEF p, s
<1>2. ListsInv => IdsOrdered
  BY DEF ListsInv
<1> QED
  BY <1>1, <1>2, ImportsBesideReads, TypeCorrect, Durable, EntriesStayFindable,
     PositionsStayFinite, ListsAreSound, PTL
=============================================================================
