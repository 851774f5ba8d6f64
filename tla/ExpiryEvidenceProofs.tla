------------------------- MODULE ExpiryEvidenceProofs -------------------------
(***************************************************************************)
(* Proofs about ExpiryEvidence: the estimates an expiry is chosen by are   *)
(* backed by setups of the table, for every set of symbols and expiries,   *)
(* every lookback and every history of replays, faults and refreshes.      *)
(***************************************************************************)
EXTENDS ExpiryEvidence, FiniteSetTheorems, TLAPS

-----------------------------------------------------------------------------
(* Finite sets                                                             *)

LEMMA ImageIsSmaller ==
  ASSUME NEW S, IsFiniteSet(S), NEW f, DOMAIN f = S
  PROVE  LET T == {f[x] : x \in S}
         IN  IsFiniteSet(T) /\ Cardinality(T) <= Cardinality(S)
<1> DEFINE T == {f[x] : x \in S}
           g == [x \in S |-> f[x]]
<1>1. g \in [S -> T] /\ \A y \in T : \E x \in S : g[x] = y
  OBVIOUS
<1> HIDE DEF T, g
<1>2. g \in Surjection(S, T)
  BY <1>1, Zenon DEF Surjection
<1> QED
  BY <1>2, FS_Surjection DEF T

(* Rows whose keys differ are as many as their keys.                       *)
Unique(rows) == \A a, b \in rows : Key(a) = Key(b) => a = b

LEMMA KeysAreAsMany ==
  ASSUME NEW rows, IsFiniteSet(rows), Unique(rows)
  PROVE  Cardinality(Keys(rows)) = Cardinality(rows)
<1> DEFINE f == [r \in rows |-> Key(r)]
<1>1. f \in [rows -> Keys(rows)] /\ \A k \in Keys(rows) : \E r \in rows : f[r] = k
  BY DEF Keys
<1>2. \A a, b \in rows : f[a] = f[b] => a = b
  BY DEF Unique
<1> HIDE DEF f
<1>3. f \in Surjection(rows, Keys(rows)) /\ f \in Injection(rows, Keys(rows))
  BY <1>1, <1>2, Zenon DEF Surjection, Injection, IsInjective
<1> QED
  BY <1>3, FS_Surjection

LEMMA DisjointUnion ==
  ASSUME NEW S, NEW T, IsFiniteSet(S), IsFiniteSet(T), S \cap T = {}
  PROVE  IsFiniteSet(S \cup T) /\ Cardinality(S \cup T) = Cardinality(S) + Cardinality(T)
<1>1. Cardinality(S) \in Nat /\ Cardinality(T) \in Nat /\ Cardinality({}) = 0
  BY FS_CardinalityType, FS_EmptySet
<1>2. Cardinality(S \cap T) = 0
  BY <1>1
<1>3. /\ IsFiniteSet(S \cup T)
      /\ Cardinality(S \cup T) = Cardinality(S) + Cardinality(T) - Cardinality(S \cap T)
  BY FS_Union
<1> QED
  BY <1>1, <1>2, <1>3

(* A finite set is numbered.                                               *)
LEMMA Numbered ==
  ASSUME NEW S, IsFiniteSet(S)
  PROVE  \E g \in [1..Cardinality(S) -> S] :
           \A i, j \in 1..Cardinality(S) : g[i] = g[j] => i = j
<1>1. Cardinality(S) \in Nat
  BY FS_CardinalityType
<1>2. IsFiniteSet(1..Cardinality(S)) /\ Cardinality(1..Cardinality(S)) = Cardinality(S)
  BY <1>1, FS_Interval
<1>3. ExistsBijection(1..Cardinality(S), S)
  BY <1>2, FS_SameCardinalityBij
<1> QED
  BY <1>3 DEF ExistsBijection, Bijection, Injection, IsInjective

(* Tokens lo[p]+1..hi[p] of each p are not more than the rows they stand   *)
(* for, when there are enough of them for each p and no row is of two.     *)
LEMMA TokensAreFewer ==
  ASSUME NEW P, NEW lo \in [P -> Nat], NEW hi \in [P -> Nat], NEW R, IsFiniteSet(R),
         NEW part, \A p \in P : part[p] \in SUBSET R,
         \A p, q \in P : p # q => part[p] \cap part[q] = {},
         \A p \in P : hi[p] - lo[p] <= Cardinality(part[p])
  PROVE  LET T == UNION {{p} \X (lo[p] + 1..hi[p]) : p \in P}
         IN  IsFiniteSet(T) /\ Cardinality(T) <= Cardinality(R)
<1> DEFINE T == UNION {{p} \X (lo[p] + 1..hi[p]) : p \in P}
           n(p) == Cardinality(part[p])
           Num(p, g) == /\ g \in [1..n(p) -> part[p]]
                        /\ \A i, j \in 1..n(p) : g[i] = g[j] => i = j
           num(p) == CHOOSE g : Num(p, g)
           f == [t \in T |-> num(t[1])[t[2] - lo[t[1]]]]
<1>1. ASSUME NEW p \in P PROVE Num(p, num(p)) /\ n(p) \in Nat
  <2>1. IsFiniteSet(part[p])
    BY FS_Subset
  <2>2. n(p) \in Nat /\ \E g : Num(p, g)
    BY <2>1, Numbered, FS_CardinalityType
  <2> HIDE DEF Num, n
  <2> QED
    BY <2>2
<1>2. ASSUME NEW t \in T
      PROVE  /\ t[1] \in P /\ t[2] - lo[t[1]] \in 1..n(t[1]) /\ t = <<t[1], t[2]>>
             /\ t[2] \in Int /\ lo[t[1]] \in Nat
  <2>1. PICK p \in P : t \in {p} \X (lo[p] + 1..hi[p])
    OBVIOUS
  <2>2. t[1] = p /\ t[2] \in lo[p] + 1..hi[p] /\ t = <<t[1], t[2]>>
    BY <2>1
  <2>3. lo[p] \in Nat /\ hi[p] \in Nat /\ n(p) \in Nat /\ hi[p] - lo[p] <= n(p)
    BY <1>1
  <2> HIDE DEF n, T
  <2> QED
    BY <2>2, <2>3
<1> HIDE DEF T, n, num
<1>3. ASSUME NEW t \in T PROVE f[t] \in part[t[1]]
  <2>1. num(t[1]) \in [1..n(t[1]) -> part[t[1]]]
    BY <1>1, <1>2
  <2> QED
    BY <1>2, <2>1
<1>4. ASSUME NEW s \in T, NEW t \in T, f[s] = f[t] PROVE s = t
  <2>1. s[1] = t[1]
    BY <1>2, <1>3, <1>4
  <2>2. num(s[1])[s[2] - lo[s[1]]] = num(s[1])[t[2] - lo[s[1]]]
    BY <1>4, <2>1
  <2>3. s[2] - lo[s[1]] = t[2] - lo[s[1]]
    BY <1>1, <1>2, <2>1, <2>2
  <2>4. s[2] = t[2]
    BY <1>2, <2>1, <2>3
  <2> QED
    BY <1>2, <2>1, <2>4
<1>5. f \in [T -> R]
  BY <1>2, <1>3
<1> HIDE DEF f
<1>6. f \in Injection(T, R)
  BY <1>4, <1>5 DEF Injection, IsInjective
<1>7. IsFiniteSet(T) /\ Cardinality(T) <= Cardinality(R)
  BY <1>6, FS_Injection
<1> QED
  BY <1>7 DEF T

-----------------------------------------------------------------------------
(* Samples                                                                 *)

Wins(rows) == {row \in rows : row.won}
Losses(rows) == {row \in rows : ~ row.won}

(* A tally claims no win and no loss that is not among the rows.           *)
Backed(tally, rows) ==
  /\ tally.wins <= tally.n
  /\ tally.wins <= Cardinality(Wins(rows))
  /\ tally.n - tally.wins <= Cardinality(Losses(rows))

LEMMA WinsAndLosses ==
  ASSUME NEW rows, IsFiniteSet(rows)
  PROVE  /\ IsFiniteSet(Wins(rows)) /\ IsFiniteSet(Losses(rows))
         /\ Cardinality(Wins(rows)) \in Nat /\ Cardinality(Losses(rows)) \in Nat
         /\ Cardinality(rows) = Cardinality(Wins(rows)) + Cardinality(Losses(rows))
<1>1. IsFiniteSet(Wins(rows)) /\ IsFiniteSet(Losses(rows))
  BY FS_Subset DEF Wins, Losses
<1>2. Wins(rows) \cap Losses(rows) = {} /\ Wins(rows) \cup Losses(rows) = rows
  BY DEF Wins, Losses
<1> QED
  BY <1>1, <1>2, DisjointUnion, FS_CardinalityType

LEMMA BackedByMore ==
  ASSUME NEW rows, NEW rows2, IsFiniteSet(rows2), rows \in SUBSET rows2,
         NEW tally, tally.wins \in Nat, tally.n \in Nat, Backed(tally, rows)
  PROVE  Backed(tally, rows2)
<1>1. IsFiniteSet(rows) /\ Wins(rows) \in SUBSET Wins(rows2)
      /\ Losses(rows) \in SUBSET Losses(rows2)
  BY FS_Subset DEF Wins, Losses
<1>2. /\ Cardinality(Wins(rows)) <= Cardinality(Wins(rows2))
      /\ Cardinality(Losses(rows)) <= Cardinality(Losses(rows2))
  BY <1>1, WinsAndLosses, FS_Subset
<1>3. /\ Cardinality(Wins(rows)) \in Nat /\ Cardinality(Losses(rows)) \in Nat
      /\ Cardinality(Wins(rows2)) \in Nat /\ Cardinality(Losses(rows2)) \in Nat
  BY <1>1, WinsAndLosses
<1> QED
  BY <1>2, <1>3 DEF Backed

LEMMA BackedTogether ==
  ASSUME NEW A, NEW B, IsFiniteSet(A), IsFiniteSet(B), A \cap B = {},
         NEW a \in Tally, NEW b \in Tally, Backed(a, A), Backed(b, B)
  PROVE  Plus(a, b) \in Tally /\ Backed(Plus(a, b), A \cup B)
<1>1. /\ IsFiniteSet(Wins(A)) /\ IsFiniteSet(Losses(A))
      /\ IsFiniteSet(Wins(B)) /\ IsFiniteSet(Losses(B))
      /\ Cardinality(Wins(A)) \in Nat /\ Cardinality(Losses(A)) \in Nat
      /\ Cardinality(Wins(B)) \in Nat /\ Cardinality(Losses(B)) \in Nat
  BY WinsAndLosses
<1>2. /\ Wins(A) \cap Wins(B) = {} /\ Losses(A) \cap Losses(B) = {}
      /\ Wins(A \cup B) = Wins(A) \cup Wins(B)
      /\ Losses(A \cup B) = Losses(A) \cup Losses(B)
  BY DEF Wins, Losses
<1>3. /\ Cardinality(Wins(A \cup B)) = Cardinality(Wins(A)) + Cardinality(Wins(B))
      /\ Cardinality(Losses(A \cup B)) = Cardinality(Losses(A)) + Cardinality(Losses(B))
  BY <1>1, <1>2, DisjointUnion
<1>4. a.wins \in Nat /\ a.n \in Nat /\ b.wins \in Nat /\ b.n \in Nat
  BY DEF Tally
<1>5. Plus(a, b).wins = a.wins + b.wins /\ Plus(a, b).n = a.n + b.n
  BY DEF Plus
<1>6. Plus(a, b) \in Tally
  BY <1>4 DEF Plus, Tally
<1> QED
  BY <1>1, <1>3, <1>4, <1>5, <1>6 DEF Backed

(* The rows of a population, and what is read of them.                     *)
RowsOf(rows, p) == {row \in rows : <<row.symbol, row.horizon, row.confirmed>> = p}

LEMMA CountsAreBacked ==
  ASSUME NEW rows, IsFiniteSet(rows)
  PROVE  /\ CountsOf(rows) \in Counts
         /\ \A p \in Population : Backed(CountsOf(rows)[p], RowsOf(rows, p))
<1>1. ASSUME NEW p \in Population
      PROVE  /\ CountsOf(rows)[p] \in Tally
             /\ Backed(CountsOf(rows)[p], RowsOf(rows, p))
  <2> DEFINE those == RowsOf(rows, p)
  <2>1. IsFiniteSet(those)
    BY FS_Subset DEF RowsOf
  <2>2. CountsOf(rows)[p] = [wins |-> Cardinality(Wins(those)), n |-> Cardinality(those)]
    BY DEF CountsOf, RowsOf, Wins
  <2> HIDE DEF those
  <2>3. /\ Cardinality(Wins(those)) \in Nat /\ Cardinality(Losses(those)) \in Nat
        /\ Cardinality(those) = Cardinality(Wins(those)) + Cardinality(Losses(those))
    BY <2>1, WinsAndLosses
  <2>4. Cardinality(those) \in Nat
    BY <2>3
  <2>5. CountsOf(rows)[p] \in Tally
    BY <2>2, <2>3, <2>4 DEF Tally
  <2>6. Backed(CountsOf(rows)[p], those)
    BY <2>2, <2>3, <2>4 DEF Backed
  <2> QED
    BY <2>5, <2>6 DEF those
<1>2. DOMAIN CountsOf(rows) = Population
      /\ CountsOf(rows) = [p \in Population |-> CountsOf(rows)[p]]
  BY DEF CountsOf
<1> QED
  BY <1>1, <1>2 DEF Counts

LEMMA RowsOfDiffer ==
  ASSUME NEW rows, NEW p, NEW q, p # q
  PROVE  RowsOf(rows, p) \cap RowsOf(rows, q) = {}
BY DEF RowsOf

(* A sum over populations is backed by their rows together.                *)
LEMMA PooledIsBacked ==
  ASSUME counts \in Counts, IsFiniteSet(Stored),
         \A p \in Population : Backed(counts[p], RowsOf(Stored, p)),
         NEW h, NEW c, NEW rows, IsFiniteSet(rows),
         \A p \in Population : p[2] = h /\ (p[3] \/ ~ c) => RowsOf(Stored, p) \in SUBSET rows
  PROVE  Pooled(h, c) \in Tally /\ Backed(Pooled(h, c), rows)
<1> DEFINE P == {p \in Population : p[2] = h /\ (p[3] \/ ~ c)}
           zero == [p \in P |-> 0]
           wins == [p \in P |-> counts[p].wins]
           n == [p \in P |-> counts[p].n]
           won == [p \in P |-> Wins(RowsOf(Stored, p))]
           missed == [p \in P |-> Losses(RowsOf(Stored, p))]
           Tokens(lo, hi) == UNION {{p} \X (lo[p] + 1..hi[p]) : p \in P}
<1>1. \A p \in P : /\ counts[p].wins \in Nat /\ counts[p].n \in Nat
                   /\ Backed(counts[p], RowsOf(Stored, p))
                   /\ RowsOf(Stored, p) \in SUBSET rows
  BY DEF Counts, Tally
<1>2. zero \in [P -> Nat] /\ wins \in [P -> Nat] /\ n \in [P -> Nat]
  BY <1>1
<1>3. ASSUME NEW p \in P
      PROVE  /\ wins[p] <= n[p] /\ wins[p] \in Nat /\ n[p] \in Nat /\ zero[p] = 0
             /\ wins[p] - zero[p] <= Cardinality(won[p])
             /\ n[p] - wins[p] <= Cardinality(missed[p])
             /\ won[p] \in SUBSET Wins(rows) /\ missed[p] \in SUBSET Losses(rows)
  <2> DEFINE those == RowsOf(Stored, p)
  <2>1. /\ counts[p].wins \in Nat /\ counts[p].n \in Nat
        /\ Backed(counts[p], those) /\ those \in SUBSET rows
    BY <1>1
  <2>2. /\ wins[p] = counts[p].wins /\ n[p] = counts[p].n /\ zero[p] = 0
        /\ won[p] = Wins(those) /\ missed[p] = Losses(those)
    OBVIOUS
  <2> HIDE DEF those, wins, n, zero, won, missed
  <2>3. won[p] \in SUBSET Wins(rows) /\ missed[p] \in SUBSET Losses(rows)
    BY <2>1, <2>2 DEF Wins, Losses
  <2>4. wins[p] - zero[p] = counts[p].wins
    BY <2>1, <2>2
  <2> QED
    BY <2>1, <2>2, <2>3, <2>4 DEF Backed
<1>4. \A p, q \in P : p # q => won[p] \cap won[q] = {} /\ missed[p] \cap missed[q] = {}
  BY RowsOfDiffer DEF Wins, Losses
<1>5. Pooled(h, c) = [wins |-> Cardinality(Tokens(zero, wins)), n |-> Cardinality(Tokens(zero, n))]
  <2>1. \A p \in P : zero[p] + 1 = 1
    OBVIOUS
  <2>2. DOMAIN wins = P /\ DOMAIN n = P
    OBVIOUS
  <2>3. Pooled(h, c) = [wins |-> Total(wins), n |-> Total(n)]
    BY DEF Pooled
  <2> HIDE DEF zero, wins, n, P
  <2>4. /\ Tokens(zero, wins) = UNION {{p} \X (1..wins[p]) : p \in DOMAIN wins}
        /\ Tokens(zero, n) = UNION {{p} \X (1..n[p]) : p \in DOMAIN n}
    BY <2>1, <2>2
  <2> QED
    BY <2>3, <2>4 DEF Total
<1>6. IsFiniteSet(Wins(rows)) /\ IsFiniteSet(Losses(rows))
  BY WinsAndLosses
<1> HIDE DEF zero, wins, n, won, missed, P
<1>7. /\ IsFiniteSet(Tokens(zero, wins))
      /\ Cardinality(Tokens(zero, wins)) <= Cardinality(Wins(rows))
  <2>1. \A p \in P : /\ won[p] \in SUBSET Wins(rows)
                     /\ wins[p] - zero[p] <= Cardinality(won[p])
    BY <1>3
  <2>2. \A p, q \in P : p # q => won[p] \cap won[q] = {}
    BY <1>4
  <2> QED
    BY <1>2, <1>6, <2>1, <2>2, TokensAreFewer
<1>8. /\ IsFiniteSet(Tokens(wins, n))
      /\ Cardinality(Tokens(wins, n)) <= Cardinality(Losses(rows))
  <2>1. \A p \in P : /\ missed[p] \in SUBSET Losses(rows)
                     /\ n[p] - wins[p] <= Cardinality(missed[p])
    BY <1>3
  <2>2. \A p, q \in P : p # q => missed[p] \cap missed[q] = {}
    BY <1>4
  <2> QED
    BY <1>2, <1>6, <2>1, <2>2, TokensAreFewer
<1>9. /\ Tokens(zero, wins) \cap Tokens(wins, n) = {}
      /\ Tokens(zero, wins) \cup Tokens(wins, n) = Tokens(zero, n)
  <2>1. ASSUME NEW p \in P
        PROVE  /\ (zero[p] + 1..wins[p]) \cap (wins[p] + 1..n[p]) = {}
               /\ (zero[p] + 1..wins[p]) \cup (wins[p] + 1..n[p]) = zero[p] + 1..n[p]
    BY <1>3
  <2>2. \A lo, hi, t : t \in Tokens(lo, hi) <=>
                         \E p \in P : \E i \in lo[p] + 1..hi[p] : t = <<p, i>>
    OBVIOUS
  <2> HIDE DEF Tokens
  <2>3. ASSUME NEW t \in Tokens(zero, wins), t \in Tokens(wins, n) PROVE FALSE
    <3>1. PICK p \in P : \E i \in zero[p] + 1..wins[p] : t = <<p, i>>
      BY <2>2
    <3>2. PICK i \in zero[p] + 1..wins[p] : t = <<p, i>>
      BY <3>1
    <3>3. PICK q \in P : \E j \in wins[q] + 1..n[q] : t = <<q, j>>
      BY <2>2, <2>3
    <3>4. PICK j \in wins[q] + 1..n[q] : t = <<q, j>>
      BY <3>3
    <3>5. p = q /\ i = j
      BY <3>2, <3>4
    <3> QED
      BY <2>1, <3>5
  <2>4. ASSUME NEW t PROVE t \in Tokens(zero, n) <=>
                             t \in Tokens(zero, wins) \cup Tokens(wins, n)
    BY <2>1, <2>2
  <2> QED
    BY <2>3, <2>4
<1> HIDE DEF Tokens
<1>10. Cardinality(Tokens(zero, n)) =
         Cardinality(Tokens(zero, wins)) + Cardinality(Tokens(wins, n))
  BY <1>7, <1>8, <1>9, DisjointUnion
<1>11. /\ Cardinality(Tokens(zero, wins)) \in Nat /\ Cardinality(Tokens(wins, n)) \in Nat
       /\ Cardinality(Wins(rows)) \in Nat /\ Cardinality(Losses(rows)) \in Nat
  BY <1>6, <1>7, <1>8, FS_CardinalityType
<1>12. Pooled(h, c) \in Tally
  BY <1>5, <1>10, <1>11 DEF Tally
<1>13. Backed(Pooled(h, c), rows)
  BY <1>5, <1>7, <1>8, <1>10, <1>11 DEF Backed
<1> QED
  BY <1>12, <1>13

-----------------------------------------------------------------------------
(* The store                                                               *)

(* A key is stored once, and what waits in the buffer has been emitted.    *)
StoreInv ==
  /\ emitted \in SUBSET Setup /\ lost \in SUBSET emitted
  /\ buffer \in Seq(Row) /\ \A i \in DOMAIN buffer : Key(buffer[i]) \in emitted
  /\ table \in SUBSET Row /\ open_rows \in SUBSET Row
  /\ IsFiniteSet(Stored) /\ Unique(Stored)

LEMMA KeyType ==
  ASSUME NEW row \in Row
  PROVE  Key(row) \in Setup
BY DEF Key, Row, Setup

LEMMA InsertedKeeps ==
  ASSUME NEW rows \in SUBSET Row, IsFiniteSet(rows), Unique(rows), NEW row \in Row
  PROVE  LET more == Inserted(rows, row)
         IN  /\ more \in SUBSET Row /\ IsFiniteSet(more) /\ Unique(more)
             /\ rows \in SUBSET more /\ more \in SUBSET (rows \cup {row})
             /\ row \in more => row \in rows \/ Key(row) \notin Keys(rows)
<1>1. CASE Key(row) \in Keys(rows)
  BY <1>1 DEF Inserted
<1>2. CASE Key(row) \notin Keys(rows)
  <2>1. Inserted(rows, row) = rows \cup {row}
    BY <1>2 DEF Inserted
  <2>2. IsFiniteSet(rows \cup {row})
    BY FS_AddElement
  <2>3. Unique(rows \cup {row})
    BY <1>2 DEF Unique, Keys
  <2> QED
    BY <1>2, <2>1, <2>2, <2>3
<1> QED
  BY <1>1, <1>2

LEMMA InsertedAllKeeps ==
  ASSUME NEW rows \in SUBSET Row, IsFiniteSet(rows), Unique(rows), NEW new \in Seq(Row)
  PROVE  LET more == InsertedAll(rows, new)
         IN  /\ more \in SUBSET Row /\ IsFiniteSet(more) /\ Unique(more)
             /\ rows \in SUBSET more
<1> DEFINE first == {i \in DOMAIN new : \A j \in 1..i - 1 : Key(new[j]) # Key(new[i])}
           more == InsertedAll(rows, new)
           image == {new[i] : i \in 1..Len(new)}
<1>1. Len(new) \in Nat /\ DOMAIN new = 1..Len(new) /\ \A i \in DOMAIN new : new[i] \in Row
  OBVIOUS
<1>2. more = rows \cup UNION {Inserted(rows, new[i]) : i \in first}
  BY DEF InsertedAll
<1>3. ASSUME NEW a \in more, a \notin rows
      PROVE  \E i \in first : a = new[i] /\ Key(a) \notin Keys(rows)
  <2>1. PICK i \in first : a \in Inserted(rows, new[i])
    BY <1>2, <1>3
  <2>2. /\ Inserted(rows, new[i]) \in SUBSET (rows \cup {new[i]})
        /\ new[i] \in Inserted(rows, new[i]) => new[i] \in rows \/ Key(new[i]) \notin Keys(rows)
    BY <1>1, InsertedKeeps
  <2> QED
    BY <1>3, <2>1, <2>2
<1>4. more \in SUBSET (rows \cup image)
  BY <1>1, <1>3
<1>5. IsFiniteSet(more)
  <2>1. IsFiniteSet(image)
    <3>1. IsFiniteSet(1..Len(new))
      BY <1>1, FS_Interval
    <3> QED
      BY <1>1, <3>1, ImageIsSmaller
  <2> HIDE DEF image, more
  <2>2. IsFiniteSet(rows \cup image)
    BY <2>1, FS_Union
  <2> QED
    BY <1>4, <2>2, FS_Subset
<1>6. Unique(more)
  <2> SUFFICES ASSUME NEW a \in more, NEW b \in more, Key(a) = Key(b) PROVE a = b
    BY DEF Unique
  <2>1. \A r \in rows : Key(r) \in Keys(rows)
    BY DEF Keys
  <2>2. CASE a \in rows /\ b \in rows
    BY <2>2 DEF Unique
  <2>3. CASE a \in rows /\ b \notin rows
    BY <1>3, <2>1, <2>3
  <2>4. CASE a \notin rows /\ b \in rows
    BY <1>3, <2>1, <2>4
  <2>5. CASE a \notin rows /\ b \notin rows
    <3>1. PICK i \in first : a = new[i]
      BY <1>3, <2>5
    <3>2. PICK j \in first : b = new[j]
      BY <1>3, <2>5
    <3>3. i \in Nat /\ j \in Nat /\ 1 <= i /\ 1 <= j
      BY <1>1
    <3>4. j \notin 1..i - 1 /\ i \notin 1..j - 1
      BY <3>1, <3>2
    <3>5. i = j
      BY <3>3, <3>4
    <3> QED
      BY <3>1, <3>2, <3>5
  <2> QED
    BY <2>2, <2>3, <2>4, <2>5
<1>7. more \in SUBSET Row /\ rows \in SUBSET more
  BY <1>1, <1>2, <1>4
<1> QED
  BY <1>5, <1>6, <1>7

LEMMA FlushKeeps ==
  ASSUME StoreInv, NEW committed \in SUBSET Stored, FlushOutcomes(committed),
         emitted' = emitted
  PROVE  StoreInv' /\ Stored \in SUBSET Stored'
<1>1. /\ Stored \in SUBSET Row /\ IsFiniteSet(Stored) /\ Unique(Stored)
      /\ buffer \in Seq(Row) /\ \A i \in DOMAIN buffer : Key(buffer[i]) \in emitted
      /\ lost \in SUBSET emitted /\ emitted \in SUBSET Setup
  BY DEF StoreInv, Stored
<1>2. buffer' = <<>> /\ <<>> \in Seq(Row) /\ DOMAIN <<>> = {}
  BY DEF FlushOutcomes
<1>3. ASSUME NEW kept \in SUBSET Row, IsFiniteSet(kept), Unique(kept), Stored \in SUBSET kept,
             table' \in SUBSET kept, open_rows' = kept \ table', lost' \in SUBSET emitted
      PROVE  StoreInv' /\ Stored \in SUBSET Stored'
  <2>1. Stored' = kept
    BY <1>3 DEF Stored
  <2> QED
    BY <1>1, <1>2, <1>3, <2>1 DEF StoreInv
<1>4. CASE buffer = <<>>
  <2>1. table' = committed /\ open_rows' = Stored \ committed /\ lost' = lost
    BY <1>4 DEF FlushOutcomes
  <2> QED
    BY <1>1, <1>3, <2>1
<1>5. CASE buffer # <<>> /\ FlushSucceeds
  <2> DEFINE kept == InsertedAll(Stored, buffer)
  <2>1. /\ kept \in SUBSET Row /\ IsFiniteSet(kept) /\ Unique(kept) /\ Stored \in SUBSET kept
    BY <1>1, InsertedAllKeeps
  <2>2. table' = kept /\ open_rows' = {} /\ lost' = lost
    BY <1>5 DEF FlushSucceeds
  <2> HIDE DEF kept
  <2> QED
    BY <1>1, <1>3, <2>1, <2>2
<1>6. CASE buffer # <<>> /\ FlushFails(committed)
  <2>1. PICK k \in 0..Len(buffer) - 1 :
          LET kept == InsertedAll(Stored, SubSeq(buffer, 1, k))
          IN  /\ table' \in {committed, kept}
              /\ open_rows' = kept \ table'
              /\ lost' = lost \cup {Key(buffer[i]) : i \in k + 1..Len(buffer)}
    BY <1>6 DEF FlushFails
  <2> DEFINE kept == InsertedAll(Stored, SubSeq(buffer, 1, k))
  <2>2. SubSeq(buffer, 1, k) \in Seq(Row)
    BY <1>1
  <2>3. /\ kept \in SUBSET Row /\ IsFiniteSet(kept) /\ Unique(kept) /\ Stored \in SUBSET kept
    BY <1>1, <2>2, InsertedAllKeeps
  <2>4. lost' \in SUBSET emitted
    <3>1. \A i \in k + 1..Len(buffer) : i \in DOMAIN buffer
      BY <1>1
    <3> QED
      BY <1>1, <2>1, <3>1
  <2>5. table' \in {committed, kept} /\ open_rows' = kept \ table'
    BY <2>1
  <2> HIDE DEF kept
  <2>6. table' \in SUBSET kept
    BY <2>3, <2>5
  <2> QED
    BY <1>3, <2>3, <2>4, <2>5, <2>6
<1> QED
  BY <1>4, <1>5, <1>6 DEF FlushOutcomes

-----------------------------------------------------------------------------
(* The estimator                                                           *)

CountsBacked ==
  counts \in Counts /\ \A p \in Population : Backed(counts[p], RowsOf(Stored, p))

(* A sum whose first half has been read is backed so far, and an estimate  *)
(* is backed, whatever dict the next read finds.                           *)
ReaderInv ==
  /\ reader \in Symbols \cup {NoOne} /\ todo \in SUBSET Horizons
  /\ asked \in [horizon: Horizons, link: 1..LastLink] \cup {NotAsked}
  /\ half \in Tally /\ estimates \in SUBSET Estimate
  /\ asked # NotAsked => reader \in Symbols
  /\ asked # NotAsked /\ asked.link = 3 =>
       Backed(half, RowsOf(Stored, <<reader, asked.horizon, TRUE>>))
  /\ reader = NoOne => asked = NotAsked /\ estimates = {}
  /\ \A e \in estimates : MinSamples <= e.n /\ Backed(e, Behind(e))

EvidenceInv ==
  /\ clock \in 1..MaxEpoch /\ refreshing \in BOOLEAN
  /\ StoreInv /\ CountsBacked /\ ReaderInv

LEMMA ChainFacts ==
  /\ Len(Chain) = 5 /\ DOMAIN Chain = 1..5 /\ LastLink \in {3, 5}
  /\ Chain[1] = "confirmed" /\ Chain[2] = "half" /\ Chain[3] = "qualified"
  /\ Chain[4] = "pooled-confirmed" /\ Chain[5] = "pooled-qualified"
BY DEF Chain, LastLink

LEMMA NotAskedIsNoQuestion ==
  ASSUME NEW h, NEW k \in 1..5
  PROVE  [horizon |-> h, link |-> k] # NotAsked /\ NotAsked.link = 0
<1>1. [horizon |-> h, link |-> k].link = k /\ NotAsked.link = 0
  BY DEF NotAsked
<1> QED
  BY <1>1

(* What is backed stays backed while the table grows.                      *)
LEMMA CountsKept ==
  ASSUME StoreInv', Stored \in SUBSET Stored', CountsBacked, counts' = counts
  PROVE  CountsBacked'
<1>1. IsFiniteSet(Stored')
  BY DEF StoreInv
<1>2. ASSUME NEW p \in Population PROVE Backed(counts[p], RowsOf(Stored', p))
  <2>1. Backed(counts[p], RowsOf(Stored, p)) /\ counts[p].wins \in Nat /\ counts[p].n \in Nat
    BY DEF CountsBacked, Counts, Tally
  <2>2. RowsOf(Stored, p) \in SUBSET RowsOf(Stored', p) /\ IsFiniteSet(RowsOf(Stored', p))
    BY <1>1, FS_Subset DEF RowsOf
  <2> QED
    BY <2>1, <2>2, BackedByMore
<1> QED
  BY <1>2 DEF CountsBacked

LEMMA BehindGrows ==
  ASSUME StoreInv', Stored \in SUBSET Stored', reader' = reader, NEW e \in Estimate,
         Backed(e, Behind(e))
  PROVE  Backed(e, Behind(e)')
<1>1. Behind(e) \in SUBSET Behind(e)' /\ Behind(e)' \in SUBSET Stored'
  BY DEF Behind
<1>2. IsFiniteSet(Behind(e)')
  BY <1>1, FS_Subset DEF StoreInv
<1>3. e.wins \in Nat /\ e.n \in Nat
  BY DEF Estimate
<1> QED
  BY <1>1, <1>2, <1>3, BackedByMore

LEMMA ReaderKept ==
  ASSUME StoreInv', Stored \in SUBSET Stored', ReaderInv,
         UNCHANGED <<reader, todo, asked, half, estimates>>
  PROVE  ReaderInv'
<1>1. \A e \in estimates : MinSamples <= e.n /\ Backed(e, Behind(e)')
  BY BehindGrows DEF ReaderInv
<1>2. ASSUME asked # NotAsked, asked.link = 3
      PROVE  Backed(half, RowsOf(Stored', <<reader, asked.horizon, TRUE>>))
  <2> DEFINE p == <<reader, asked.horizon, TRUE>>
  <2>1. Backed(half, RowsOf(Stored, p)) /\ half.wins \in Nat /\ half.n \in Nat
    BY <1>2 DEF ReaderInv, Tally
  <2> HIDE DEF p
  <2>2. RowsOf(Stored, p) \in SUBSET RowsOf(Stored', p)
    BY DEF RowsOf
  <2>3. IsFiniteSet(RowsOf(Stored', p))
    BY FS_Subset DEF RowsOf, StoreInv
  <2>4. Backed(half, RowsOf(Stored', p))
    BY <2>1, <2>2, <2>3, BackedByMore
  <2> QED
    BY <2>4 DEF p
<1> QED
  BY <1>1, <1>2 DEF ReaderInv

(* What one read finds is backed by the rows of the population it is for.  *)
LEMMA FoundIsBacked ==
  ASSUME EvidenceInv, asked # NotAsked
  PROVE  /\ Found \in Tally
         /\ Chain[asked.link] = "half" =>
              Backed(Found, RowsOf(Stored, <<reader, asked.horizon, TRUE>>))
         /\ Chain[asked.link] # "half" =>
              \A e : e.horizon = asked.horizon /\ e.population = Chain[asked.link] =>
                       Backed(Found, Behind(e))
<1> DEFINE h == asked.horizon
           pop(c) == <<reader, h, c>>
           own(c) == counts[pop(c)]
           rows(c) == RowsOf(Stored, pop(c))
<1>1. /\ h \in Horizons /\ asked.link \in 1..5 /\ reader \in Symbols /\ half \in Tally
      /\ IsFiniteSet(Stored) /\ Stored \in SUBSET Row
      /\ asked.link = 3 => Backed(half, rows(TRUE))
  BY ChainFacts DEF EvidenceInv, ReaderInv, StoreInv, Stored
<1>2. ASSUME NEW c \in BOOLEAN
      PROVE  /\ own(c) \in Tally /\ Backed(own(c), rows(c)) /\ IsFiniteSet(rows(c))
             /\ own(c).wins \in Nat /\ own(c).n \in Nat
  <2>1. pop(c) \in Population
    BY <1>1 DEF Population
  <2>2. own(c) \in Tally /\ Backed(own(c), rows(c))
    BY <2>1 DEF EvidenceInv, CountsBacked, Counts
  <2>3. IsFiniteSet(rows(c))
    BY <1>1, FS_Subset DEF RowsOf
  <2> QED
    BY <2>2, <2>3 DEF Tally
<1>3. ASSUME NEW e PROVE IsFiniteSet(Behind(e))
  BY <1>1, FS_Subset DEF Behind
<1>4. CASE asked.link = 1
  <2>1. Chain[asked.link] = "confirmed" /\ Found = own(TRUE)
    BY <1>4, ChainFacts DEF Found
  <2>2. ASSUME NEW e, e.horizon = h, e.population = "confirmed"
        PROVE  Backed(Found, Behind(e))
    <3>1. rows(TRUE) \in SUBSET Behind(e)
      BY <2>2 DEF RowsOf, Behind
    <3> QED
      BY <1>2, <1>3, <2>1, <3>1, BackedByMore
  <2> QED
    BY <1>2, <2>1, <2>2
<1>5. CASE asked.link = 2
  <2>1. Chain[asked.link] = "half" /\ Found = own(TRUE)
    BY <1>5, ChainFacts DEF Found
  <2> QED
    BY <1>2, <2>1
<1>6. CASE asked.link = 3
  <2>1. Chain[asked.link] = "qualified" /\ Found = Plus(half, own(FALSE))
    BY <1>6, ChainFacts DEF Found
  <2>2. rows(TRUE) \cap rows(FALSE) = {}
    <3>1. pop(TRUE) # pop(FALSE)
      OBVIOUS
    <3> QED
      BY <3>1, RowsOfDiffer
  <2>3. /\ Found \in Tally /\ Backed(Found, rows(TRUE) \cup rows(FALSE))
        /\ IsFiniteSet(rows(TRUE) \cup rows(FALSE))
    <3>1. /\ own(FALSE) \in Tally /\ Backed(own(FALSE), rows(FALSE))
          /\ IsFiniteSet(rows(TRUE)) /\ IsFiniteSet(rows(FALSE))
          /\ Backed(half, rows(TRUE))
      BY <1>1, <1>2, <1>6
    <3> HIDE DEF own, rows
    <3> QED
      BY <1>1, <2>1, <2>2, <3>1, BackedTogether, DisjointUnion
  <2>4. ASSUME NEW e, e.horizon = h, e.population = "qualified"
        PROVE  Backed(Found, Behind(e))
    <3>1. rows(TRUE) \cup rows(FALSE) \in SUBSET Behind(e)
      BY <2>4 DEF RowsOf, Behind
    <3>2. Found.wins \in Nat /\ Found.n \in Nat
      BY <2>3 DEF Tally
    <3> QED
      BY <1>3, <2>3, <3>1, <3>2, BackedByMore
  <2> QED
    BY <2>1, <2>3, <2>4
<1>7. ASSUME NEW c \in BOOLEAN, NEW e, e.horizon = h,
             e.population = IF c THEN "pooled-confirmed" ELSE "pooled-qualified"
      PROVE  Pooled(h, c) \in Tally /\ Backed(Pooled(h, c), Behind(e))
  <2>1. \A p \in Population : p[2] = h /\ (p[3] \/ ~ c) =>
                                RowsOf(Stored, p) \in SUBSET Behind(e)
    <3> SUFFICES ASSUME NEW p \in Population, p[2] = h, p[3] \/ ~ c, NEW r \in RowsOf(Stored, p)
                 PROVE  r \in Behind(e)
      OBVIOUS
    <3>1. r \in Stored /\ r.horizon = p[2] /\ r.confirmed = p[3]
      BY DEF RowsOf
    <3>2. e.population \notin {"confirmed", "qualified"}
      BY <1>7
    <3>3. e.population \in {"confirmed", "pooled-confirmed"} => r.confirmed
      BY <1>7, <3>1
    <3> QED
      BY <1>7, <3>1, <3>2, <3>3 DEF Behind
  <2>2. counts \in Counts /\ \A p \in Population : Backed(counts[p], RowsOf(Stored, p))
    BY DEF EvidenceInv, CountsBacked
  <2> QED
    BY <1>1, <1>3, <2>1, <2>2, PooledIsBacked
<1>8. Pooled(h, TRUE) \in Tally /\ Pooled(h, FALSE) \in Tally
  <2> DEFINE e(name) == [horizon |-> h, population |-> name]
  <2>1. \A name : e(name).horizon = h /\ e(name).population = name
    OBVIOUS
  <2> HIDE DEF e
  <2>2. Pooled(h, TRUE) \in Tally
    BY <1>7, <2>1
  <2>3. Pooled(h, FALSE) \in Tally
    BY <1>7, <2>1
  <2> QED
    BY <2>2, <2>3
<1>9. CASE asked.link = 4
  <2>1. Chain[asked.link] = "pooled-confirmed" /\ Found = Pooled(h, TRUE)
    BY <1>9, ChainFacts DEF Found
  <2>2. Found \in Tally
    BY <1>8, <2>1
  <2> QED
    BY <1>7, <2>1, <2>2
<1>10. CASE asked.link = 5
  <2>1. Chain[asked.link] = "pooled-qualified" /\ Found = Pooled(h, FALSE)
    BY <1>10, ChainFacts DEF Found
  <2>2. Found \in Tally
    BY <1>8, <2>1
  <2> QED
    BY <1>7, <2>1, <2>2
<1> QED
  BY <1>1, <1>4, <1>5, <1>6, <1>9, <1>10

-----------------------------------------------------------------------------
(* Steps                                                                   *)

LEMMA EvidenceInitially ==
  ASSUME Init
  PROVE  EvidenceInv
<1>1. 1 \in 1..MaxEpoch /\ refreshing = FALSE /\ clock = 1
  BY EvidenceAssumption DEF Init
<1>2. StoreInv
  <2>1. Stored = {} /\ IsFiniteSet({}) /\ DOMAIN <<>> = {} /\ <<>> \in Seq(Row)
    BY FS_EmptySet DEF Init, Stored
  <2> QED
    BY <2>1 DEF Init, StoreInv, Unique
<1>3. CountsBacked
  <2>1. counts = [p \in Population |-> [wins |-> 0, n |-> 0]]
    BY DEF Init, NoCounts
  <2>2. counts \in Counts
    BY <2>1 DEF Counts, Tally
  <2>3. ASSUME NEW p \in Population PROVE Backed(counts[p], RowsOf(Stored, p))
    <3>1. IsFiniteSet(RowsOf(Stored, p))
      BY <1>2, FS_Subset DEF StoreInv, RowsOf
    <3>2. counts[p].wins = 0 /\ counts[p].n = 0
      BY <2>1
    <3> QED
      BY <3>1, <3>2, WinsAndLosses DEF Backed
  <2> QED
    BY <2>2, <2>3 DEF CountsBacked
<1>4. ReaderInv
  BY DEF Init, ReaderInv, Nothing, Tally
<1> QED
  BY <1>1, <1>2, <1>3, <1>4 DEF EvidenceInv

(* A read of the counts moves the question on, or answers it.              *)
LEMMA LookKeeps ==
  ASSUME EvidenceInv, Look
  PROVE  ReaderInv'
<1> DEFINE k == asked.link
           population == Chain[k]
           taken == population # "half" /\ Enough(Found)
           e == [horizon |-> asked.horizon, population |-> population,
                 wins |-> Found.wins, n |-> Found.n]
<1>1. /\ asked # NotAsked /\ reader \in Symbols
      /\ asked \in [horizon: Horizons, link: 1..LastLink] /\ asked.horizon \in Horizons
      /\ k \in 1..LastLink
  BY DEF Look, EvidenceInv, ReaderInv
<1>2. /\ half' = (IF population = "half" THEN Found ELSE Nothing)
      /\ estimates' = (IF taken THEN estimates \cup {e} ELSE estimates)
      /\ asked' = (IF taken \/ k = LastLink THEN NotAsked ELSE [asked EXCEPT !.link = @ + 1])
      /\ reader' = reader /\ todo' = todo /\ Stored' = Stored /\ reader # NoOne
  BY DEF Look, storeVars, Stored
<1>3. /\ Found \in Tally
      /\ population = "half" => Backed(Found, RowsOf(Stored, <<reader, asked.horizon, TRUE>>))
      /\ population # "half" => Backed(Found, Behind(e))
  <2>1. e.horizon = asked.horizon /\ e.population = population
    OBVIOUS
  <2> HIDE DEF e
  <2> QED
    BY <1>1, <2>1, FoundIsBacked
<1>4. half' \in Tally
  BY <1>2, <1>3 DEF Nothing, Tally
<1>5. ASSUME taken PROVE e \in Estimate /\ MinSamples <= e.n /\ Backed(e, Behind(e))
  <2>1. population \in Taken
    BY <1>1, <1>5, ChainFacts DEF Taken
  <2>2. e \in Estimate
    BY <1>1, <1>3, <2>1 DEF Estimate, Tally
  <2>3. e.wins = Found.wins /\ e.n = Found.n
    OBVIOUS
  <2> QED
    BY <1>3, <1>5, <2>2, <2>3 DEF Backed, Enough
<1>6. estimates' \in SUBSET Estimate
  BY <1>2, <1>5 DEF EvidenceInv, ReaderInv
<1>7. \A x : Behind(x)' = Behind(x)
  BY <1>2 DEF Behind
<1>8. \A x \in estimates' : MinSamples <= x.n /\ Backed(x, Behind(x)')
  BY <1>2, <1>5, <1>7 DEF EvidenceInv, ReaderInv
<1>9. asked' # NotAsked => asked' = [horizon |-> asked.horizon, link |-> k + 1] /\ k # LastLink
  BY <1>1, <1>2
<1>10. asked' \in [horizon: Horizons, link: 1..LastLink] \cup {NotAsked}
  <2>1. CASE asked' = NotAsked
    BY <2>1
  <2>2. CASE asked' # NotAsked
    <3>1. k + 1 \in 1..LastLink
      BY <1>1, <1>9, <2>2, ChainFacts
    <3> QED
      BY <1>1, <1>9, <2>2, <3>1
  <2> QED
    BY <2>1, <2>2
<1>11. ASSUME asked' # NotAsked, asked'.link = 3
       PROVE  Backed(half', RowsOf(Stored', <<reader', asked'.horizon, TRUE>>))
  <2>1. k = 2 /\ asked'.horizon = asked.horizon
    BY <1>1, <1>9, <1>11, ChainFacts
  <2>2. population = "half"
    BY <2>1, ChainFacts
  <2> QED
    BY <1>2, <1>3, <2>1, <2>2
<1> HIDE DEF taken, e
<1> QED
  BY <1>1, <1>2, <1>4, <1>6, <1>8, <1>10, <1>11 DEF ReaderInv, EvidenceInv

LEMMA EvidenceKept ==
  ASSUME EvidenceInv, [Next]_vars
  PROVE  EvidenceInv'
<1>0. /\ clock \in 1..MaxEpoch /\ refreshing \in BOOLEAN
      /\ StoreInv /\ CountsBacked /\ ReaderInv /\ MaxEpoch \in Nat \ {0}
  BY EvidenceAssumption DEF EvidenceInv
(* A step that only lets the table grow.                                   *)
<1>1. ASSUME StoreInv', Stored \in SUBSET Stored', counts' = counts,
             UNCHANGED <<reader, todo, asked, half, estimates>>,
             clock' = clock, refreshing' \in BOOLEAN
      PROVE  EvidenceInv'
  BY <1>0, <1>1, CountsKept, ReaderKept DEF EvidenceInv
<1>2. ASSUME UNCHANGED <<emitted, storeVars>> PROVE StoreInv' /\ Stored' = Stored
  <2>1. /\ emitted' = emitted /\ buffer' = buffer /\ table' = table /\ open_rows' = open_rows
        /\ lost' = lost
    BY <1>2 DEF storeVars
  <2>2. Stored' = Stored
    BY <2>1 DEF Stored
  <2> QED
    BY <1>0, <2>1, <2>2 DEF StoreInv
<1>3. CASE Emit
  <2>1. PICK row \in Row : /\ emitted' = emitted \cup {Key(row)}
                           /\ buffer' = Append(buffer, row)
    BY <1>3 DEF Emit
  <2>2. /\ table' = table /\ open_rows' = open_rows /\ lost' = lost /\ Stored' = Stored
    BY <1>3 DEF Emit, Stored
  <2>3. emitted' \in SUBSET Setup
    BY <1>0, <2>1, KeyType DEF StoreInv
  <2>4. buffer' \in Seq(Row) /\ \A i \in DOMAIN buffer' : Key(buffer'[i]) \in emitted'
    <3>1. buffer \in Seq(Row) /\ \A i \in DOMAIN buffer : Key(buffer[i]) \in emitted
      BY <1>0 DEF StoreInv
    <3> QED
      BY <2>1, <3>1
  <2>5. StoreInv'
    BY <1>0, <2>1, <2>2, <2>3, <2>4 DEF StoreInv
  <2> QED
    BY <1>0, <1>1, <1>3, <2>2, <2>5 DEF Emit, workerVars, readerVars
<1>4. CASE Replay
  <2>1. PICK row \in Row :
          table' = IF Key(row) \in Keys(open_rows) THEN table ELSE Inserted(table, row)
    BY <1>4 DEF Replay
  <2>2. open_rows' = open_rows /\ buffer' = buffer /\ lost' = lost /\ emitted' = emitted
    BY <1>4 DEF Replay
  <2>3. CASE table' = table
    <3>1. StoreInv' /\ Stored' = Stored
      BY <1>2, <2>2, <2>3 DEF storeVars
    <3> QED
      BY <1>0, <1>1, <1>4, <3>1 DEF Replay, workerVars, readerVars
  <2>4. CASE table' # table
    <3>1. Key(row) \notin Keys(open_rows) /\ Key(row) \notin Keys(table)
          /\ table' = table \cup {row}
      BY <2>1, <2>4 DEF Inserted
    <3>2. Stored' = Inserted(Stored, row)
      BY <2>2, <3>1 DEF Stored, Keys, Inserted
    <3>3. Stored' \in SUBSET Row /\ IsFiniteSet(Stored') /\ Unique(Stored')
          /\ Stored \in SUBSET Stored'
      <4>1. Stored \in SUBSET Row /\ IsFiniteSet(Stored) /\ Unique(Stored)
        BY <1>0 DEF StoreInv, Stored
      <4> QED
        BY <3>2, <4>1, InsertedKeeps
    <3>4. StoreInv'
      BY <1>0, <2>2, <3>1, <3>3 DEF StoreInv
    <3> QED
      BY <1>0, <1>1, <1>4, <3>3, <3>4 DEF Replay, workerVars, readerVars
  <2> QED
    BY <2>3, <2>4
<1>5. CASE RefreshDue
  <2>1. /\ FlushOutcomes(table) /\ emitted' = emitted /\ table \in SUBSET Stored
    BY <1>5 DEF RefreshDue, Stored
  <2>2. StoreInv' /\ Stored \in SUBSET Stored'
    BY <1>0, <2>1, FlushKeeps
  <2> QED
    BY <1>1, <1>5, <2>2 DEF RefreshDue, readerVars
<1>6. ASSUME NEW s \in Symbols, CandleCloses(s) PROVE EvidenceInv'
  <2>1. /\ FlushOutcomes(Stored) /\ emitted' = emitted /\ Stored \in SUBSET Stored
        /\ reader = NoOne
    BY <1>6 DEF CandleCloses, LoopIsFree
  <2>2. StoreInv' /\ Stored \in SUBSET Stored'
    BY <1>0, <2>1, FlushKeeps
  <2>3. CountsBacked'
    BY <1>0, <1>6, <2>2, CountsKept DEF CandleCloses, workerVars
  <2>4. ReaderInv'
    <3>1. asked' = NotAsked /\ estimates' = {} /\ half' = half
      BY <1>0, <1>6, <2>1 DEF CandleCloses, ReaderInv
    <3>2. reader' \in Symbols \cup {NoOne} /\ todo' \in SUBSET Horizons
      BY <1>0, <1>6 DEF CandleCloses, ReaderInv
    <3> QED
      BY <1>0, <3>1, <3>2 DEF ReaderInv
  <2>5. clock' \in 1..MaxEpoch /\ refreshing' = refreshing
    BY <1>6 DEF CandleCloses, workerVars
  <2> QED
    BY <1>0, <2>2, <2>3, <2>4, <2>5 DEF EvidenceInv
<1>7. CASE LoadCounts
  <2>1. StoreInv' /\ Stored' = Stored /\ counts' = CountsOf(Recent)
    BY <1>2, <1>7 DEF LoadCounts
  <2>2. Recent \in SUBSET Stored /\ IsFiniteSet(Recent) /\ IsFiniteSet(Stored)
    BY <1>0, FS_Subset DEF Recent, StoreInv
  <2>3. CountsBacked'
    <3>1. ASSUME NEW p \in Population PROVE Backed(counts'[p], RowsOf(Stored, p))
      <4>1. Backed(counts'[p], RowsOf(Recent, p)) /\ counts'[p] \in Tally
        BY <2>1, <2>2, CountsAreBacked DEF Counts
      <4>2. RowsOf(Recent, p) \in SUBSET RowsOf(Stored, p) /\ IsFiniteSet(RowsOf(Stored, p))
        BY <2>2, FS_Subset DEF RowsOf
      <4> QED
        BY <4>1, <4>2, BackedByMore DEF Tally
    <3> QED
      BY <2>1, <2>2, <3>1, CountsAreBacked DEF CountsBacked
  <2>4. ReaderInv'
    BY <1>0, <1>7, <2>1, ReaderKept DEF LoadCounts, readerVars
  <2> QED
    BY <1>0, <1>7, <2>1, <2>3, <2>4 DEF LoadCounts, EvidenceInv
<1>8. CASE QueryFails \/ UNCHANGED vars
  <2>1. UNCHANGED <<emitted, storeVars>> /\ counts' = counts /\ clock' = clock
    BY <1>8 DEF QueryFails, vars, workerVars
  <2>2. UNCHANGED <<reader, todo, asked, half, estimates>> /\ refreshing' \in BOOLEAN
    BY <1>0, <1>8 DEF QueryFails, vars, workerVars, readerVars
  <2>3. StoreInv' /\ Stored' = Stored
    BY <1>2, <2>1
  <2> QED
    BY <1>1, <2>1, <2>2, <2>3
<1>9. CASE NextHorizon
  <2>1. PICK h \in todo : asked' = [horizon |-> h, link |-> 1] /\ todo' = todo \ {h}
    BY <1>9 DEF NextHorizon
  <2>2. /\ reader # NoOne /\ reader' = reader /\ half' = half /\ estimates' = estimates
        /\ UNCHANGED <<emitted, storeVars>> /\ counts' = counts /\ clock' = clock
        /\ refreshing' = refreshing
    BY <1>9 DEF NextHorizon, workerVars
  <2>3. StoreInv' /\ Stored' = Stored
    BY <1>2, <2>2
  <2>4. CountsBacked'
    BY <1>0, <2>2, <2>3, CountsKept
  <2>5. h \in Horizons /\ 1 \in 1..LastLink /\ asked'.link = 1
    BY <1>0, <2>1, ChainFacts DEF ReaderInv
  <2>6. \A e : Behind(e)' = Behind(e)
    BY <2>2, <2>3 DEF Behind
  <2>7. ReaderInv'
    BY <1>0, <2>1, <2>2, <2>5, <2>6 DEF ReaderInv
  <2> QED
    BY <1>0, <2>2, <2>3, <2>4, <2>7 DEF EvidenceInv
<1>10. CASE Look
  <2>1. /\ UNCHANGED <<emitted, storeVars>> /\ counts' = counts /\ clock' = clock
        /\ refreshing' = refreshing
    BY <1>10 DEF Look, workerVars
  <2>2. StoreInv' /\ Stored' = Stored
    BY <1>2, <2>1
  <2>3. CountsBacked'
    BY <1>0, <2>1, <2>2, CountsKept
  <2> QED
    BY <1>0, <1>10, <2>1, <2>2, <2>3, LookKeeps DEF EvidenceInv
<1>11. CASE EstimatesEnd
  <2>1. /\ UNCHANGED <<emitted, storeVars>> /\ counts' = counts /\ clock' = clock
        /\ refreshing' = refreshing /\ todo' = todo /\ half' = half
        /\ reader' = NoOne /\ estimates' = {} /\ asked' = NotAsked
    BY <1>11 DEF EstimatesEnd, workerVars
  <2>2. StoreInv' /\ Stored' = Stored
    BY <1>2, <2>1
  <2>3. CountsBacked'
    BY <1>0, <2>1, <2>2, CountsKept
  <2>4. ReaderInv'
    BY <1>0, <2>1 DEF ReaderInv
  <2> QED
    BY <1>0, <2>1, <2>2, <2>3, <2>4 DEF EvidenceInv
<1>12. CASE Crash
  <2>1. /\ buffer' = <<>> /\ open_rows' = {} /\ table' = table /\ emitted' = emitted
        /\ lost' = lost \cup Keys({buffer[i] : i \in DOMAIN buffer})
                        \cup (Keys(open_rows) \cap emitted)
        /\ counts' = CountsOf(Recent \ open_rows) /\ refreshing' = FALSE /\ clock' = clock
        /\ reader' = NoOne /\ todo' = {} /\ asked' = NotAsked /\ half' = Nothing
        /\ estimates' = {}
    BY <1>12 DEF Crash
  <2>2. Stored' = table /\ table \in SUBSET Stored
    BY <2>1 DEF Stored
  <2>3. StoreInv'
    <3>1. lost' \in SUBSET emitted
      BY <1>0, <2>1 DEF StoreInv, Keys
    <3>2. IsFiniteSet(table) /\ Unique(table)
      BY <1>0, <2>2, FS_Subset DEF StoreInv, Unique
    <3>3. <<>> \in Seq(Row) /\ DOMAIN <<>> = {}
      OBVIOUS
    <3> QED
      BY <1>0, <2>1, <2>2, <3>1, <3>2, <3>3 DEF StoreInv
  <2>4. CountsBacked'
    <3> DEFINE rows == Recent \ open_rows
    <3>1. rows \in SUBSET table
      BY DEF Recent, Stored
    <3> HIDE DEF rows
    <3>2. IsFiniteSet(table) /\ IsFiniteSet(rows)
      BY <1>0, <2>2, <3>1, FS_Subset DEF StoreInv
    <3>3. CountsOf(rows) \in Counts
          /\ \A p \in Population : Backed(CountsOf(rows)[p], RowsOf(rows, p))
      BY <3>2, CountsAreBacked
    <3>4. ASSUME NEW p \in Population PROVE Backed(CountsOf(rows)[p], RowsOf(table, p))
      <4>1. CountsOf(rows)[p].wins \in Nat /\ CountsOf(rows)[p].n \in Nat
        BY <3>3 DEF Counts, Tally
      <4>2. RowsOf(rows, p) \in SUBSET RowsOf(table, p) /\ IsFiniteSet(RowsOf(table, p))
        BY <3>1, <3>2, FS_Subset DEF RowsOf
      <4> QED
        BY <3>3, <4>1, <4>2, BackedByMore
    <3>5. counts' = CountsOf(rows)
      BY <2>1 DEF rows
    <3> QED
      BY <2>2, <3>3, <3>4, <3>5 DEF CountsBacked
  <2>5. ReaderInv'
    BY <2>1 DEF ReaderInv, Nothing, Tally
  <2> QED
    BY <1>0, <2>1, <2>3, <2>4, <2>5 DEF EvidenceInv
<1> QED
  BY <1>3, <1>4, <1>5, <1>6, <1>7, <1>8, <1>9, <1>10, <1>11, <1>12 DEF Next

LEMMA EvidenceAlways ==
  Spec => []EvidenceInv
<1>1. Init => EvidenceInv
  BY EvidenceInitially
<1>2. EvidenceInv /\ [Next]_vars => EvidenceInv'
  BY EvidenceKept
<1> QED
  BY <1>1, <1>2, PTL DEF Spec

(* Every outcome is stored under one key at most once, nothing is counted  *)
(* as lost that was never measured, and the estimator asks no link beyond  *)
(* its chain, for every set of symbols and expiries and either pooling.    *)
THEOREM TypeCorrect ==
  Spec => []TypeOK
<1>1. ASSUME EvidenceInv PROVE TypeOK
  <2>1. Cardinality(Keys(Stored)) = Cardinality(Stored)
    BY <1>1, KeysAreAsMany DEF EvidenceInv, StoreInv
  <2>2. asked \in [horizon: Horizons, link: DOMAIN Chain] \cup {NotAsked}
    BY <1>1, ChainFacts DEF EvidenceInv, ReaderInv
  <2> QED
    BY <1>1, <2>1, <2>2 DEF EvidenceInv, StoreInv, CountsBacked, ReaderInv, TypeOK
<1> QED
  BY <1>1, EvidenceAlways, PTL

(* An estimate rests on at least min_samples setups of the table, each     *)
(* counted once and with its result, whatever is replayed, lost, crashed   *)
(* or swapped under the estimator between its reads.                       *)
THEOREM EstimatesRestOnTheTable ==
  Spec => []EstimatesAreBacked
<1>1. ASSUME EvidenceInv, NEW e \in estimates
      PROVE  /\ MinSamples <= Cardinality(Keys(Behind(e)))
             /\ e.n <= Cardinality(Keys(Behind(e)))
             /\ e.wins <= Cardinality({row \in Behind(e) : row.won})
             /\ e.n - e.wins <= Cardinality({row \in Behind(e) : ~ row.won})
  <2>1. /\ MinSamples <= e.n /\ Backed(e, Behind(e)) /\ e.wins \in Nat /\ e.n \in Nat
    BY <1>1 DEF EvidenceInv, ReaderInv, Estimate
  <2>2. IsFiniteSet(Behind(e)) /\ Unique(Behind(e))
    BY <1>1, FS_Subset DEF EvidenceInv, StoreInv, Behind, Unique
  <2>3. Cardinality(Keys(Behind(e))) = Cardinality(Behind(e))
    BY <2>2, KeysAreAsMany
  <2>4. /\ Cardinality(Behind(e)) = Cardinality(Wins(Behind(e))) + Cardinality(Losses(Behind(e)))
        /\ Cardinality(Wins(Behind(e))) \in Nat /\ Cardinality(Losses(Behind(e))) \in Nat
    BY <2>2, WinsAndLosses
  <2>5. MinSamples \in Nat
    BY EvidenceAssumption
  <2>6. /\ e.wins <= Cardinality(Wins(Behind(e)))
        /\ e.n - e.wins <= Cardinality(Losses(Behind(e)))
    BY <2>1 DEF Backed
  <2>7. e.n <= Cardinality(Behind(e))
    BY <2>1, <2>4, <2>6
  <2> QED
    BY <2>1, <2>3, <2>4, <2>5, <2>6, <2>7 DEF Wins, Losses
<1>2. EvidenceInv => EstimatesAreBacked
  BY <1>1 DEF EstimatesAreBacked
<1> QED
  BY <1>2, EvidenceAlways, PTL

=============================================================================
