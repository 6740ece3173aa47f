--------------------------- MODULE AmountTheorems ---------------------------
(***************************************************************************)
(* The laws of sums over a table, for tables of any size: what the other   *)
(* proof modules cite instead of the cardinalities behind Total. And least *)
(* elements, the way in which proofs here go by induction.                 *)
(***************************************************************************)
EXTENDS Amounts, Sequences, FiniteSetTheorems, FunctionTheorems, WellFoundedInduction, TLAPS

\* A row of natural amount has that many units.
LEMMA UnitsOfRow ==
  ASSUME NEW r, r.amount \in Nat
  PROVE  /\ IsFiniteSet({r} \X (1..r.amount))
         /\ Cardinality({r} \X (1..r.amount)) = r.amount
<1>1. /\ IsFiniteSet(1..r.amount)
      /\ Cardinality(1..r.amount) = r.amount
  BY FS_Interval
<1>2. IsFiniteSet({r}) /\ Cardinality({r}) = 1
  BY FS_Singleton
<1>3. QED
  BY <1>1, <1>2, FS_Product

\* The sum over no rows is zero (code: aggregate(...)[...] or ZERO).
LEMMA TotalEmpty == Units({}) = {} /\ Total({}) = 0
BY FS_EmptySet DEF Units, Total

\* One more row adds its amount to the sum. With TotalEmpty this characterises Total.
LEMMA TotalAdd ==
  ASSUME NEW rows, IsFiniteSet(Units(rows)), NEW r, r \notin rows, r.amount \in Nat
  PROVE  /\ IsFiniteSet(Units(rows \cup {r}))
         /\ Total(rows \cup {r}) = Total(rows) + r.amount
<1> DEFINE new == {r} \X (1..r.amount)
<1>1. Units(rows \cup {r}) = Units(rows) \cup new
  BY DEF Units
<1>2. Units(rows) \cap new = {}
  BY DEF Units
<1>3. IsFiniteSet(new) /\ Cardinality(new) = r.amount
  BY UnitsOfRow
<1> HIDE DEF new
<1>4. Cardinality({}) = 0 /\ Cardinality(Units(rows)) \in Nat
  BY FS_EmptySet, FS_CardinalityType
<1>5. /\ IsFiniteSet(Units(rows) \cup new)
      /\ Cardinality(Units(rows) \cup new)
           = Cardinality(Units(rows)) + Cardinality(new) - Cardinality(Units(rows) \cap new)
  BY <1>3, FS_Union
<1>6. Cardinality(Units(rows) \cap new) = 0
  BY <1>2, <1>4
<1>7. Cardinality(Units(rows) \cup new) = Cardinality(Units(rows)) + r.amount
  BY <1>3, <1>4, <1>5, <1>6
<1>8. QED
  BY <1>1, <1>5, <1>7 DEF Total

\* The image of a finite set under a function is finite; for row sets built by one.
LEMMA ImageFinite ==
  ASSUME NEW S, IsFiniteSet(S), NEW f \in [S -> {{r} \X (1..r.amount) : r \in S}],
         \A r \in S : f[r] = {r} \X (1..r.amount)
  PROVE  IsFiniteSet({{r} \X (1..r.amount) : r \in S})
<1> DEFINE T == {{r} \X (1..r.amount) : r \in S}
<1>1. f \in Surjection(S, T)
  BY DEF Surjection
<1>2. QED
  BY <1>1, FS_Surjection

\* Finitely many rows of natural amounts have finitely many units.
LEMMA UnitsFinite ==
  ASSUME NEW rows, IsFiniteSet(rows), \A r \in rows : r.amount \in Nat
  PROVE  IsFiniteSet(Units(rows))
<1> DEFINE T == {{r} \X (1..r.amount) : r \in rows}
           f == [r \in rows |-> {r} \X (1..r.amount)]
<1>1. f \in [rows -> T] /\ \A r \in rows : f[r] = {r} \X (1..r.amount)
  OBVIOUS
<1>2. IsFiniteSet(T)
  <2> HIDE DEF f
  <2> QED BY <1>1, ImageFinite
<1>3. \A t \in T : IsFiniteSet(t)
  <2>1. \A r \in rows : IsFiniteSet({r} \X (1..r.amount))
    BY UnitsOfRow
  <2>2. QED
    BY <2>1
<1>4. QED
  BY <1>2, <1>3, FS_UNION DEF Units

\* A sum over finitely many rows is a natural number, and so is the sum over some of them.
LEMMA TotalType ==
  ASSUME NEW rows, IsFiniteSet(rows), \A r \in rows : r.amount \in Nat,
         NEW some \in SUBSET rows
  PROVE  IsFiniteSet(some) /\ IsFiniteSet(Units(some)) /\ Total(some) \in Nat
<1>1. IsFiniteSet(some)
  BY FS_Subset
<1>2. IsFiniteSet(Units(some))
  BY <1>1, UnitsFinite
<1>3. QED
  BY <1>1, <1>2, FS_CardinalityType DEF Total

\* The sum over one row, and over two tables with no row in common.
LEMMA TotalOne ==
  ASSUME NEW r, r.amount \in Nat
  PROVE  Total({r}) = r.amount
<1>1. IsFiniteSet(Units({})) /\ Total({}) = 0
  BY TotalEmpty, FS_EmptySet
<1>2. Total({} \cup {r}) = Total({}) + r.amount
  BY <1>1, TotalAdd
<1>3. QED
  BY <1>1, <1>2

\* Two sets without a common row add up.
LEMMA TotalUnion ==
  ASSUME NEW A, NEW B, IsFiniteSet(A), IsFiniteSet(B), A \cap B = {},
         \A r \in A \cup B : r.amount \in Nat
  PROVE  Total(A \cup B) = Total(A) + Total(B)
<1>1. IsFiniteSet(Units(A)) /\ IsFiniteSet(Units(B))
  BY UnitsFinite
<1>2. Units(A \cup B) = Units(A) \cup Units(B) /\ Units(A) \cap Units(B) = {}
  BY DEF Units
<1>3. Cardinality(Units(A)) \in Nat /\ Cardinality(Units(B)) \in Nat
  BY <1>1, FS_CardinalityType
<1>4. Cardinality(Units(A) \cup Units(B))
        = Cardinality(Units(A)) + Cardinality(Units(B)) - Cardinality(Units(A) \cap Units(B))
  BY <1>1, FS_Union
<1>5. Cardinality(Units(A) \cap Units(B)) = 0
  BY <1>2, FS_EmptySet
<1>6. Cardinality(Units(A) \cup Units(B)) = Cardinality(Units(A)) + Cardinality(Units(B))
  BY <1>3, <1>4, <1>5
<1>7. QED
  BY <1>2, <1>6 DEF Total

\* A filtered sum when a row is added to the table: the filter lets it through or not.
LEMMA TotalOfMore ==
  ASSUME NEW old, NEW new, NEW r, IsFiniteSet(old), \A x \in old : x.amount \in Nat,
         r \notin old, r.amount \in Nat, new = old \/ new = old \cup {r}
  PROVE  /\ Total(new) = Total(old) + (IF r \in new THEN r.amount ELSE 0)
         /\ Total(old) \in Nat /\ Total(new) \in Nat
<1>1. IsFiniteSet(Units(old)) /\ Total(old) \in Nat
  BY TotalType
<1>2. new = old \cup {r} => Total(new) = Total(old) + r.amount
  BY <1>1, TotalAdd
<1>3. QED
  BY <1>1, <1>2

\* Fewer rows sum to no more.
LEMMA TotalMonotone ==
  ASSUME NEW rows, IsFiniteSet(rows), \A r \in rows : r.amount \in Nat,
         NEW some \in SUBSET rows
  PROVE  Total(some) <= Total(rows)
<1>1. IsFiniteSet(Units(rows))
  BY UnitsFinite
<1>2. Units(some) \subseteq Units(rows)
  BY DEF Units
<1>3. QED
  BY <1>1, <1>2, FS_Subset DEF Total

-----------------------------------------------------------------------------
(* Sums by group. *)

\* A set that is no larger than another can be mapped into it one to one.
LEMMA SmallerInjects ==
  ASSUME NEW A, NEW B, IsFiniteSet(A), IsFiniteSet(B), Cardinality(A) <= Cardinality(B)
  PROVE  \E f : f \in Injection(A, B)
<1>1. /\ Cardinality(A) \in Nat /\ Cardinality(B) \in Nat
      /\ ExistsBijection(1..Cardinality(A), A)
      /\ ExistsBijection(1..Cardinality(B), B)
  BY FS_CardinalityType
<1> DEFINE m == Cardinality(A)
           n == Cardinality(B)
<1>2. PICK count : count \in Bijection(1..m, A)
  BY <1>1 DEF ExistsBijection
<1>3. PICK other : other \in Bijection(1..n, B)
  BY <1>1 DEF ExistsBijection
<1> DEFINE place == [x \in A |-> CHOOSE k \in 1..m : count[k] = x]
           f == [x \in A |-> other[place[x]]]
<1>4. /\ \A x \in A : place[x] \in 1..m /\ count[place[x]] = x
      /\ \A x \in A : place[x] \in 1..n
  BY <1>1, <1>2, Fun_BijectionProperties
<1> HIDE DEF place, m, n
<1>5. /\ \A j \in 1..n : other[j] \in B
      /\ \A j, l \in 1..n : other[j] = other[l] => j = l
  <2>1. /\ other \in [1..n -> B]
        /\ \A j, l \in 1..n : other[j] = other[l] => j = l
    BY <1>3, Fun_BijectionProperties, Zenon
  <2>2. QED
    BY <2>1
<1>6. f \in [A -> B]
  BY <1>4, <1>5
<1>7. \A x, y \in A : f[x] = f[y] => x = y
  BY <1>4, <1>5
<1> HIDE DEF f
<1>8. QED
  BY <1>6, <1>7, Fun_IsInj

\* The rows of a group (SQL: WHERE g = i).
InGroup(rows, g, i) == {r \in rows : g[r] = i}

\* When the rows of each group sum to no more than the other table's rows of that group,
\* the tables do: GROUP BY on both sides.
LEMMA TotalByGroup ==
  ASSUME NEW R, NEW S, IsFiniteSet(R), IsFiniteSet(S),
         \A r \in R : r.amount \in Nat, \A s \in S : s.amount \in Nat,
         NEW Groups, NEW g \in [R -> Groups], NEW k \in [S -> Groups],
         \A i \in Groups : Total(InGroup(R, g, i)) <= Total(InGroup(S, k, i))
  PROVE  Total(R) <= Total(S)
<1> DEFINE inR(i) == Units(InGroup(R, g, i))
           inS(i) == Units(InGroup(S, k, i))
<1>1. \A i \in Groups : \E f : f \in Injection(inR(i), inS(i))
  <2> SUFFICES ASSUME NEW i \in Groups PROVE \E f : f \in Injection(inR(i), inS(i))
    OBVIOUS
  <2>1. InGroup(R, g, i) \in SUBSET R /\ InGroup(S, k, i) \in SUBSET S
    BY DEF InGroup
  <2>2. IsFiniteSet(inR(i)) /\ IsFiniteSet(inS(i))
    BY <2>1, TotalType
  <2>3. Cardinality(inR(i)) <= Cardinality(inS(i))
    BY DEF Total
  <2> HIDE DEF inR, inS
  <2>4. QED
    BY <2>2, <2>3, SmallerInjects
<1> DEFINE h == [i \in Groups |-> CHOOSE f : f \in Injection(inR(i), inS(i))]
<1>2. \A i \in Groups : h[i] \in Injection(inR(i), inS(i))
  BY <1>1
<1> HIDE DEF h
<1> DEFINE F == [u \in Units(R) |-> h[g[u[1]]][u]]
<1>3. \A u \in Units(R) : g[u[1]] \in Groups /\ u \in inR(g[u[1]])
  BY DEF Units, InGroup
<1>4. \A i \in Groups : \A w \in inS(i) : w \in Units(S) /\ k[w[1]] = i
  BY DEF Units, InGroup
<1> HIDE DEF inR, inS
<1>5. \A u \in Units(R) : F[u] \in inS(g[u[1]])
  BY <1>2, <1>3, Fun_InjectionProperties
<1>6. F \in [Units(R) -> Units(S)]
  BY <1>3, <1>4, <1>5
<1>7. \A u, w \in Units(R) : F[u] = F[w] => u = w
  <2> SUFFICES ASSUME NEW u \in Units(R), NEW w \in Units(R), F[u] = F[w] PROVE u = w
    OBVIOUS
  <2>1. g[u[1]] = g[w[1]]
    BY <1>3, <1>4, <1>5
  <2>2. h[g[u[1]]][u] = h[g[u[1]]][w]
    BY <2>1
  <2>3. QED
    BY <1>2, <1>3, <2>1, <2>2, Fun_InjectionProperties
<1> HIDE DEF F
<1>8. F \in Injection(Units(R), Units(S))
  BY <1>6, <1>7, Fun_IsInj
<1>9. IsFiniteSet(Units(S))
  BY UnitsFinite
<1>10. QED
  BY <1>8, <1>9, FS_Injection DEF Total

\* Rows of several tables put into one, each with the table's name.
Tagged(table, rows) == {[table |-> table, row |-> r, amount |-> r.amount] : r \in rows}

\* The rows of a table, marked with its name, have the table's sum.
LEMMA TaggedOK ==
  ASSUME NEW table, NEW rows, IsFiniteSet(rows), \A r \in rows : r.amount \in Nat
  PROVE  /\ IsFiniteSet(Tagged(table, rows))
         /\ \A x \in Tagged(table, rows) :
              /\ x.table = table /\ x.row \in rows /\ x.amount = x.row.amount
              /\ x = [table |-> table, row |-> x.row, amount |-> x.row.amount]
         /\ Total(Tagged(table, rows)) = Total(rows)
<1> DEFINE tag(r) == [table |-> table, row |-> r, amount |-> r.amount]
           T == Tagged(table, rows)
           f == [r \in rows |-> tag(r)]
           back == [x \in T |-> x.row]
           same == [r \in rows |-> r]
<1>1. f \in Surjection(rows, T)
  BY DEF Surjection, Tagged
<1>2. IsFiniteSet(T)
  <2> HIDE DEF f, T
  <2> QED BY <1>1, FS_Surjection
<1>3. \A x \in T : /\ x.table = table /\ x.row \in rows /\ x.amount = x.row.amount
                   /\ x = [table |-> table, row |-> x.row, amount |-> x.row.amount]
  BY DEF Tagged
<1>4. \A i \in rows : InGroup(rows, same, i) = {i}
  BY DEF InGroup
<1>5. \A i \in rows : InGroup(T, back, i) = {tag(i)}
  BY DEF Tagged, InGroup
<1>6. \A i \in rows : Total({i}) = i.amount /\ Total({tag(i)}) = i.amount
  <2> SUFFICES ASSUME NEW i \in rows
               PROVE  Total({i}) = i.amount /\ Total({tag(i)}) = i.amount
    OBVIOUS
  <2>1. tag(i).amount = i.amount /\ i.amount \in Nat
    OBVIOUS
  <2> HIDE DEF tag
  <2>2. QED
    BY <2>1, TotalOne
<1>7. /\ back \in [T -> rows] /\ same \in [rows -> rows]
      /\ \A x \in T : x.amount \in Nat
  BY <1>3
<1> HIDE DEF back, same, T, tag, f
<1>8. \A i \in rows : /\ Total(InGroup(T, back, i)) = i.amount
                      /\ Total(InGroup(rows, same, i)) = i.amount
                      /\ i.amount \in Nat
  BY <1>4, <1>5, <1>6
<1>9. /\ \A i \in rows : Total(InGroup(T, back, i)) <= Total(InGroup(rows, same, i))
      /\ \A i \in rows : Total(InGroup(rows, same, i)) <= Total(InGroup(T, back, i))
  BY <1>8
<1>10. Total(T) <= Total(rows)
  BY <1>2, <1>7, <1>9, TotalByGroup
<1>11. Total(rows) <= Total(T)
  BY <1>2, <1>7, <1>9, TotalByGroup
<1>12. Total(rows) \in Nat /\ Total(T) \in Nat
  BY <1>2, <1>7, TotalType
<1>13. Total(T) = Total(rows)
  BY <1>10, <1>11, <1>12
<1>14. QED
  BY <1>2, <1>3, <1>13 DEF T

\* Three tables in one.
Tables(A, B, C) == Tagged("a", A) \cup Tagged("b", B) \cup Tagged("c", C)

\* The sum over three tables is that of the three.
LEMMA TaggedTables ==
  ASSUME NEW A, NEW B, NEW C, IsFiniteSet(A), IsFiniteSet(B), IsFiniteSet(C),
         \A r \in A \cup B \cup C : r.amount \in Nat
  PROVE  /\ IsFiniteSet(Tables(A, B, C))
         /\ \A x \in Tables(A, B, C) : x.amount \in Nat
         /\ Total(Tables(A, B, C)) = Total(A) + Total(B) + Total(C)
<1> DEFINE tA == Tagged("a", A)
           tB == Tagged("b", B)
           tC == Tagged("c", C)
<1>1. /\ IsFiniteSet(tA) /\ Total(tA) = Total(A)
      /\ \A x \in tA : x.table = "a" /\ x.amount \in Nat
  BY TaggedOK
<1>2. /\ IsFiniteSet(tB) /\ Total(tB) = Total(B)
      /\ \A x \in tB : x.table = "b" /\ x.amount \in Nat
  BY TaggedOK
<1>3. /\ IsFiniteSet(tC) /\ Total(tC) = Total(C)
      /\ \A x \in tC : x.table = "c" /\ x.amount \in Nat
  BY TaggedOK
<1> HIDE DEF tA, tB, tC
<1>4. tA \cap tB = {} /\ (tA \cup tB) \cap tC = {}
  BY <1>1, <1>2, <1>3
<1>5. IsFiniteSet(tA \cup tB) /\ IsFiniteSet(tA \cup tB \cup tC)
  BY <1>1, <1>2, <1>3, FS_Union
<1>6. Total(tA \cup tB) = Total(A) + Total(B)
  BY <1>1, <1>2, <1>4, TotalUnion
<1>7. Total(tA \cup tB \cup tC) = Total(tA \cup tB) + Total(C)
  BY <1>1, <1>2, <1>3, <1>4, <1>5, TotalUnion
<1>8. QED
  BY <1>1, <1>2, <1>3, <1>5, <1>6, <1>7 DEF tA, tB, tC, Tables

\* Group by group, three tables together sum to no more than two others.
GroupsWithin(Groups, A, a, B, b, C, c, S, s, Z, z) ==
  /\ a \in [A -> Groups] /\ b \in [B -> Groups] /\ c \in [C -> Groups]
  /\ s \in [S -> Groups] /\ z \in [Z -> Groups]
  /\ \A i \in Groups :
       Total(InGroup(A, a, i)) + Total(InGroup(B, b, i)) + Total(InGroup(C, c, i))
         <= Total(InGroup(S, s, i)) + Total(InGroup(Z, z, i))

\* TotalByGroup for three tables on one side and two on the other.
LEMMA TablesByGroup ==
  ASSUME NEW A, NEW B, NEW C, NEW S, NEW Z,
         IsFiniteSet(A), IsFiniteSet(B), IsFiniteSet(C), IsFiniteSet(S), IsFiniteSet(Z),
         \A r \in A \cup B \cup C \cup S \cup Z : r.amount \in Nat,
         NEW Groups, NEW a, NEW b, NEW c, NEW s, NEW z,
         GroupsWithin(Groups, A, a, B, b, C, c, S, s, Z, z)
  PROVE  Total(A) + Total(B) + Total(C) <= Total(S) + Total(Z)
<1>0. /\ a \in [A -> Groups] /\ b \in [B -> Groups] /\ c \in [C -> Groups]
      /\ s \in [S -> Groups] /\ z \in [Z -> Groups]
      /\ \A i \in Groups :
           Total(InGroup(A, a, i)) + Total(InGroup(B, b, i)) + Total(InGroup(C, c, i))
             <= Total(InGroup(S, s, i)) + Total(InGroup(Z, z, i))
  BY DEF GroupsWithin
<1> DEFINE L == Tables(A, B, C)
           R == Tables(S, Z, {})
           g == [x \in L |-> IF x.table = "a" THEN a[x.row]
                             ELSE IF x.table = "b" THEN b[x.row] ELSE c[x.row]]
           k == [x \in R |-> IF x.table = "a" THEN s[x.row] ELSE z[x.row]]
           A1(i) == InGroup(A, a, i)
           B1(i) == InGroup(B, b, i)
           C1(i) == InGroup(C, c, i)
           S1(i) == InGroup(S, s, i)
           Z1(i) == InGroup(Z, z, i)
<1>1. IsFiniteSet({}) /\ Total({}) = 0
  BY FS_EmptySet, TotalEmpty
<1>2. /\ IsFiniteSet(L) /\ \A x \in L : x.amount \in Nat
      /\ Total(L) = Total(A) + Total(B) + Total(C)
  BY TaggedTables
<1>3. /\ IsFiniteSet(R) /\ \A x \in R : x.amount \in Nat
      /\ Total(R) = Total(S) + Total(Z)
  <2>1. /\ IsFiniteSet(R) /\ \A x \in R : x.amount \in Nat
        /\ Total(R) = Total(S) + Total(Z) + Total({})
    BY <1>1, TaggedTables
  <2>2. Total(S) \in Nat /\ Total(Z) \in Nat
    BY TotalType
  <2> HIDE DEF R
  <2>3. QED
    BY <1>1, <2>1, <2>2
<1>4. g \in [L -> Groups]
  BY <1>0 DEF Tables, Tagged
<1>5. k \in [R -> Groups]
  BY <1>0 DEF Tables, Tagged
<1>6. ASSUME NEW i \in Groups
      PROVE  Total(InGroup(L, g, i)) <= Total(InGroup(R, k, i))
  <2>1. InGroup(L, g, i) = Tables(A1(i), B1(i), C1(i))
    BY <1>0 DEF Tables, Tagged, InGroup
  <2>2. InGroup(R, k, i) = Tables(S1(i), Z1(i), {})
    BY <1>0 DEF Tables, Tagged, InGroup
  <2>3. /\ IsFiniteSet(A1(i)) /\ IsFiniteSet(B1(i)) /\ IsFiniteSet(C1(i))
        /\ IsFiniteSet(S1(i)) /\ IsFiniteSet(Z1(i))
    BY FS_Subset DEF InGroup
  <2>4. /\ \A r \in A1(i) \cup B1(i) \cup C1(i) : r.amount \in Nat
        /\ \A r \in S1(i) \cup Z1(i) \cup {} : r.amount \in Nat
    BY DEF InGroup
  <2>5. Total(A1(i)) + Total(B1(i)) + Total(C1(i)) <= Total(S1(i)) + Total(Z1(i))
    BY <1>0
  <2> HIDE DEF A1, B1, C1, S1, Z1, L, R, g, k
  <2>6. Total(InGroup(L, g, i)) = Total(A1(i)) + Total(B1(i)) + Total(C1(i))
    BY <2>1, <2>3, <2>4, TaggedTables
  <2>7. Total(InGroup(R, k, i)) = Total(S1(i)) + Total(Z1(i)) + Total({})
    BY <1>1, <2>2, <2>3, <2>4, TaggedTables
  <2>8. Total(S1(i)) \in Nat /\ Total(Z1(i)) \in Nat
    BY <2>3, <2>4, TotalType
  <2>9. Total(InGroup(R, k, i)) = Total(S1(i)) + Total(Z1(i))
    BY <1>1, <2>7, <2>8
  <2>10. QED
    BY <2>5, <2>6, <2>9
<1> HIDE DEF L, R, g, k
<1>7. Total(L) <= Total(R)
  BY <1>2, <1>3, <1>4, <1>5, <1>6, TotalByGroup
<1>8. QED
  BY <1>2, <1>3, <1>7

\* The same for two tables against one.
TwoWithin(Groups, A, a, B, b, S, s) ==
  /\ a \in [A -> Groups] /\ b \in [B -> Groups] /\ s \in [S -> Groups]
  /\ \A i \in Groups :
       Total(InGroup(A, a, i)) + Total(InGroup(B, b, i)) <= Total(InGroup(S, s, i))

\* If two tables are covered by a third in every group, they are covered by it as a whole.
LEMMA TwoTablesByGroup ==
  ASSUME NEW A, NEW B, NEW S, IsFiniteSet(A), IsFiniteSet(B), IsFiniteSet(S),
         \A r \in A : r.amount \in Nat, \A r \in B : r.amount \in Nat,
         \A r \in S : r.amount \in Nat,
         NEW Groups, NEW a, NEW b, NEW s, TwoWithin(Groups, A, a, B, b, S, s)
  PROVE  Total(A) + Total(B) <= Total(S)
<1>1. PICK C : C = {}
  OBVIOUS
<1>2. PICK c : c = [r \in C |-> r]
  OBVIOUS
<1>3. IsFiniteSet(C) /\ c \in [C -> Groups] /\ Total(C) = 0
  BY <1>1, <1>2, FS_EmptySet, TotalEmpty
<1>4. \A r \in A \cup B \cup C \cup S \cup C : r.amount \in Nat
  BY <1>1
<1>5. \A i \in Groups : Total(InGroup(C, c, i)) = 0
  <2>1. \A i : InGroup(C, c, i) = {}
    BY <1>1 DEF InGroup
  <2>2. QED
    BY <2>1, TotalEmpty
<1>6. \A i \in Groups : /\ Total(InGroup(A, a, i)) \in Nat
                        /\ Total(InGroup(B, b, i)) \in Nat
                        /\ Total(InGroup(S, s, i)) \in Nat
  <2>1. \A i : /\ InGroup(A, a, i) \in SUBSET A /\ InGroup(B, b, i) \in SUBSET B
               /\ InGroup(S, s, i) \in SUBSET S
    BY DEF InGroup
  <2>2. QED
    BY <2>1, TotalType
<1>7. \A i \in Groups :
        Total(InGroup(A, a, i)) + Total(InGroup(B, b, i)) + Total(InGroup(C, c, i))
          <= Total(InGroup(S, s, i)) + Total(InGroup(C, c, i))
  BY <1>5, <1>6 DEF TwoWithin
<1>8. GroupsWithin(Groups, A, a, B, b, C, c, S, s, C, c)
  BY <1>3, <1>7 DEF GroupsWithin, TwoWithin
<1>9. Total(A) + Total(B) + Total(C) <= Total(S) + Total(C)
  BY <1>3, <1>4, <1>8, TablesByGroup
<1>10. Total(A) \in Nat /\ Total(B) \in Nat /\ Total(S) \in Nat
  BY TotalType
<1>11. QED
  BY <1>3, <1>9, <1>10

\* Part of a table that agrees with two others group by group sums to what they do.
TwoAdd(Groups, A, a, B, b, S, s) ==
  /\ a \in [A -> Groups] /\ b \in [B -> Groups] /\ s \in [S -> Groups]
  /\ \A i \in Groups :
       Total(InGroup(A, a, i)) + Total(InGroup(B, b, i)) = Total(InGroup(S, s, i))

\* If two tables equal a third in every group, they equal it as a whole.
LEMMA TwoTablesAdd ==
  ASSUME NEW A, NEW B, NEW S, IsFiniteSet(A), IsFiniteSet(B), IsFiniteSet(S),
         \A r \in A : r.amount \in Nat, \A r \in B : r.amount \in Nat,
         \A r \in S : r.amount \in Nat,
         NEW Groups, NEW a, NEW b, NEW s, TwoAdd(Groups, A, a, B, b, S, s)
  PROVE  Total(A) + Total(B) = Total(S)
<1>1. /\ a \in [A -> Groups] /\ b \in [B -> Groups] /\ s \in [S -> Groups]
      /\ \A i \in Groups :
           Total(InGroup(A, a, i)) + Total(InGroup(B, b, i)) = Total(InGroup(S, s, i))
  BY DEF TwoAdd
<1>2. \A i \in Groups : /\ Total(InGroup(A, a, i)) \in Nat
                        /\ Total(InGroup(B, b, i)) \in Nat
                        /\ Total(InGroup(S, s, i)) \in Nat
  <2>1. \A i : /\ InGroup(A, a, i) \in SUBSET A /\ InGroup(B, b, i) \in SUBSET B
               /\ InGroup(S, s, i) \in SUBSET S
    BY DEF InGroup
  <2>2. QED
    BY <2>1, TotalType
<1>3. TwoWithin(Groups, A, a, B, b, S, s)
  BY <1>1, <1>2 DEF TwoWithin
<1>4. Total(A) + Total(B) <= Total(S)
  BY <1>3, TwoTablesByGroup
<1>5. PICK C : C = {}
  OBVIOUS
<1>6. PICK c : c = [r \in C |-> r]
  OBVIOUS
<1>7. IsFiniteSet(C) /\ c \in [C -> Groups] /\ Total(C) = 0
  BY <1>5, <1>6, FS_EmptySet, TotalEmpty
<1>8. \A i \in Groups : Total(InGroup(C, c, i)) = 0
  <2>1. \A i : InGroup(C, c, i) = {}
    BY <1>5 DEF InGroup
  <2>2. QED
    BY <2>1, TotalEmpty
<1>9. GroupsWithin(Groups, S, s, C, c, C, c, A, a, B, b)
  BY <1>1, <1>2, <1>7, <1>8 DEF GroupsWithin
<1>10. \A r \in S \cup C \cup C \cup A \cup B : r.amount \in Nat
  BY <1>5
<1>11. Total(S) + Total(C) + Total(C) <= Total(A) + Total(B)
  BY <1>7, <1>9, <1>10, TablesByGroup
<1>12. Total(A) \in Nat /\ Total(B) \in Nat /\ Total(S) \in Nat
  BY TotalType
<1>13. QED
  BY <1>4, <1>7, <1>11, <1>12

\* Two members are one in a set of at most one.
LEMMA OneAtMost ==
  ASSUME NEW S, IsFiniteSet(S), Cardinality(S) <= 1, NEW x \in S, NEW y \in S
  PROVE  x = y
<1> SUFFICES ASSUME x # y PROVE FALSE
  OBVIOUS
<1>1. IsFiniteSet({x}) /\ Cardinality({x}) = 1
  BY FS_Singleton
<1>2. y \notin {x}
  OBVIOUS
<1>3. IsFiniteSet({x} \cup {y}) /\ Cardinality({x} \cup {y}) = Cardinality({x}) + 1
  BY <1>1, <1>2, FS_AddElement
<1>4. {x} \cup {y} \subseteq S
  OBVIOUS
<1>5. Cardinality({x} \cup {y}) <= Cardinality(S)
  BY <1>4, FS_Subset
<1>6. Cardinality(S) \in Nat
  BY FS_CardinalityType
<1>7. QED
  BY <1>1, <1>3, <1>5, <1>6

\* Natural numbers have a least one.
LEMMA LeastNat ==
  ASSUME NEW T, T \subseteq Nat, T # {}
  PROVE  \E x \in T : \A y \in T : x <= y
<1>1. PICK R : R = OpToRel(<, Nat)
  OBVIOUS
<1>2. IsWellFoundedOn(R, Nat)
  BY <1>1, NatLessThanWellFounded
<1>3. PICK x \in T : \A y \in T : ~ (<<y, x>> \in R)
  BY <1>2, WFMin
<1>4. R = {ss \in Nat \X Nat : ss[1] < ss[2]}
  BY <1>1 DEF OpToRel
<1>5. \A m, n \in Nat : <<m, n>> \in R <=> m < n
  BY <1>4
<1>6. \A y \in T : x <= y
  <2> SUFFICES ASSUME NEW y \in T PROVE x <= y
    OBVIOUS
  <2>1. x \in Nat /\ y \in Nat /\ <<y, x>> \notin R
    BY <1>3
  <2>2. ~(y < x)
    BY <1>5, <2>1
  <2>3. QED
    BY <2>1, <2>2
<1>7. QED
  BY <1>6

\* Products keep the order.
LEMMA TimesMonotone ==
  ASSUME NEW a \in Nat, NEW b \in Nat, NEW c \in Nat, a <= b
  PROVE  a * c <= b * c /\ a * c \in Nat /\ b * c \in Nat
<1>1. PICK d \in Nat : b = a + d
  BY b - a \in Nat /\ b = a + (b - a)
<1>2. b * c = a * c + d * c
  BY <1>1
<1>3. d * c \in Nat /\ a * c \in Nat /\ b * c \in Nat
  OBVIOUS
<1>4. QED
  BY <1>2, <1>3

\* Rows that follow rows of another table, each of its own, sum to no more.
LEMMA TotalInjected ==
  ASSUME NEW R, NEW S, IsFiniteSet(R), IsFiniteSet(S),
         \A r \in R : r.amount \in Nat, \A s \in S : s.amount \in Nat,
         NEW f \in [R -> S], \A r \in R : r.amount <= f[r].amount,
         \A r, x \in R : f[r] = f[x] => r = x
  PROVE  Total(R) <= Total(S)
<1> DEFINE k == [s \in S |-> s]
<1>1. k \in [S -> S]
  OBVIOUS
<1>2. ASSUME NEW s \in S PROVE Total(InGroup(R, f, s)) <= Total(InGroup(S, k, s))
  <2>1. InGroup(S, k, s) = {s}
    BY DEF InGroup
  <2>2. Total(InGroup(S, k, s)) = s.amount /\ s.amount \in Nat
    BY <2>1, TotalOne
  <2>3. CASE \E r \in R : f[r] = s
    <3>1. PICK r \in R : f[r] = s
      BY <2>3
    <3>2. InGroup(R, f, s) = {r}
      BY <3>1 DEF InGroup
    <3>3. Total(InGroup(R, f, s)) = r.amount /\ r.amount <= s.amount
      BY <3>1, <3>2, TotalOne
    <3> QED
      BY <2>2, <3>3
  <2>4. CASE ~\E r \in R : f[r] = s
    <3>1. InGroup(R, f, s) = {}
      BY <2>4 DEF InGroup
    <3> QED
      BY <2>2, <3>1, TotalEmpty
  <2> QED
    BY <2>3, <2>4
<1> HIDE DEF k
<1> QED
  BY <1>1, <1>2, TotalByGroup

-----------------------------------------------------------------------------
(* Sums over an index: each row under a key of its own. *)

Weights(I, w) == {[key |-> i, amount |-> w[i]] : i \in I}

Weighing(I, w) == IsFiniteSet(I) /\ \A i \in I : w[i] \in Nat

\* Rows of an index are finitely many, with amounts, and sum to an amount.
LEMMA WeightsTyped ==
  ASSUME NEW I, NEW w, Weighing(I, w)
  PROVE  /\ IsFiniteSet(Weights(I, w)) /\ \A r \in Weights(I, w) : r.amount \in Nat
         /\ Total(Weights(I, w)) \in Nat
<1> DEFINE f == [i \in I |-> [key |-> i, amount |-> w[i]]]
<1>1. f \in Surjection(I, Weights(I, w))
  BY DEF Surjection, Weights
<1>2. IsFiniteSet(Weights(I, w))
  BY <1>1, FS_Surjection DEF Weighing
<1>3. \A r \in Weights(I, w) : r.amount \in Nat
  BY DEF Weights, Weighing
<1>4. Weights(I, w) \in SUBSET Weights(I, w)
  OBVIOUS
<1> QED
  BY <1>2, <1>3, <1>4, TotalType

\* A table that has one row for each of an index, of its amount.
Indexes(I, w, R, f) ==
  /\ Weighing(I, w)
  /\ \A i \in I : f[i] \in R /\ f[i].amount = w[i]
  /\ \A i, j \in I : f[i] = f[j] => i = j
  /\ \A r \in R : \E i \in I : r = f[i]

\* It sums to what the index does.
LEMMA TotalOfIndexed ==
  ASSUME NEW I, NEW w, NEW R, NEW f, Indexes(I, w, R, f)
  PROVE  Total(R) = Total(Weights(I, w))
<1>1. PICK S : S = Weights(I, w)
  OBVIOUS
<1>2. /\ IsFiniteSet(S) /\ (\A s \in S : s.amount \in Nat) /\ Total(S) \in Nat
  BY <1>1, WeightsTyped DEF Indexes
<1>3. \A s \in S : s.key \in I /\ s = [key |-> s.key, amount |-> w[s.key]] /\ s.amount = w[s.key]
  BY <1>1 DEF Weights
<1>4. \A i \in I : [key |-> i, amount |-> w[i]] \in S
  BY <1>1 DEF Weights
<1>5. IsFiniteSet(R) /\ \A r \in R : r.amount \in Nat
  <2> DEFINE g == [i \in I |-> f[i]]
  <2>1. g \in Surjection(I, R)
    BY DEF Surjection, Indexes
  <2>2. \A r \in R : r.amount \in Nat
    BY DEF Indexes, Weighing
  <2> HIDE DEF g
  <2> QED
    BY <2>1, <2>2, FS_Surjection DEF Indexes, Weighing
<1> DEFINE to(s) == f[s.key]
           h == [s \in S |-> to(s)]
           back(r) == CHOOSE s \in S : r = f[s.key]
           k == [r \in R |-> back(r)]
<1>6. \A s \in S : to(s) \in R /\ s.amount = to(s).amount
  BY <1>3 DEF Indexes
<1>7. \A s, x \in S : to(s) = to(x) => s = x
  BY <1>3 DEF Indexes
<1>8. \A r \in R : back(r) \in S /\ r = f[back(r).key]
  <2> SUFFICES ASSUME NEW r \in R PROVE \E s \in S : r = f[s.key]
    OBVIOUS
  <2>1. PICK i \in I : r = f[i]
    BY DEF Indexes
  <2> QED
    BY <1>4, <2>1
<1> HIDE DEF to, back
<1>9. h \in [S -> R] /\ \A s \in S : h[s] = to(s)
  BY <1>6
<1>10. k \in [R -> S] /\ \A r \in R : k[r] = back(r)
  BY <1>8
<1> HIDE DEF h, k
<1>11. \A s \in S : s.amount <= h[s].amount
  BY <1>2, <1>6, <1>9
<1>12. \A s, x \in S : h[s] = h[x] => s = x
  BY <1>7, <1>9
<1>13. Total(S) <= Total(R)
  BY <1>2, <1>5, <1>9, <1>11, <1>12, TotalInjected
<1>14. \A r \in R : r.amount <= k[r].amount
  <2> SUFFICES ASSUME NEW r \in R PROVE r.amount <= k[r].amount
    OBVIOUS
  <2>1. k[r] \in S /\ r = f[k[r].key]
    BY <1>8, <1>10
  <2>2. r.amount = k[r].amount
    BY <1>3, <2>1 DEF Indexes
  <2> QED
    BY <1>5, <2>2
<1>15. \A r, x \in R : k[r] = k[x] => r = x
  BY <1>8, <1>10
<1>16. Total(R) <= Total(S)
  BY <1>2, <1>5, <1>10, <1>14, <1>15, TotalInjected
<1>17. Total(R) \in Nat
  <2>1. R \in SUBSET R
    OBVIOUS
  <2> QED
    BY <1>5, <2>1, TotalType
<1> QED
  BY <1>1, <1>2, <1>13, <1>16, <1>17

\* Rows of nothing may be left out.
LEMMA TotalOfSome ==
  ASSUME NEW I, NEW w, NEW J \in SUBSET I, \A i \in I \ J : w[i] = 0
  PROVE  Total(Weights(I, w)) = Total(Weights(J, w))
<1>1. ASSUME NEW i \in I, NEW n \in 1..w[i] PROVE i \in J
  BY <1>1
<1>2. \A u : u \in Units(Weights(I, w)) <=> \E i \in I : \E n \in 1..w[i] : u = <<[key |-> i, amount |-> w[i]], n>>
  BY DEF Units, Weights
<1>3. \A u : u \in Units(Weights(J, w)) <=> \E i \in J : \E n \in 1..w[i] : u = <<[key |-> i, amount |-> w[i]], n>>
  BY DEF Units, Weights
<1>4. Units(Weights(I, w)) = Units(Weights(J, w))
  BY <1>1, <1>2, <1>3
<1> QED
  BY <1>4 DEF Total

\* A group's amount is what its rows sum to.
SumsByGroup(I, w, G, g, v) ==
  /\ Weighing(I, w) /\ IsFiniteSet(G)
  /\ \A i \in I : g[i] \in G
  /\ \A j \in G : v[j] = Total(Weights({i \in I : g[i] = j}, w))

\* The groups sum to what the rows do.
LEMMA TotalOfGroups ==
  ASSUME NEW I, NEW w, NEW G, NEW g, NEW v, SumsByGroup(I, w, G, g, v)
  PROVE  /\ Total(Weights(G, v)) = Total(Weights(I, w)) /\ Weighing(G, v)
<1>1. Weighing(I, w) /\ IsFiniteSet(G)
  BY DEF SumsByGroup
<1>2. PICK R, S : R = Weights(G, v) /\ S = Weights(I, w)
  OBVIOUS
<1>3. IsFiniteSet(S) /\ (\A s \in S : s.amount \in Nat) /\ Total(S) \in Nat
  BY <1>1, <1>2, WeightsTyped
<1>4. \A j \in G : v[j] \in Nat
  <2> TAKE j \in G
  <2>1. PICK J : J = {i \in I : g[i] = j}
    OBVIOUS
  <2>2. IsFiniteSet(J)
    BY <1>1, <2>1, FS_Subset DEF Weighing
  <2>3. Weighing(J, w)
    BY <1>1, <2>1, <2>2 DEF Weighing
  <2> QED
    BY <2>1, <2>3, WeightsTyped DEF SumsByGroup
<1>5. Weighing(G, v)
  BY <1>1, <1>4 DEF Weighing
<1>6. IsFiniteSet(R) /\ (\A r \in R : r.amount \in Nat) /\ Total(R) \in Nat
  BY <1>2, <1>5, WeightsTyped
<1>7. /\ \A r \in R : r.key \in G /\ r = [key |-> r.key, amount |-> v[r.key]]
      /\ \A s \in S : s.key \in I /\ s = [key |-> s.key, amount |-> w[s.key]]
      /\ \A s \in S : g[s.key] \in G
  BY <1>2 DEF Weights, SumsByGroup
<1> DEFINE a == [r \in R |-> r.key]
           b == [s \in S |-> g[s.key]]
<1>8. a \in [R -> G] /\ b \in [S -> G]
  BY <1>7
<1>9. \A j \in G : Total(InGroup(R, a, j)) = Total(InGroup(S, b, j))
  <2> TAKE j \in G
  <2>1. InGroup(R, a, j) = {[key |-> j, amount |-> v[j]]}
    BY <1>2, <1>7 DEF InGroup, Weights
  <2>2. Total(InGroup(R, a, j)) = v[j]
    <3>1. PICK r : r = [key |-> j, amount |-> v[j]]
      OBVIOUS
    <3> QED
      BY <1>4, <2>1, <3>1, TotalOne
  <2>3. InGroup(S, b, j) = Weights({i \in I : g[i] = j}, w)
    BY <1>2, <1>7 DEF InGroup, Weights
  <2> QED
    BY <2>2, <2>3 DEF SumsByGroup
<1>10. \A j \in G : Total(InGroup(R, a, j)) \in Nat
  <2> TAKE j \in G
  <2>1. InGroup(R, a, j) \in SUBSET R
    BY DEF InGroup
  <2> QED
    BY <1>6, <2>1, TotalType
<1> HIDE DEF a, b
<1>11. /\ \A j \in G : Total(InGroup(R, a, j)) <= Total(InGroup(S, b, j))
       /\ \A j \in G : Total(InGroup(S, b, j)) <= Total(InGroup(R, a, j))
  BY <1>9, <1>10
<1>12. Total(R) <= Total(S)
  BY <1>3, <1>6, <1>8, <1>11, TotalByGroup
<1>13. Total(S) <= Total(R)
  BY <1>3, <1>6, <1>8, <1>11, TotalByGroup
<1> QED
  BY <1>2, <1>3, <1>5, <1>6, <1>12, <1>13

\* Elements told by a place of a finite list and an element of the finite list there.
Listed(S, B, a, f, c) ==
  /\ IsFiniteSet(B) /\ \A b \in B : IsFiniteSet(f[b])
  /\ \A s \in S : a[s] \in B /\ c[s] \in f[a[s]]
  /\ \A s, t \in S : a[s] = a[t] /\ c[s] = c[t] => s = t

\* They are finitely many.
LEMMA ListedFinite ==
  ASSUME NEW S, NEW B, NEW a, NEW f, NEW c, Listed(S, B, a, f, c)
  PROVE  IsFiniteSet(S)
<1> DEFINE sets == {f[b] : b \in B}
           all == UNION sets
           to == [b \in B |-> f[b]]
           h == [s \in S |-> <<a[s], c[s]>>]
<1>1. to \in Surjection(B, sets) /\ \A x \in sets : IsFiniteSet(x)
  BY DEF Surjection, Listed
<1>2. \A s \in S : a[s] \in B /\ c[s] \in all
  BY DEF Listed
<1> HIDE DEF sets, to
<1>3. IsFiniteSet(sets)
  BY <1>1, FS_Surjection DEF Listed
<1>4. IsFiniteSet(all)
  BY <1>1, <1>3, FS_UNION
<1> HIDE DEF all
<1>5. IsFiniteSet(B \X all)
  BY <1>4, FS_Product DEF Listed
<1>6. h \in Injection(S, B \X all)
  <2>1. h \in [S -> B \X all]
    BY <1>2
  <2>2. \A s, t \in S : h[s] = h[t] => s = t
    BY DEF Listed
  <2> HIDE DEF h
  <2> QED
    BY <2>1, <2>2 DEF Injection, IsInjective
<1> HIDE DEF h
<1> QED
  BY <1>5, <1>6, FS_Injection

\* Elements that are all one are at most one.
LEMMA FewApart ==
  ASSUME NEW S, \A s, x \in S : s = x
  PROVE  Cardinality(S) <= 1
<1>1. CASE S = {}
  BY <1>1, FS_EmptySet
<1>2. ASSUME NEW s \in S PROVE Cardinality(S) <= 1
  <2>1. S = {s}
    BY <1>2
  <2>2. Cardinality({s}) = 1
    BY FS_Singleton
  <2> QED
    BY <2>1, <2>2
<1> QED
  BY <1>1, <1>2

-----------------------------------------------------------------------------
(* Recursion and texts. *)

\* A recursion over the naturals: the value at 0, and the step to a number from the value
\* at a smaller one.
Recursion(V, a, before, step) ==
  /\ a \in V /\ before \in [Nat -> Nat] /\ step \in [Nat -> [V -> V]]
  /\ \A n \in Nat \ {0} : before[n] < n

\* A function on the naturals is defined by its value at 0 and, at every other number, by a
\* step from its value at a smaller one.
LEMMA RecursionDefines ==
  ASSUME NEW V, NEW a, NEW before, NEW step, Recursion(V, a, before, step)
  PROVE  \E f \in [Nat -> V] :
           f[0] = a /\ \A n \in Nat \ {0} : f[n] = step[n][f[before[n]]]
<1> a \in V /\ before \in [Nat -> Nat] /\ step \in [Nat -> [V -> V]]
    /\ \A n \in Nat \ {0} : before[n] < n
  BY DEF Recursion
<1> DEFINE Part(g, n) == /\ g \in [0..n -> V] /\ g[0] = a
                         /\ \A k \in 1..n : g[k] = step[k][g[before[k]]]
<1>1. \A n \in Nat : \E g : Part(g, n)
  <2> DEFINE T == {n \in Nat : ~ \E g : Part(g, n)}
  <2> SUFFICES ASSUME T # {} PROVE FALSE
    OBVIOUS
  <2>1. PICK n \in T : \A m \in T : n <= m
    BY LeastNat
  <2>4. n \in Nat /\ \A m \in Nat : m < n => m \notin T
    <3>1. T \subseteq Nat
      OBVIOUS
    <3> HIDE DEF T
    <3> QED
      BY <2>1, <3>1
  <2>2. CASE n = 0
    <3> DEFINE g == [k \in 0..0 |-> a]
    <3>1. Part(g, 0)
      OBVIOUS
    <3> QED
      BY <2>1, <2>2, <3>1
  <2>3. CASE n # 0
    <3>1. n \in Nat /\ n - 1 \in Nat /\ n - 1 \notin T
      <4> HIDE DEF T
      <4> QED
        BY <2>3, <2>4
    <3>2. PICK g : Part(g, n - 1)
      BY <3>1
    <3> DEFINE h == [k \in 0..n |-> IF k = n THEN step[n][g[before[n]]] ELSE g[k]]
    <3>3. before[n] \in 0..(n - 1) /\ \A k \in 1..n : before[k] \in 0..(n - 1)
      <4> HIDE DEF T, Part, h
      <4>1. ASSUME NEW k \in 1..n PROVE before[k] \in 0..(n - 1)
        <5>1. k \in Nat \ {0} /\ k <= n
          BY <3>1
        <5>2. before[k] \in Nat /\ before[k] < k
          BY <5>1
        <5> QED
          BY <3>1, <5>1, <5>2
      <4>2. n \in 1..n
        BY <2>3, <3>1
      <4> QED
        BY <4>1, <4>2
    <3>4. \A k \in 0..(n - 1) : g[k] \in V /\ h[k] = g[k] /\ (k # 0 => k \in 1..(n - 1))
      BY <3>1, <3>2
    <3>5. h[n] = step[n][g[before[n]]] /\ h[n] \in V
      BY <3>1, <3>2, <3>3, <3>4
    <3>6. h \in [0..n -> V]
      <4>1. \A k \in 0..n : k = n \/ k \in 0..(n - 1)
        BY <3>1
      <4>2. \A k \in 0..n : h[k] \in V
        BY <3>4, <3>5, <4>1
      <4> QED
        BY <4>2
    <3>7. \A k \in 1..n : h[before[k]] = g[before[k]]
      BY <3>3, <3>4
    <3>8. \A k \in 1..n : k = n \/ k \in 1..(n - 1)
      BY <3>1
    <3>9. \A k \in 1..n : h[k] = step[k][h[before[k]]]
      <4> SUFFICES ASSUME NEW k \in 1..n PROVE h[k] = step[k][h[before[k]]]
        OBVIOUS
      <4> HIDE DEF h
      <4>1. CASE k = n
        BY <3>5, <3>7, <4>1
      <4>2. CASE k # n
        <5>1. k \in 1..(n - 1) /\ k \in 0..(n - 1)
          BY <3>8, <4>2
        <5> QED
          BY <3>2, <3>4, <3>7, <5>1
      <4> QED
        BY <4>1, <4>2
    <3>10. h[0] = a
      BY <2>3, <3>1, <3>2, <3>4
    <3>11. Part(h, n)
      BY <3>6, <3>9, <3>10
    <3> QED
      BY <2>1, <3>11
  <2> QED
    BY <2>2, <2>3
<1>2. ASSUME NEW m \in Nat, NEW n \in Nat, NEW g, NEW h, Part(g, m), Part(h, n), m <= n
      PROVE  \A k \in 0..m : g[k] = h[k]
  <2> DEFINE T == {k \in 0..m : g[k] # h[k]}
  <2> SUFFICES ASSUME T # {} PROVE FALSE
    OBVIOUS
  <2>1. T \subseteq Nat
    OBVIOUS
  <2>2. PICK k \in T : \A l \in T : k <= l
    BY <2>1, LeastNat
  <2>3. k \in 0..m /\ k # 0
    BY <1>2, <2>2
  <2>4. before[k] \in 0..m /\ before[k] \notin T
    BY <2>2, <2>3
  <2>5. k \in 1..m /\ k \in 1..n
    BY <1>2, <2>3
  <2>6. g[before[k]] = h[before[k]]
    BY <2>4
  <2> QED
    BY <1>2, <2>2, <2>5, <2>6
<1> DEFINE part == [n \in Nat |-> CHOOSE g : Part(g, n)]
           f == [n \in Nat |-> part[n][n]]
<1>3. \A n \in Nat : Part(part[n], n)
  BY <1>1
<1>4. \A n \in Nat : part[n][n] \in V
  <2>1. \A n \in Nat : n \in 0..n
    OBVIOUS
  <2> HIDE DEF part
  <2> QED
    BY <1>3, <2>1
<1>5. f \in [Nat -> V] /\ f[0] = a
  BY <1>3, <1>4
<1>6. ASSUME NEW n \in Nat \ {0} PROVE f[n] = step[n][f[before[n]]]
  <2>1. n \in 1..n /\ before[n] \in Nat /\ before[n] <= n /\ before[n] \in 0..before[n]
    OBVIOUS
  <2>2. Part(part[n], n) /\ Part(part[before[n]], before[n])
    BY <1>3, <2>1
  <2>3. part[before[n]][before[n]] = part[n][before[n]]
    <3>1. PICK g, h, m : g = part[before[n]] /\ h = part[n] /\ m = before[n]
      OBVIOUS
    <3> HIDE DEF part, Part
    <3>2. m \in Nat /\ m <= n /\ Part(g, m) /\ Part(h, n) /\ m \in 0..m
      BY <2>1, <2>2, <3>1
    <3>3. \A k \in 0..m : g[k] = h[k]
      BY <1>2, <3>2
    <3> QED
      BY <3>1, <3>2, <3>3
  <2> HIDE DEF part
  <2> QED
    BY <2>1, <2>2, <2>3
<1> HIDE DEF f
<1> QED
  BY <1>5, <1>6

\* A recursion over the places 1 to n: the value before them, and the step to a place.
Along(V, a, n, step) == a \in V /\ n \in Nat /\ step \in [1..n -> [V -> V]]

\* A function of the places of a text is defined by steps from place to place.
LEMMA RecursionAlong ==
  ASSUME NEW V, NEW a, NEW n, NEW step, Along(V, a, n, step)
  PROVE  \E f \in [0..n -> V] : f[0] = a /\ \A i \in 1..n : f[i] = step[i][f[i - 1]]
<1> a \in V /\ n \in Nat /\ step \in [1..n -> [V -> V]]
  BY DEF Along
<1> DEFINE before == [k \in Nat |-> IF k = 0 THEN 0 ELSE k - 1]
           on == [k \in Nat |-> IF k \in 1..n THEN step[k] ELSE [v \in V |-> v]]
<1>1. before \in [Nat -> Nat] /\ \A k \in Nat \ {0} : before[k] = k - 1 /\ before[k] < k
  OBVIOUS
<1>2. on \in [Nat -> [V -> V]] /\ \A k \in 1..n : on[k] = step[k]
  OBVIOUS
<1> HIDE DEF before, on
<1>3. PICK f \in [Nat -> V] : f[0] = a /\ \A k \in Nat \ {0} : f[k] = on[k][f[before[k]]]
  <2>1. Recursion(V, a, before, on)
    BY <1>1, <1>2 DEF Recursion
  <2> QED
    BY <2>1, RecursionDefines
<1>4. ASSUME NEW k \in 1..n PROVE k - 1 \in 0..n /\ f[k] = step[k][f[k - 1]]
  <2>1. k \in Nat \ {0} /\ k - 1 \in 0..n
    OBVIOUS
  <2>2. before[k] = k - 1 /\ on[k] = step[k]
    BY <1>1, <1>2, <2>1
  <2>3. f[k] = on[k][f[before[k]]]
    BY <1>3, <2>1
  <2> QED
    BY <2>1, <2>2, <2>3
<1> DEFINE g == [k \in 0..n |-> f[k]]
<1>5. g \in [0..n -> V] /\ g[0] = a
  BY <1>3
<1>6. \A k \in 1..n : g[k] = step[k][g[k - 1]]
  BY <1>4
<1> HIDE DEF g
<1> QED
  BY <1>5, <1>6

\* What stands where in two texts put together.
LEMMA Joined ==
  ASSUME NEW D, NEW s \in Seq(D), NEW t \in Seq(D)
  PROVE  /\ s \o t \in Seq(D) /\ Len(s \o t) = Len(s) + Len(t)
         /\ \A i \in 1..Len(s) : (s \o t)[i] = s[i]
         /\ \A i \in 1..Len(t) : (s \o t)[Len(s) + i] = t[i]
OBVIOUS

\* A text whose symbols are of a kind is a text of that kind.
LEMMA TextOf ==
  ASSUME NEW D, NEW E, NEW s \in Seq(D), \A i \in 1..Len(s) : s[i] \in E
  PROVE  s \in Seq(E)
OBVIOUS

\* Three symbols are a text.
LEMMA ThreeSymbols ==
  ASSUME NEW D, NEW a \in D, NEW b \in D, NEW c \in D, NEW s, s = <<a, b, c>>
  PROVE  s \in Seq(D) /\ Len(s) = 3 /\ s[1] = a /\ s[2] = b /\ s[3] = c
OBVIOUS
=============================================================================
