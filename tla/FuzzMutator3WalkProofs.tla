----------------------- MODULE FuzzMutator3WalkProofs -----------------------
(***************************************************************************)
(* A full step of the mutator tries every edit: the walk of the cursor     *)
(* through the edits of InsertByte, InsertRepeatedBytes, ChangeByte and    *)
(* ChangeBit, for every value of the constants.                            *)
(***************************************************************************)
EXTENDS FuzzMutator3Proofs

-----------------------------------------------------------------------------
(* The inductive invariant.                                                *)

\* The actions whose walk comes to every edit.
Walked == {"InsertByte", "InsertRepeatedBytes", "ChangeByte", "ChangeBit"}

\* How many edits the walk made before it came to the cursor c.
Rank(a, n, c) ==
  CASE a = "InsertByte" -> c.byte * (n + 1) + c.index
    [] a = "InsertRepeatedBytes" -> ((c.size - 1) * (n + 1) + c.index) * Bytes + c.byte
    [] a = "ChangeByte" -> c.index * Bytes + c.byte
    [] a = "ChangeBit" -> c.index * Bits + c.shift

\* The walk came by the edit e before it came to the cursor c.
Before(a, e, c) ==
  CASE a = "InsertByte" -> e.byte < c.byte \/ (e.byte = c.byte /\ e.at < c.index)
    [] a = "InsertRepeatedBytes" ->
         \/ e.count < c.size
         \/ e.count = c.size /\ (e.at < c.index \/ (e.at = c.index /\ e.byte < c.byte))
    [] a = "ChangeByte" -> e.at < c.index \/ (e.at = c.index /\ e.byte < c.byte)
    [] a = "ChangeBit" -> e.at < c.index \/ (e.at = c.index /\ e.bit < c.shift)

Behind(a, n, c) == {e \in AllEdits(a, n) : Before(a, e, c)}

\* A full step either has made every edit, or has made those behind the cursor
\* and has as many tries left as it claimed edits, less those.
WalkInv ==
  /\ full => ~Refused(action, size)
  /\ full /\ action = "InsertRepeatedBytes" => insertMax = InsertLimit(size)
  /\ full /\ ~raised /\ action \in Walked =>
       \/ produced = AllEdits(action, size)
       \/ /\ left > 0
          /\ left + Rank(action, size, cur) = MaxPossible(action, size)
          /\ produced = Behind(action, size, cur)

-----------------------------------------------------------------------------
(* Counting the edits.                                                     *)

\* A product with one factor more.
LEMMA OneMore ==
  ASSUME NEW i \in Nat, NEW b \in Nat
  PROVE  i * b \in Nat /\ (i + 1) * b = i * b + b
OBVIOUS

\* A larger factor gives a larger product.
LEMMA ProductGrows ==
  ASSUME NEW i \in Nat, NEW k \in Nat, i <= k, NEW b \in Nat
  PROVE  i * b <= k * b
<1> DEFINE x == k - i
<1>1. x \in Nat /\ k = i + x
  OBVIOUS
<1> HIDE DEF x
<1>2. k * b = i * b + x * b /\ x * b \in Nat /\ i * b \in Nat
  BY <1>1
<1> QED BY <1>2

\* The rank of the place j in the block i of k blocks of b places.
LEMMA PlaceRank ==
  ASSUME NEW k \in Nat, NEW b \in Nat, NEW i \in 0..(k - 1), NEW j \in 0..(b - 1)
  PROVE  /\ i * b + j \in Nat
         /\ i * b + j < k * b
         /\ j + 1 = b => (i + 1) * b + 0 = (i * b + j) + 1
<1>1. (i + 1) * b <= k * b
  BY ProductGrows
<1>2. i * b \in Nat /\ (i + 1) * b = i * b + b /\ k * b \in Nat
  BY OneMore
<1> QED BY <1>1, <1>2

-----------------------------------------------------------------------------
(* One step of the walk: it makes the next edit, and either that was the   *)
(* last one or the cursor is then on the edit of the next rank.            *)

WalkStep(a, n, c, d) ==
  /\ Edit(a, c) \in AllEdits(a, n)
  /\ Rank(a, n, c) \in Nat
  /\ Rank(a, n, c) < MaxPossible(a, n)
  /\ \/ Behind(a, n, c) \cup {Edit(a, c)} = AllEdits(a, n)
     \/ /\ Rank(a, n, d) = Rank(a, n, c) + 1
        /\ Behind(a, n, d) = Behind(a, n, c) \cup {Edit(a, c)}

\* ChangeByte goes through the bytes at one index, then to the next index.
LEMMA ChangeByteWalk ==
  ASSUME NEW n \in 0..MaxSize, NEW c \in Cursor, c.index < n
  PROVE  WalkStep("ChangeByte", n, c, AdvanceByte(n, c))
<1> DEFINE a == "ChangeByte"
           d == AdvanceByte(n, c)
           i == c.index
           b == c.byte
<1>0. n \in Nat /\ Bytes \in Nat /\ i \in 0..(n - 1) /\ b \in 0..(Bytes - 1)
  BY CursorFields, MutatorAssumption
<1>1. Edit(a, c) = [at |-> i, byte |-> b] /\ AllEdits(a, n) = [at : 0..(n - 1), byte : 0..(Bytes - 1)]
  BY DEF Edit, AllEdits
<1>2. Rank(a, n, c) = i * Bytes + b /\ Rank(a, n, d) = d.index * Bytes + d.byte
  BY DEF Rank
<1>3. MaxPossible(a, n) = n * Bytes
  BY DEF MaxPossible
<1>4. \A e, x : Before(a, e, x) <=> e.at < x.index \/ (e.at = x.index /\ e.byte < x.byte)
  BY DEF Before
<1>5. /\ b + 1 # Bytes => d.index = i /\ d.byte = b + 1
      /\ b + 1 = Bytes /\ i + 1 < n => d.index = i + 1 /\ d.byte = 0
  BY <1>0 DEF AdvanceByte, Cursor
<1> HIDE DEF a, d, i, b
<1>6. Rank(a, n, c) \in Nat /\ Rank(a, n, c) < MaxPossible(a, n)
  BY <1>0, <1>2, <1>3, PlaceRank
<1>7. CASE b + 1 # Bytes
  <2>1. Rank(a, n, d) = i * Bytes + (b + 1)
    BY <1>2, <1>5, <1>7
  <2>2. Rank(a, n, d) = Rank(a, n, c) + 1
    BY <1>0, <1>2, <2>1, OneMore
  <2>3. Behind(a, n, d) = Behind(a, n, c) \cup {Edit(a, c)}
    BY <1>0, <1>1, <1>4, <1>5, <1>7 DEF Behind, i, b
  <2> QED BY <1>0, <1>1, <1>6, <2>2, <2>3 DEF WalkStep, a, d
<1>8. CASE b + 1 = Bytes /\ i + 1 < n
  <2>1. Rank(a, n, d) = Rank(a, n, c) + 1
    BY <1>0, <1>2, <1>5, <1>8, PlaceRank
  <2>2. Behind(a, n, d) = Behind(a, n, c) \cup {Edit(a, c)}
    BY <1>0, <1>1, <1>4, <1>5, <1>8 DEF Behind, i, b
  <2> QED BY <1>0, <1>1, <1>6, <2>1, <2>2 DEF WalkStep, a, d
<1>9. CASE b + 1 = Bytes /\ i + 1 = n
  <2>1. Edit(a, c) \in AllEdits(a, n)
    BY <1>0, <1>1
  <2>2. ASSUME NEW e \in AllEdits(a, n)
        PROVE  Before(a, e, c) \/ e = Edit(a, c)
    BY <1>0, <1>1, <1>4, <1>9 DEF i, b
  <2>3. Behind(a, n, c) \cup {Edit(a, c)} = AllEdits(a, n)
    BY <2>1, <2>2 DEF Behind
  <2> QED BY <2>1, <1>6, <2>3 DEF WalkStep, a, d
<1> QED BY <1>0, <1>7, <1>8, <1>9

\* ChangeBit goes through the bits of the byte at one index, then to the next index.
LEMMA ChangeBitWalk ==
  ASSUME NEW n \in 0..MaxSize, NEW c \in Cursor, c.index < n
  PROVE  WalkStep("ChangeBit", n, c, AdvanceBit(n, c))
<1> DEFINE a == "ChangeBit"
           d == AdvanceBit(n, c)
           i == c.index
           b == c.shift
<1>0. n \in Nat /\ Bits \in Nat /\ i \in 0..(n - 1) /\ b \in 0..(Bits - 1)
  BY CursorFields, MutatorAssumption
<1>1. Edit(a, c) = [at |-> i, bit |-> b] /\ AllEdits(a, n) = [at : 0..(n - 1), bit : 0..(Bits - 1)]
  BY DEF Edit, AllEdits
<1>2. Rank(a, n, c) = i * Bits + b /\ Rank(a, n, d) = d.index * Bits + d.shift
  BY DEF Rank
<1>3. MaxPossible(a, n) = n * Bits
  BY DEF MaxPossible
<1>4. \A e, x : Before(a, e, x) <=> e.at < x.index \/ (e.at = x.index /\ e.bit < x.shift)
  BY DEF Before
<1>5. /\ b + 1 # Bits => d.index = i /\ d.shift = b + 1
      /\ b + 1 = Bits /\ i + 1 < n => d.index = i + 1 /\ d.shift = 0
  BY <1>0 DEF AdvanceBit, Cursor
<1> HIDE DEF a, d, i, b
<1>6. Rank(a, n, c) \in Nat /\ Rank(a, n, c) < MaxPossible(a, n)
  BY <1>0, <1>2, <1>3, PlaceRank
<1>7. CASE b + 1 # Bits
  <2>1. Rank(a, n, d) = i * Bits + (b + 1)
    BY <1>2, <1>5, <1>7
  <2>2. Rank(a, n, d) = Rank(a, n, c) + 1
    BY <1>0, <1>2, <2>1, OneMore
  <2>3. Behind(a, n, d) = Behind(a, n, c) \cup {Edit(a, c)}
    BY <1>0, <1>1, <1>4, <1>5, <1>7 DEF Behind, i, b
  <2> QED BY <1>0, <1>1, <1>6, <2>2, <2>3 DEF WalkStep, a, d
<1>8. CASE b + 1 = Bits /\ i + 1 < n
  <2>1. Rank(a, n, d) = Rank(a, n, c) + 1
    BY <1>0, <1>2, <1>5, <1>8, PlaceRank
  <2>2. Behind(a, n, d) = Behind(a, n, c) \cup {Edit(a, c)}
    BY <1>0, <1>1, <1>4, <1>5, <1>8 DEF Behind, i, b
  <2> QED BY <1>0, <1>1, <1>6, <2>1, <2>2 DEF WalkStep, a, d
<1>9. CASE b + 1 = Bits /\ i + 1 = n
  <2>1. Edit(a, c) \in AllEdits(a, n)
    BY <1>0, <1>1
  <2>2. ASSUME NEW e \in AllEdits(a, n)
        PROVE  Before(a, e, c) \/ e = Edit(a, c)
    BY <1>0, <1>1, <1>4, <1>9 DEF i, b
  <2>3. Behind(a, n, c) \cup {Edit(a, c)} = AllEdits(a, n)
    BY <2>1, <2>2 DEF Behind
  <2> QED BY <2>1, <1>6, <2>3 DEF WalkStep, a, d
<1> QED BY <1>0, <1>7, <1>8, <1>9

\* InsertByte goes through the positions with one byte, then to the next byte.
LEMMA InsertByteWalk ==
  ASSUME NEW n \in 0..MaxSize, NEW c \in Cursor, c.index <= n
  PROVE  WalkStep("InsertByte", n, c, AdvanceInsert(n, c))
<1> DEFINE a == "InsertByte"
           d == AdvanceInsert(n, c)
           i == c.index
           b == c.byte
<1>0. /\ n \in Nat /\ n + 1 \in Nat /\ Bytes \in Nat
      /\ i \in 0..n /\ i \in 0..((n + 1) - 1) /\ b \in 0..(Bytes - 1)
  BY CursorFields, MutatorAssumption
<1>1. Edit(a, c) = [at |-> i, byte |-> b] /\ AllEdits(a, n) = [at : 0..n, byte : 0..(Bytes - 1)]
  BY DEF Edit, AllEdits
<1>2. Rank(a, n, c) = b * (n + 1) + i /\ Rank(a, n, d) = d.byte * (n + 1) + d.index
  BY DEF Rank
<1>3. MaxPossible(a, n) = Bytes * (n + 1)
  <2>1. MaxPossible(a, n) = (n + 1) * Bytes
    BY DEF MaxPossible
  <2> QED BY <1>0, <2>1
<1>4. \A e, x : Before(a, e, x) <=> e.byte < x.byte \/ (e.byte = x.byte /\ e.at < x.index)
  BY DEF Before
<1>5. /\ i + 1 <= n => d.index = i + 1 /\ d.byte = b
      /\ i = n /\ b + 1 < Bytes => d.index = 0 /\ d.byte = b + 1
  <2>1. CASE i + 1 <= n
    BY <1>0, <2>1 DEF AdvanceInsert, Cursor
  <2>2. CASE i = n /\ b + 1 < Bytes
    <3>1. (b + 1) % Bytes = b + 1
      BY <1>0, <2>2
    <3>2. d = [c EXCEPT !.index = 0, !.byte = (c.byte + 1) % Bytes]
      BY <1>0, <2>2 DEF AdvanceInsert
    <3> QED BY <1>0, <2>2, <3>1, <3>2 DEF Cursor
  <2> QED BY <2>1, <2>2
<1> HIDE DEF a, d, i, b
<1>6. Rank(a, n, c) \in Nat /\ Rank(a, n, c) < MaxPossible(a, n)
  BY <1>0, <1>2, <1>3, PlaceRank
<1>7. CASE i + 1 <= n
  <2>1. Rank(a, n, d) = Rank(a, n, c) + 1
    BY <1>0, <1>2, <1>5, <1>6, <1>7, OneMore
  <2>2. Behind(a, n, d) = Behind(a, n, c) \cup {Edit(a, c)}
    BY <1>0, <1>1, <1>4, <1>5, <1>7 DEF Behind, i, b
  <2> QED BY <1>0, <1>1, <1>6, <2>1, <2>2 DEF WalkStep, a, d
<1>8. CASE i = n /\ b + 1 < Bytes
  <2>1. Rank(a, n, d) = Rank(a, n, c) + 1
    BY <1>0, <1>2, <1>5, <1>8, PlaceRank
  <2>2. Behind(a, n, d) = Behind(a, n, c) \cup {Edit(a, c)}
    BY <1>0, <1>1, <1>4, <1>5, <1>8 DEF Behind, i, b
  <2> QED BY <1>0, <1>1, <1>6, <2>1, <2>2 DEF WalkStep, a, d
<1>9. CASE i = n /\ b + 1 = Bytes
  <2>1. Edit(a, c) \in AllEdits(a, n)
    BY <1>0, <1>1
  <2>2. ASSUME NEW e \in AllEdits(a, n)
        PROVE  Before(a, e, c) \/ e = Edit(a, c)
    BY <1>0, <1>1, <1>4, <1>9 DEF i, b
  <2>3. Behind(a, n, c) \cup {Edit(a, c)} = AllEdits(a, n)
    BY <2>1, <2>2 DEF Behind
  <2> QED BY <2>1, <1>6, <2>3 DEF WalkStep, a, d
<1> QED BY <1>0, <1>7, <1>8, <1>9

\* Setup_InsertRepeatedBytes claims edits for the sizes 1 + 2 + ... + l: at
\* least the edits of the l sizes there are.
LEMMA RepeatedClaim ==
  ASSUME NEW n \in 0..MaxSize, ~Refused("InsertRepeatedBytes", n)
  PROVE  /\ InsertLimit(n) \in Nat
         /\ (InsertLimit(n) * (n + 1)) * Bytes <= MaxPossible("InsertRepeatedBytes", n)
<1> DEFINE l == InsertLimit(n)
           p == (n + 1) * l
<1>1. l \in Nat \ {0} /\ n \in Nat /\ Bytes \in Nat
  BY InsertLimitProperty, MutatorAssumption
<1>2. MaxPossible("InsertRepeatedBytes", n) = ((p * (l + 1)) \div 2) * Bytes
  BY DEF MaxPossible
<1> HIDE DEF l
<1>3. p \in Nat /\ p = l * (n + 1)
  BY <1>1
<1> HIDE DEF p
<1>4. p * 2 <= p * (l + 1) /\ p * (l + 1) \in Nat
  <2>1. 2 * p <= (l + 1) * p
    BY <1>1, <1>3, ProductGrows
  <2>2. p * 2 = 2 * p /\ p * (l + 1) = (l + 1) * p /\ (l + 1) * p \in Nat
    BY <1>1, <1>3
  <2> QED BY <2>1, <2>2
<1> DEFINE q == p * (l + 1)
<1> HIDE DEF q
<1>5. q \in Nat /\ p * 2 <= q
  BY <1>4 DEF q
<1>6. q \div 2 \in Nat /\ p <= q \div 2
  BY <1>3, <1>5
<1>7. p * Bytes <= (q \div 2) * Bytes
  BY <1>1, <1>3, <1>6, ProductGrows
<1> QED BY <1>1, <1>2, <1>3, <1>7 DEF q, l

\* InsertRepeatedBytes goes through the bytes at one position, through the
\* positions with one size, then to the next size.
LEMMA InsertRepeatedWalk ==
  ASSUME NEW n \in 0..MaxSize, NEW c \in Cursor, ~Refused("InsertRepeatedBytes", n),
         c.index <= n, c.size \in 1..InsertLimit(n)
  PROVE  WalkStep("InsertRepeatedBytes", n, c, AdvanceRepeated(n, c, InsertLimit(n)))
<1> DEFINE a == "InsertRepeatedBytes"
           l == InsertLimit(n)
           d == AdvanceRepeated(n, c, l)
           i == c.index
           b == c.byte
           k == c.size
           r == (k - 1) * (n + 1) + i
<1>0. /\ n \in Nat /\ n + 1 \in Nat /\ Bytes \in Nat /\ l \in Nat
      /\ i \in 0..n /\ i \in 0..((n + 1) - 1) /\ b \in 0..(Bytes - 1)
      /\ k \in 1..l /\ k - 1 \in 0..(l - 1)
  BY CursorFields, MutatorAssumption, RepeatedClaim
<1>1. /\ Edit(a, c) = [at |-> i, byte |-> b, count |-> k]
      /\ AllEdits(a, n) = [at : 0..n, byte : 0..(Bytes - 1), count : 1..l]
  BY DEF Edit, AllEdits
<1>2. /\ Rank(a, n, c) = r * Bytes + b
      /\ Rank(a, n, d) = ((d.size - 1) * (n + 1) + d.index) * Bytes + d.byte
  BY DEF Rank
<1>3. (l * (n + 1)) * Bytes <= MaxPossible(a, n) /\ MaxPossible(a, n) \in Nat
  BY RepeatedClaim, MaxPossibleProperty DEF Enumerating
<1>4. \A e, x : Before(a, e, x) <=>
        \/ e.count < x.size
        \/ e.count = x.size /\ (e.at < x.index \/ (e.at = x.index /\ e.byte < x.byte))
  BY DEF Before
<1>5. /\ b + 1 # Bytes => d.size = k /\ d.index = i /\ d.byte = b + 1
      /\ b + 1 = Bytes /\ i + 1 <= n => d.size = k /\ d.index = i + 1 /\ d.byte = 0
      /\ b + 1 = Bytes /\ i = n /\ k + 1 <= l => d.size = k + 1 /\ d.index = 0 /\ d.byte = 0
  <2>1. CASE b + 1 # Bytes
    BY <1>0, <2>1 DEF AdvanceRepeated, Cursor
  <2>2. CASE b + 1 = Bytes /\ i + 1 <= n
    BY <1>0, <2>2 DEF AdvanceRepeated, Cursor
  <2>3. CASE b + 1 = Bytes /\ i = n /\ k + 1 <= l
    <3>1. ~(c.size + 1 > l)
      BY <1>0, <2>3
    <3>2. ~(c.byte + 1 # Bytes) /\ ~(c.index + 1 <= n)
      BY <1>0, <2>3
    <3>3. d = [c EXCEPT !.byte = 0, !.index = 0, !.size = c.size + 1]
      BY <3>1, <3>2 DEF AdvanceRepeated
    <3>4. d.size = k + 1 /\ d.index = 0 /\ d.byte = 0
      BY <3>3 DEF Cursor
    <3> HIDE DEF d, b, i, k
    <3> QED BY <1>0, <2>3, <3>4
  <2> QED BY <2>1, <2>2, <2>3
<1> HIDE DEF a, d, i, b, k, l
<1>6. /\ r \in Nat /\ r < l * (n + 1)
      /\ i + 1 = n + 1 => ((k - 1) + 1) * (n + 1) + 0 = r + 1
  BY <1>0, PlaceRank
<1>7. l * (n + 1) \in Nat
  BY <1>0
<1>8. (k - 1) * (n + 1) \in Nat
  BY <1>0
<1> DEFINE t == l * (n + 1)
<1> HIDE DEF r, t
<1>9. r \in 0..(t - 1) /\ t \in Nat
  BY <1>6, <1>7 DEF t
<1>10. /\ r * Bytes + b \in Nat /\ r * Bytes + b < t * Bytes
       /\ b + 1 = Bytes => (r + 1) * Bytes + 0 = (r * Bytes + b) + 1
  BY <1>0, <1>9, PlaceRank
<1>11. t * Bytes \in Nat /\ t * Bytes <= MaxPossible(a, n)
  BY <1>0, <1>3, <1>9 DEF t
<1>12. Rank(a, n, c) \in Nat /\ Rank(a, n, c) < MaxPossible(a, n)
  BY <1>2, <1>3, <1>10, <1>11
<1>13. CASE b + 1 # Bytes
  <2>1. Rank(a, n, d) = r * Bytes + (b + 1)
    BY <1>2, <1>5, <1>13 DEF r
  <2>2. Rank(a, n, d) = Rank(a, n, c) + 1
    BY <1>0, <1>2, <1>9, <2>1, OneMore
  <2>3. Behind(a, n, d) = Behind(a, n, c) \cup {Edit(a, c)}
    BY <1>0, <1>1, <1>4, <1>5, <1>13 DEF Behind, i, b, k
  <2> QED BY <1>0, <1>1, <1>12, <2>2, <2>3 DEF WalkStep, a, d, l
<1>14. CASE b + 1 = Bytes /\ i + 1 <= n
  <2>1. (k - 1) * (n + 1) + (i + 1) = r + 1
    BY <1>0, <1>8 DEF r
  <2>2. Rank(a, n, d) = (r + 1) * Bytes + 0
    BY <1>2, <1>5, <1>14, <2>1
  <2>3. Rank(a, n, d) = Rank(a, n, c) + 1
    BY <1>2, <1>10, <1>14, <2>2
  <2>4. Behind(a, n, d) = Behind(a, n, c) \cup {Edit(a, c)}
    BY <1>0, <1>1, <1>4, <1>5, <1>14 DEF Behind, i, b, k
  <2> QED BY <1>0, <1>1, <1>12, <2>3, <2>4 DEF WalkStep, a, d, l
<1>15. CASE b + 1 = Bytes /\ i = n /\ k + 1 <= l
  <2>1. d.size - 1 = (k - 1) + 1 /\ d.index = 0 /\ d.byte = 0
    BY <1>0, <1>5, <1>15
  <2>2. (d.size - 1) * (n + 1) + d.index = r + 1
    BY <1>0, <1>6, <1>15, <2>1
  <2>3. Rank(a, n, d) = (r + 1) * Bytes + 0
    BY <1>2, <2>1, <2>2
  <2>4. Rank(a, n, d) = Rank(a, n, c) + 1
    BY <1>2, <1>10, <1>15, <2>3
  <2>5. Behind(a, n, d) = Behind(a, n, c) \cup {Edit(a, c)}
    BY <1>0, <1>1, <1>4, <1>5, <1>15 DEF Behind, i, b, k
  <2> QED BY <1>0, <1>1, <1>12, <2>4, <2>5 DEF WalkStep, a, d, l
<1>16. CASE b + 1 = Bytes /\ i = n /\ k = l
  <2>1. Edit(a, c) \in AllEdits(a, n)
    BY <1>0, <1>1
  <2>2. ASSUME NEW e \in AllEdits(a, n)
        PROVE  Before(a, e, c) \/ e = Edit(a, c)
    BY <1>0, <1>1, <1>4, <1>16 DEF i, b, k
  <2>3. Behind(a, n, c) \cup {Edit(a, c)} = AllEdits(a, n)
    BY <2>1, <2>2 DEF Behind
  <2> QED BY <2>1, <1>12, <2>3 DEF WalkStep, a, d, l
<1> QED BY <1>0, <1>13, <1>14, <1>15, <1>16

\* The same of whatever action of the walk the cursor serves.
LEMMA AdvanceWalks ==
  ASSUME NEW a \in Walked, NEW n \in 0..MaxSize, NEW c \in Cursor, NEW m \in Nat,
         ~Refused(a, n), InRange(a, n, c, m), a = "InsertRepeatedBytes" => m = InsertLimit(n)
  PROVE  WalkStep(a, n, c, Advance(a, n, c, m))
<1>1. CASE a = "ChangeByte"
  <2>1. c.index < n /\ Advance(a, n, c, m) = AdvanceByte(n, c)
    BY <1>1 DEF InRange, Advance
  <2> QED BY <1>1, <2>1, ChangeByteWalk
<1>2. CASE a = "ChangeBit"
  <2>1. c.index < n /\ Advance(a, n, c, m) = AdvanceBit(n, c)
    BY <1>2 DEF InRange, Advance
  <2> QED BY <1>2, <2>1, ChangeBitWalk
<1>3. CASE a = "InsertByte"
  <2>1. c.index <= n /\ Advance(a, n, c, m) = AdvanceInsert(n, c)
    BY <1>3 DEF InRange, Advance
  <2> QED BY <1>3, <2>1, InsertByteWalk
<1>4. CASE a = "InsertRepeatedBytes"
  <2>1. c.index <= n /\ c.size \in 1..m /\ Advance(a, n, c, m) = AdvanceRepeated(n, c, m)
    BY <1>4 DEF InRange, Advance
  <2> QED BY <1>4, <2>1, InsertRepeatedWalk
<1> QED BY <1>1, <1>2, <1>3, <1>4 DEF Walked

\* The walk starts at rank 0, with no edit behind it and an edit to make.
LEMMA WalkStarts ==
  ASSUME NEW a \in Walked, NEW n \in 0..MaxSize, NEW c \in Cursor, ~Refused(a, n)
  PROVE  /\ MaxPossible(a, n) \in Nat /\ MaxPossible(a, n) > 0
         /\ Rank(a, n, FirstCursor(a, c)) = 0
         /\ Behind(a, n, FirstCursor(a, c)) = {}
<1> DEFINE f == FirstCursor(a, c)
<1>0. /\ n \in Nat /\ n + 1 \in Nat /\ Bytes \in Nat /\ Bits \in Nat /\ InsertLimit(n) \in Nat
      /\ a \in Enumerating /\ f \in Cursor /\ InRange(a, n, f, InsertLimit(n))
  <2>1. a \in Enumerating
    BY DEF Walked, Enumerating
  <2>2. f \in Cursor /\ InRange(a, n, f, InsertLimit(n))
    BY <2>1, FirstCursorFits
  <2>3. InsertLimit(n) \in Nat
    BY SmallerProperty, MutatorAssumption DEF InsertLimit
  <2> HIDE DEF f
  <2> QED BY <2>1, <2>2, <2>3, MutatorAssumption
<1>1. WalkStep(a, n, f, Advance(a, n, f, InsertLimit(n)))
  BY <1>0, AdvanceWalks
<1>2. MaxPossible(a, n) \in Nat /\ Rank(a, n, f) \in Nat /\ Rank(a, n, f) < MaxPossible(a, n)
  BY <1>0, <1>1, MaxPossibleProperty DEF WalkStep
<1>3. /\ f.index = 0
      /\ a # "ChangeBit" => f.byte = 0
      /\ a = "ChangeBit" => f.shift = 0
      /\ a = "InsertRepeatedBytes" => f.size = 1
  BY DEF FirstCursor, Walked, Cursor
<1> HIDE DEF f
<1>4. Rank(a, n, f) = 0
  <2>1. 0 * (n + 1) = 0 /\ 0 * Bytes = 0 /\ 0 * Bits = 0
    BY <1>0
  <2>2. CASE a = "InsertByte"
    BY <1>3, <2>1, <2>2 DEF Rank
  <2>3. CASE a = "InsertRepeatedBytes"
    <3>1. Rank(a, n, f) = ((1 - 1) * (n + 1) + 0) * Bytes + 0
      BY <1>3, <2>3 DEF Rank
    <3> QED BY <2>1, <3>1
  <2>4. CASE a = "ChangeByte"
    BY <1>3, <2>1, <2>4 DEF Rank
  <2>5. CASE a = "ChangeBit"
    BY <1>3, <2>1, <2>5 DEF Rank
  <2> QED BY <2>2, <2>3, <2>4, <2>5 DEF Walked
<1>5. ASSUME NEW e \in AllEdits(a, n) PROVE ~Before(a, e, f)
  <2>1. CASE a = "InsertByte"
    <3>1. e.at \in Nat /\ e.byte \in Nat
      BY <1>0, <2>1 DEF AllEdits
    <3> QED BY <1>3, <2>1, <3>1 DEF Before
  <2>2. CASE a = "ChangeByte"
    <3>1. e.at \in Nat /\ e.byte \in Nat
      BY <1>0, <2>2 DEF AllEdits
    <3> QED BY <1>3, <2>2, <3>1 DEF Before
  <2>3. CASE a = "InsertRepeatedBytes"
    <3>1. e.at \in Nat /\ e.byte \in Nat /\ e.count \in Nat /\ e.count >= 1
      BY <1>0, <2>3 DEF AllEdits
    <3> QED BY <1>3, <2>3, <3>1 DEF Before
  <2>4. CASE a = "ChangeBit"
    <3>1. e.at \in Nat /\ e.bit \in Nat
      BY <1>0, <2>4 DEF AllEdits
    <3> QED BY <1>3, <2>4, <3>1 DEF Before
  <2> QED BY <2>1, <2>2, <2>3, <2>4 DEF Walked
<1> QED BY <1>2, <1>4, <1>5 DEF Behind, f

-----------------------------------------------------------------------------
(* The invariant holds initially and every action preserves it.            *)

\* A set-up that covers every edit starts the walk; any other promises nothing.
LEMMA SetupWalks ==
  ASSUME IInv, NEW a \in Actions, NEW n \in 0..MaxSize, NEW energy \in Nat,
         Setup(a, n, energy),
         full' => left' = MaxPossible(a, n)
  PROVE  WalkInv'
<1>0. cur \in Cursor /\ action' = a /\ size' = n /\ produced' = {}
  BY DEF IInv, TypeOK, Setup
<1>1. full' => a \in Enumerating /\ ~Refused(a, n)
  BY DEF Setup
<1>2. full' /\ a = "InsertRepeatedBytes" => insertMax' = InsertLimit(n)
  BY <1>1 DEF Setup
<1>3. ASSUME full', a \in Walked
      PROVE  /\ left' > 0
             /\ left' + Rank(a, n, cur') = MaxPossible(a, n)
             /\ produced' = Behind(a, n, cur')
  <2>1. cur' = FirstCursor(a, cur)
    BY <1>1, <1>3 DEF Setup
  <2>2. /\ MaxPossible(a, n) \in Nat /\ MaxPossible(a, n) > 0
        /\ Rank(a, n, cur') = 0 /\ Behind(a, n, cur') = {}
    BY <1>0, <1>1, <1>3, <2>1, WalkStarts
  <2> QED BY <1>0, <1>3, <2>2
<1> QED BY <1>0, <1>1, <1>2, <1>3 DEF WalkInv

\* run_action starts the walk with all the tries that the edits take.
LEMMA RunActionWalks ==
  ASSUME IInv, NEW a \in Actions, NEW n \in 0..MaxSize, NEW energy \in Energies,
         RunAction(a, n, energy)
  PROVE  WalkInv'
<1>1. energy \in Nat /\ Setup(a, n, energy)
  BY MutatorAssumption DEF RunAction
<1>2. ASSUME full' PROVE left' = MaxPossible(a, n)
  <2>1. a \in Enumerating /\ ~Refused(a, n) /\ energy >= MaxPossible(a, n)
    BY <1>1, <1>2 DEF Setup
  <2>2. Granted(a, n, energy) = MaxPossible(a, n)
    BY <1>1, <2>1, MaxPossibleProperty DEF Granted, Smaller
  <2> QED BY <2>1, <2>2 DEF RunAction
<1> QED BY <1>1, <1>2, SetupWalks

\* A probe covers every edit only where there is one.
LEMMA ProbeWalks ==
  ASSUME IInv, NEW a \in Actions, NEW n \in 0..MaxSize, Probe(a, n)
  PROVE  WalkInv'
<1>1. Setup(a, n, 1) /\ left' = 1
  BY DEF Probe
<1>2. CASE full' /\ a \in Walked
  <2>1. cur \in Cursor /\ a \in Enumerating /\ ~Refused(a, n) /\ 1 >= MaxPossible(a, n)
    BY <1>1, <1>2 DEF IInv, TypeOK, Setup
  <2>2. MaxPossible(a, n) \in Nat /\ MaxPossible(a, n) > 0
    BY <1>2, <2>1, WalkStarts
  <2>3. left' = MaxPossible(a, n)
    BY <1>1, <2>1, <2>2
  <2> QED BY <1>1, <2>3, SetupWalks
<1>3. CASE ~(full' /\ a \in Walked)
  <2>1. action' = a /\ size' = n
    BY <1>1 DEF Setup
  <2>2. full' => ~Refused(a, n)
    BY <1>1 DEF Setup
  <2>3. full' /\ a = "InsertRepeatedBytes" => insertMax' = InsertLimit(n)
    BY <1>1, <2>2 DEF Setup
  <2> QED BY <1>3, <2>1, <2>2, <2>3 DEF WalkInv
<1> QED BY <1>2, <1>3

\* next() goes one step along the walk, past its end too.
LEMMA NextInputWalks ==
  ASSUME IInv, WalkInv, NextInput
  PROVE  WalkInv'
<1> DEFINE n == size
           d == Advance(action, size, cur, insertMax)
<1>0. /\ n \in 0..MaxSize /\ cur \in Cursor /\ insertMax \in 0..InsertCap /\ insertMax \in Nat
      /\ left \in Nat /\ left > 0 /\ left' = left - 1 /\ ~raised /\ MaxSize \in Nat
      /\ UNCHANGED <<action, size, insertMax, full>>
  BY MutatorAssumption DEF IInv, TypeOK, NextInput
<1>1. /\ full' => ~Refused(action', size')
      /\ full' /\ action' = "InsertRepeatedBytes" => insertMax' = InsertLimit(size')
  BY <1>0 DEF WalkInv
<1>2. ASSUME full, ~raised', action \in Walked
      PROVE  \/ produced' = AllEdits(action, n)
             \/ /\ left' > 0
                /\ left' + Rank(action, n, cur') = MaxPossible(action, n)
                /\ produced' = Behind(action, n, cur')
  <2>1. ~Refused(action, n) /\ InRange(action, n, cur, insertMax)
    BY <1>0, <1>2 DEF WalkInv, IInv, CursorInv, Granting
  <2>2. cur' = d /\ produced' = produced \cup {Edit(action, cur)}
    BY <1>2 DEF NextInput
  <2>3. action = "InsertRepeatedBytes" => insertMax = InsertLimit(n)
    BY <1>2 DEF WalkInv
  <2>4. WalkStep(action, n, cur, d)
    BY <1>0, <1>2, <2>1, <2>3, AdvanceWalks
  <2>5. WalkStep(action, n, d, Advance(action, n, d, insertMax))
    <3>1. ~Raises(action, n, cur, insertMax)
      BY <1>2 DEF NextInput
    <3>2. action = "InsertRepeatedBytes" => insertMax >= MinInsert /\ n + insertMax <= MaxSize
      BY <1>0, <2>1 DEF IInv, CursorInv, Granting
    <3>3. d \in Cursor /\ InRange(action, n, d, insertMax)
      BY <1>0, <2>1, <3>1, <3>2, AdvanceFits DEF IInv, TypeOK
    <3> HIDE DEF d
    <3> QED BY <1>0, <1>2, <2>1, <2>3, <3>3, AdvanceWalks
  <2> HIDE DEF d
  <2>6. CASE produced = AllEdits(action, n)
    BY <2>2, <2>4, <2>6 DEF WalkStep
  <2>7. CASE /\ left + Rank(action, n, cur) = MaxPossible(action, n)
             /\ produced = Behind(action, n, cur)
    <3>1. CASE Behind(action, n, cur) \cup {Edit(action, cur)} = AllEdits(action, n)
      BY <2>2, <2>7, <3>1
    <3>2. CASE /\ Rank(action, n, d) = Rank(action, n, cur) + 1
               /\ Behind(action, n, d) = Behind(action, n, cur) \cup {Edit(action, cur)}
      <4>1. produced' = Behind(action, n, cur')
        BY <2>2, <2>7, <3>2
      <4>2. left' + Rank(action, n, cur') = MaxPossible(action, n)
        BY <1>0, <2>2, <2>4, <2>7, <3>2 DEF WalkStep
      <4>3. Rank(action, n, d) \in Nat /\ Rank(action, n, d) < MaxPossible(action, n)
        BY <2>5 DEF WalkStep
      <4>4. left' > 0
        BY <1>0, <2>2, <4>2, <4>3
      <4> QED BY <4>1, <4>2, <4>4
    <3> QED BY <2>4, <3>1, <3>2 DEF WalkStep
  <2> QED BY <1>0, <1>2, <2>6, <2>7 DEF WalkInv
<1> QED BY <1>0, <1>1, <1>2 DEF WalkInv

\* Giving a step up ends its claim to be full.
LEMMA GiveUpWalks ==
  ASSUME GiveUp
  PROVE  WalkInv'
BY DEF GiveUp, WalkInv

\* The walk of every full step.
THEOREM WalkInvariant == Spec => []WalkInv
<1>1. Init => WalkInv
  BY DEF Init, WalkInv
<1>2. IInv /\ WalkInv /\ [Next]_vars => WalkInv'
  <2> SUFFICES ASSUME IInv, WalkInv, [Next]_vars PROVE WalkInv'
    OBVIOUS
  <2>1. ASSUME NEW a \in Actions, NEW n \in 0..MaxSize, NEW energy \in Energies,
               RunAction(a, n, energy)
        PROVE  WalkInv'
    BY <2>1, RunActionWalks
  <2>2. ASSUME NEW a \in Actions, NEW n \in 0..MaxSize, Probe(a, n)
        PROVE  WalkInv'
    BY <2>2, ProbeWalks
  <2>3. CASE NextInput
    BY <2>3, NextInputWalks
  <2>4. CASE GiveUp
    BY <2>4, GiveUpWalks
  <2>5. CASE UNCHANGED vars
    BY <2>5 DEF vars, WalkInv
  <2> QED BY <2>1, <2>2, <2>3, <2>4, <2>5 DEF Next
<1> QED BY <1>1, <1>2, Invariant, PTL DEF Spec

\* A step of InsertByte, InsertRepeatedBytes, ChangeByte or ChangeBit that is
\* granted the number of edits it claims has made every edit when its tries are
\* used up (fuzz_mutator_3.py 279-404), for every size, energy and number of
\* bytes and bits.
THEOREM EveryEditIsTried == Spec => []AllEditsTried
<1>1. IInv /\ WalkInv => AllEditsTried
  BY DEF IInv, TypeOK, WalkInv, AllEditsTried, Done, Walked
<1> QED BY <1>1, Invariant, WalkInvariant, PTL
=============================================================================
