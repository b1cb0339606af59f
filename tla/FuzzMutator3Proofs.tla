------------------------- MODULE FuzzMutator3Proofs -------------------------
(***************************************************************************)
(* Proofs about FuzzMutator3 for every value of its constants: type        *)
(* correctness, the range of the cursor, and the exceptions.               *)
(***************************************************************************)
EXTENDS FuzzMutator3, TLAPS

-----------------------------------------------------------------------------
(* The inductive invariant.                                                *)

\* A step that has tries left, and was not refused.
Granting == left > 0 /\ ~raised /\ ~Refused(action, size)

\* A full step has tries only if it was not refused; a probe always has one.
\* While a set-up is in force the cursor is on the input, a probe's too, and
\* the bound of the repeated insertions fits the input at hand.
CursorInv ==
  /\ left > 0 /\ ~probing => ~Refused(action, size)
  /\ Granting => InRange(action, size, cur, insertMax)
  /\ Granting /\ action = "InsertRepeatedBytes" =>
       insertMax >= MinInsert /\ size + insertMax <= MaxSize

IInv == TypeOK /\ CursorInv /\ RaisesOnlyWhen

-----------------------------------------------------------------------------
(* Lemmas about arithmetic and draws.                                      *)

\* Rand(n) is a number below n, or 0.
LEMMA DrawProperty ==
  ASSUME NEW n \in Nat, NEW d \in Draw(n)
  PROVE  d \in Nat /\ (n # 0 => d < n) /\ (n = 0 => d = 0)
BY DEF Draw

\* min() of two numbers.
LEMMA SmallerProperty ==
  ASSUME NEW m \in Nat, NEW n \in Nat
  PROVE  /\ Smaller(m, n) \in Nat
         /\ Smaller(m, n) <= m /\ Smaller(m, n) <= n
         /\ Smaller(m, n) = m \/ Smaller(m, n) = n
BY DEF Smaller

\* The number of edits is a number, and is 0 for CopyPart only at the limits.
LEMMA MaxPossibleProperty ==
  ASSUME NEW a \in Enumerating, NEW n \in 0..MaxSize
  PROVE  /\ MaxPossible(a, n) \in Nat
         /\ a = "CopyPart" /\ MaxPossible(a, n) = 0 => n = 0 \/ n = MaxSize
<1> USE MutatorAssumption
<1>1. CASE a = "EraseBytes"
  <2>1. n * (n + 1) \in Nat
    OBVIOUS
  <2> QED BY <1>1, <2>1 DEF MaxPossible
<1>2. CASE a = "InsertByte"
  BY <1>2 DEF MaxPossible
<1>3. CASE a = "InsertRepeatedBytes"
  <2> DEFINE l == InsertLimit(n)
  <2>1. l \in Nat
    BY SmallerProperty DEF InsertLimit
  <2> HIDE DEF l
  <2>2. (n + 1) * l \in Nat
    BY <2>1
  <2>3. ((n + 1) * l) * (l + 1) \in Nat
    BY <2>1, <2>2
  <2>4. (((n + 1) * l) * (l + 1)) \div 2 \in Nat
    BY <2>3
  <2>5. ((((n + 1) * l) * (l + 1)) \div 2) * Bytes \in Nat
    BY <2>4
  <2> QED BY <1>3, <2>5 DEF MaxPossible, l
<1>4. CASE a = "ChangeByte" \/ a = "ChangeBit"
  BY <1>4 DEF MaxPossible
<1>5. CASE a = "CopyPart"
  <2> DEFINE l == Smaller(n, MaxSize - n)
  <2>1. l \in Nat /\ (l = 0 => n = 0 \/ n = MaxSize)
    BY SmallerProperty
  <2> HIDE DEF l
  <2>2. n * n \in Nat /\ (n * n = 0 => n = 0)
    OBVIOUS
  <2>3. (n * n) * l \in Nat /\ ((n * n) * l = 0 => n = 0 \/ l = 0)
    BY <2>1, <2>2
  <2> QED BY <1>5, <2>1, <2>3 DEF MaxPossible, l
<1> QED BY <1>1, <1>2, <1>3, <1>4, <1>5 DEF Enumerating

\* A set-up grants a number of tries.
LEMMA GrantedProperty ==
  ASSUME NEW a \in Actions, NEW n \in 0..MaxSize, NEW energy \in Nat
  PROVE  Granted(a, n, energy) \in Nat
BY MutatorAssumption, MaxPossibleProperty, SmallerProperty DEF Granted

\* The remainder is below the divisor.
LEMMA RemainderProperty ==
  ASSUME NEW m \in Nat, NEW n \in Nat \ {0}
  PROVE  m % n \in 0..(n - 1)
OBVIOUS

-----------------------------------------------------------------------------
(* Lemmas about the cursor.                                                *)

\* The bound of the repeated insertions fits the input when the set-up grants.
LEMMA InsertLimitProperty ==
  ASSUME NEW n \in 0..MaxSize, ~Refused("InsertRepeatedBytes", n)
  PROVE  InsertLimit(n) \in MinInsert..InsertCap /\ n + InsertLimit(n) <= MaxSize
BY MutatorAssumption DEF Refused, InsertLimit, Smaller

\* What InRange says of each action.
LEMMA InRangeProperty ==
  ASSUME NEW n \in 0..MaxSize, NEW c \in Cursor, NEW m \in Nat
  PROVE  /\ InRange("EraseBytes", n, c, m) <=> c.size + c.index <= n
         /\ InRange("InsertByte", n, c, m) <=> c.index <= n
         /\ InRange("InsertRepeatedBytes", n, c, m) <=>
              c.index <= n /\ c.size \in 1..m /\ n + c.size <= MaxSize
         /\ InRange("ChangeByte", n, c, m) <=> c.index < n
         /\ InRange("ChangeBit", n, c, m) <=> c.index < n
         /\ InRange("CopyPart", n, c, m) <=> c.index <= n /\ c.index2 <= n /\ c.size <= n
         /\ \A a \in Actions \ Enumerating : InRange(a, n, c, m)
BY DEF InRange, Enumerating

\* The fields of a cursor.
LEMMA CursorFields ==
  ASSUME NEW c \in Cursor
  PROVE  /\ c.index \in Nat /\ c.index2 \in Nat /\ c.size \in Nat
         /\ c.byte \in 0..(Bytes - 1)
         /\ c.shift \in 0..(Bits - 1)
         /\ c.replace \in 0..1
BY DEF Cursor

\* A set-up that covers every edit starts on the input.
LEMMA FirstCursorFits ==
  ASSUME NEW a \in Enumerating, NEW n \in 0..MaxSize, NEW c \in Cursor, ~Refused(a, n)
  PROVE  FirstCursor(a, c) \in Cursor /\ InRange(a, n, FirstCursor(a, c), InsertLimit(n))
<1> DEFINE f == FirstCursor(a, c)
<1> HIDE DEF f
<1>0. InsertLimit(n) \in Nat /\ n \in Nat /\ 0 \in 0..(Bytes - 1) /\ 0 \in 0..(Bits - 1)
  BY MutatorAssumption, SmallerProperty DEF InsertLimit
<1>1. CASE a = "EraseBytes"
  <2>1. f = [c EXCEPT !.index = 0, !.size = 0]
    BY <1>1 DEF FirstCursor, f
  <2>2. f \in Cursor
    BY <2>1 DEF Cursor
  <2>3. f.size = 0 /\ f.index = 0
    BY <2>1 DEF Cursor
  <2> QED BY <1>0, <1>1, <2>2, <2>3, InRangeProperty DEF f
<1>2. CASE a = "InsertByte"
  <2>1. f = [c EXCEPT !.index = 0, !.byte = 0]
    BY <1>2 DEF FirstCursor, f
  <2>2. f \in Cursor
    BY <1>0, <2>1 DEF Cursor
  <2>3. f.index = 0
    BY <2>1 DEF Cursor
  <2> QED BY <1>0, <1>2, <2>2, <2>3, InRangeProperty DEF f
<1>3. CASE a = "InsertRepeatedBytes"
  <2>1. f = [c EXCEPT !.index = 0, !.byte = 0, !.size = 1]
    BY <1>3 DEF FirstCursor, f
  <2>2. f \in Cursor
    BY <1>0, <2>1 DEF Cursor
  <2>3. f.index = 0 /\ f.size = 1
    BY <2>1 DEF Cursor
  <2>4. InsertLimit(n) >= 1 /\ n + InsertLimit(n) <= MaxSize
    BY <1>3, InsertLimitProperty, MutatorAssumption
  <2>5. f.index <= n /\ f.size \in 1..InsertLimit(n) /\ n + f.size <= MaxSize
    BY <1>0, <2>3, <2>4, MutatorAssumption
  <2> QED BY <1>0, <1>3, <2>2, <2>5, InRangeProperty DEF f
<1>4. CASE a \in {"ChangeByte", "ChangeBit"}
  <2>1. /\ a = "ChangeByte" => f = [c EXCEPT !.index = 0, !.byte = 0]
        /\ a = "ChangeBit" => f = [c EXCEPT !.index = 0, !.shift = 0]
    BY <1>4 DEF FirstCursor, f
  <2>2. f \in Cursor
    <3>1. CASE a = "ChangeByte"
      <4>1. f = [c EXCEPT !.index = 0, !.byte = 0]
        BY <2>1, <3>1
      <4> QED BY <1>0, <4>1 DEF Cursor
    <3>2. CASE a = "ChangeBit"
      <4>1. f = [c EXCEPT !.index = 0, !.shift = 0]
        BY <2>1, <3>2
      <4> QED BY <1>0, <4>1 DEF Cursor
    <3> QED BY <1>4, <3>1, <3>2
  <2>3. f.index = 0
    BY <1>4, <2>1 DEF Cursor
  <2>4. n > 0
    BY <1>0, <1>4 DEF Refused
  <2> QED BY <1>0, <1>4, <2>2, <2>3, <2>4, InRangeProperty DEF f
<1>5. CASE a = "CopyPart"
  <2>1. f = [c EXCEPT !.index = 0, !.index2 = 0, !.size = 1]
    BY <1>5 DEF FirstCursor, f
  <2>2. f \in Cursor
    BY <2>1 DEF Cursor
  <2>3. f.index = 0 /\ f.index2 = 0 /\ f.size = 1
    BY <2>1 DEF Cursor
  <2>4. n > 0
    BY <1>0, <1>5 DEF Refused
  <2> QED BY <1>0, <1>5, <2>2, <2>3, <2>4, InRangeProperty DEF f
<1> QED BY <1>1, <1>2, <1>3, <1>4, <1>5 DEF Enumerating

\* So does every set-up that draws its cursor.
LEMMA RandomStartFits ==
  ASSUME cur \in Cursor, NEW a \in Enumerating, NEW n \in 0..MaxSize, ~Refused(a, n),
         StartAtRandom(a, n)
  PROVE  (cur \in Cursor)' /\ InRange(a, n, cur', InsertLimit(n))
<1>0. InsertLimit(n) \in Nat /\ n \in Nat
  BY MutatorAssumption, SmallerProperty DEF InsertLimit
<1>1. CASE a = "EraseBytes"
  <2>1. PICK s \in Draw(n \div 2) : \E i \in Draw(n - s) :
           cur' = [cur EXCEPT !.size = s + 1, !.index = i]
    BY <1>1 DEF StartAtRandom
  <2>2. PICK i \in Draw(n - s) : cur' = [cur EXCEPT !.size = s + 1, !.index = i]
    BY <2>1
  <2>3. n > 0 /\ n \div 2 \in Nat /\ n \div 2 < n
    BY <1>0, <1>1 DEF Refused
  <2>4. s \in Nat /\ s + 1 \in Nat /\ s < n
    BY <1>0, <2>3, DrawProperty
  <2>5. i \in Nat /\ i < n - s
    BY <1>0, <2>4, DrawProperty
  <2>6. cur' \in Cursor
    BY <2>2, <2>4, <2>5 DEF Cursor
  <2>7. cur'.size = s + 1 /\ cur'.index = i
    BY <2>2 DEF Cursor
  <2>8. cur'.size + cur'.index <= n
    BY <1>0, <2>4, <2>5, <2>7
  <2> QED BY <1>0, <1>1, <2>6, <2>8, InRangeProperty
<1>2. CASE a = "InsertByte"
  <2>1. PICK i \in Draw(n + 1), b \in Draw(Bytes) : cur' = [cur EXCEPT !.index = i, !.byte = b]
    BY <1>2 DEF StartAtRandom
  <2>2. i \in Nat /\ i <= n /\ b \in 0..(Bytes - 1)
    BY <1>0, MutatorAssumption DEF Draw
  <2>3. cur' \in Cursor
    BY <2>1, <2>2 DEF Cursor
  <2>4. cur'.index = i
    BY <2>1 DEF Cursor
  <2> QED BY <1>0, <1>2, <2>2, <2>3, <2>4, InRangeProperty
<1>3. CASE a = "InsertRepeatedBytes"
  <2> DEFINE l == InsertLimit(n)
  <2>1. PICK i \in Draw(n + 1), b \in Draw(Bytes), s \in Draw(l - MinInsert + 1) :
           cur' = [cur EXCEPT !.index = i, !.byte = b, !.size = MinInsert + s]
    BY <1>3 DEF StartAtRandom
  <2>2. l \in MinInsert..InsertCap /\ n + l <= MaxSize
    BY <1>3, InsertLimitProperty
  <2> HIDE DEF l
  <2>3. i \in Nat /\ i <= n /\ b \in 0..(Bytes - 1)
    BY <1>0, MutatorAssumption DEF Draw
  <2>4. s \in Nat /\ MinInsert + s \in Nat /\ MinInsert + s <= l
    <3>1. l - MinInsert + 1 \in Nat \ {0}
      BY <2>2, MutatorAssumption
    <3>2. s \in Nat /\ s < l - MinInsert + 1
      BY <3>1, DrawProperty
    <3> QED BY <2>2, <3>2, MutatorAssumption
  <2>5. cur' \in Cursor
    BY <2>1, <2>3, <2>4 DEF Cursor
  <2>6. cur'.index = i /\ cur'.size = MinInsert + s
    BY <2>1 DEF Cursor
  <2>7. cur'.index <= n /\ cur'.size \in 1..l /\ n + cur'.size <= MaxSize
    BY <1>0, <2>2, <2>3, <2>4, <2>6, MutatorAssumption
  <2> QED BY <1>0, <1>3, <2>5, <2>7, InRangeProperty DEF l
<1>4. CASE a = "ChangeByte"
  <2>1. PICK i \in Draw(n), b \in Draw(Bytes) : cur' = [cur EXCEPT !.index = i, !.byte = b]
    BY <1>4 DEF StartAtRandom
  <2>2. i \in Nat /\ i < n /\ b \in 0..(Bytes - 1)
    BY <1>0, <1>4, MutatorAssumption DEF Draw, Refused
  <2>3. cur' \in Cursor
    BY <2>1, <2>2 DEF Cursor
  <2>4. cur'.index = i
    BY <2>1 DEF Cursor
  <2> QED BY <1>0, <1>4, <2>2, <2>3, <2>4, InRangeProperty
<1>5. CASE a = "ChangeBit"
  <2>1. PICK i \in Draw(n), h \in Draw(Bits) : cur' = [cur EXCEPT !.index = i, !.shift = h]
    BY <1>5 DEF StartAtRandom
  <2>2. i \in Nat /\ i < n /\ h \in 0..(Bits - 1)
    BY <1>0, <1>5, MutatorAssumption DEF Draw, Refused
  <2>3. cur' \in Cursor
    BY <2>1, <2>2 DEF Cursor
  <2>4. cur'.index = i
    BY <2>1 DEF Cursor
  <2> QED BY <1>0, <1>5, <2>2, <2>3, <2>4, InRangeProperty
<1>6. CASE a = "CopyPart"
  <2>1. PICK i \in Draw(n), j \in Draw(n) : \E s \in Draw(Smaller(n - i, MaxSize - n)) :
           cur' = [cur EXCEPT !.index = i, !.index2 = j, !.size = s]
    BY <1>6 DEF StartAtRandom
  <2>2. PICK s \in Draw(Smaller(n - i, MaxSize - n)) :
           cur' = [cur EXCEPT !.index = i, !.index2 = j, !.size = s]
    BY <2>1
  <2>3. i \in Nat /\ i < n /\ j \in Nat /\ j < n
    BY <1>0, <1>6 DEF Draw, Refused
  <2>4. s \in Nat /\ s <= n
    <3>1. Smaller(n - i, MaxSize - n) \in 0..n
      BY <1>0, <2>3, SmallerProperty, MutatorAssumption
    <3> QED BY <1>0, <3>1, DrawProperty
  <2>5. cur' \in Cursor
    BY <2>2, <2>3, <2>4 DEF Cursor
  <2>6. cur'.index = i /\ cur'.index2 = j /\ cur'.size = s
    BY <2>2 DEF Cursor
  <2> QED BY <1>0, <1>6, <2>3, <2>4, <2>5, <2>6, InRangeProperty
<1> QED BY <1>1, <1>2, <1>3, <1>4, <1>5, <1>6 DEF Enumerating

\* An edit that does not raise leaves a cursor, wherever it was.  It leaves the
\* cursor on the input if it was there and the set-up was not refused.
LEMMA AdvanceFits ==
  ASSUME NEW a \in Actions \cup {"none"}, NEW n \in 0..MaxSize, NEW c \in Cursor,
         NEW m \in 0..InsertCap, ~Raises(a, n, c, m)
  PROVE  /\ Advance(a, n, c, m) \in Cursor
         /\ /\ InRange(a, n, c, m) /\ ~Refused(a, n)
            /\ a = "InsertRepeatedBytes" => m >= MinInsert /\ n + m <= MaxSize
            => InRange(a, n, Advance(a, n, c, m), m)
<1> DEFINE d == Advance(a, n, c, m)
<1> HIDE DEF d
<1>0. /\ m \in Nat /\ n \in Nat
      /\ c.index \in Nat /\ c.index2 \in Nat /\ c.size \in Nat
      /\ c.index + 1 \in Nat /\ c.index2 + 1 \in Nat /\ c.size + 1 \in Nat
      /\ c.byte + 1 \in Nat
      /\ c.byte + 1 # Bytes => c.byte + 1 \in 0..(Bytes - 1)
      /\ c.shift + 1 # Bits => c.shift + 1 \in 0..(Bits - 1)
      /\ 0 \in 0..(Bytes - 1) /\ 0 \in 0..(Bits - 1)
      /\ MinInsert \in Nat
  BY MutatorAssumption DEF Cursor
<1>1. CASE a = "EraseBytes"
  <2> DEFINE k == IF c.size + 1 > n THEN 1 ELSE c.size + 1
  <2>1. k \in Nat /\ (n > 0 => k <= n)
    BY <1>0
  <2> HIDE DEF k
  <2>2. ~Refused(a, n) => n > 0
    BY <1>0, <1>1 DEF Refused
  <2>3. d = AdvanceErase(n, c)
    BY <1>1 DEF Advance, d
  <2>4. CASE c.index + 1 + c.size <= n
    <3>1. d = [c EXCEPT !.index = c.index + 1]
      BY <2>3, <2>4 DEF AdvanceErase
    <3>2. d \in Cursor
      BY <1>0, <3>1 DEF Cursor
    <3>3. d.index = c.index + 1 /\ d.size = c.size
      BY <3>1 DEF Cursor
    <3> QED BY <1>0, <1>1, <2>4, <3>2, <3>3, InRangeProperty DEF d
  <2>5. CASE ~(c.index + 1 + c.size <= n)
    <3>1. d = [c EXCEPT !.index = 0, !.size = k]
      BY <2>3, <2>5 DEF AdvanceErase, k
    <3>2. d \in Cursor
      BY <2>1, <3>1 DEF Cursor
    <3>3. d.index = 0 /\ d.size = k
      BY <3>1 DEF Cursor
    <3> QED BY <1>0, <1>1, <2>1, <2>2, <3>2, <3>3, InRangeProperty DEF d
  <2> QED BY <2>4, <2>5
<1>2. CASE a = "InsertByte"
  <2> DEFINE b == (c.byte + 1) % Bytes
  <2>1. b \in 0..(Bytes - 1)
    BY <1>0, RemainderProperty, MutatorAssumption
  <2> HIDE DEF b
  <2>2. d = AdvanceInsert(n, c)
    BY <1>2 DEF Advance, d
  <2>3. CASE c.index + 1 <= n
    <3>1. d = [c EXCEPT !.index = c.index + 1]
      BY <2>2, <2>3 DEF AdvanceInsert
    <3>2. d \in Cursor
      BY <1>0, <3>1 DEF Cursor
    <3>3. d.index = c.index + 1
      BY <3>1 DEF Cursor
    <3> QED BY <1>0, <1>2, <2>3, <3>2, <3>3, InRangeProperty DEF d
  <2>4. CASE ~(c.index + 1 <= n)
    <3>1. d = [c EXCEPT !.index = 0, !.byte = b]
      BY <2>2, <2>4 DEF AdvanceInsert, b
    <3>2. d \in Cursor
      BY <2>1, <3>1 DEF Cursor
    <3>3. d.index = 0
      BY <3>1 DEF Cursor
    <3> QED BY <1>0, <1>2, <3>2, <3>3, InRangeProperty DEF d
  <2> QED BY <2>3, <2>4
<1>3. CASE a = "InsertRepeatedBytes"
  <2> DEFINE k == IF c.size + 1 > m THEN MinInsert ELSE c.size + 1
  <2>1. k \in Nat /\ (m >= MinInsert => k <= m) /\ k >= 1
    BY <1>0, MutatorAssumption
  <2> HIDE DEF k
  <2>0. d = AdvanceRepeated(n, c, m)
    BY <1>3 DEF Advance, d
  <2>2. \/ c.byte + 1 # Bytes /\ d = [c EXCEPT !.byte = c.byte + 1]
        \/ c.index + 1 <= n /\ d = [c EXCEPT !.byte = 0, !.index = c.index + 1]
        \/ d = [c EXCEPT !.byte = 0, !.index = 0, !.size = k]
    BY <2>0 DEF AdvanceRepeated, k
  <2>3. d \in Cursor
    <3>1. CASE c.byte + 1 # Bytes /\ d = [c EXCEPT !.byte = c.byte + 1]
      BY <1>0, <3>1 DEF Cursor
    <3>2. CASE d = [c EXCEPT !.byte = 0, !.index = c.index + 1]
      BY <1>0, <3>2 DEF Cursor
    <3>3. CASE d = [c EXCEPT !.byte = 0, !.index = 0, !.size = k]
      BY <1>0, <2>1, <3>3 DEF Cursor
    <3> QED BY <2>2, <3>1, <3>2, <3>3
  <2>4. \/ d.index = c.index /\ d.size = c.size
        \/ c.index + 1 <= n /\ d.index = c.index + 1 /\ d.size = c.size
        \/ d.index = 0 /\ d.size = k
    BY <2>2 DEF Cursor
  <2>5. ASSUME c.index <= n, c.size \in 1..m, n + c.size <= MaxSize,
               m >= MinInsert, n + m <= MaxSize
        PROVE  d.index <= n /\ d.size \in 1..m /\ n + d.size <= MaxSize
    BY <1>0, <2>1, <2>4, <2>5, MutatorAssumption
  <2> QED BY <1>0, <1>3, <2>3, <2>5, InRangeProperty DEF d
<1>4. CASE a = "ChangeByte"
  <2> DEFINE i == (c.index + 1) % n
  <2>1. c.index < n
    BY <1>0, <1>4 DEF Raises
  <2>2. i \in 0..(n - 1)
    <3>1. n \in Nat \ {0}
      BY <1>0, <2>1
    <3> QED BY <1>0, <3>1, RemainderProperty
  <2> HIDE DEF i
  <2>3. i \in Nat /\ i < n
    BY <1>0, <2>2
  <2>4. \/ c.byte + 1 # Bytes /\ d = [c EXCEPT !.byte = c.byte + 1]
        \/ d = [c EXCEPT !.byte = 0, !.index = i]
    BY <1>4 DEF Advance, AdvanceByte, d, i
  <2>5. d \in Cursor
    BY <1>0, <2>3, <2>4 DEF Cursor
  <2>6. d.index = c.index \/ d.index = i
    BY <2>4 DEF Cursor
  <2> QED BY <1>0, <1>4, <2>1, <2>3, <2>5, <2>6, InRangeProperty DEF d
<1>5. CASE a = "ChangeBit"
  <2> DEFINE i == (c.index + 1) % n
  <2>1. c.index < n
    BY <1>0, <1>5 DEF Raises
  <2>2. i \in 0..(n - 1)
    <3>1. n \in Nat \ {0}
      BY <1>0, <2>1
    <3> QED BY <1>0, <3>1, RemainderProperty
  <2> HIDE DEF i
  <2>3. i \in Nat /\ i < n
    BY <1>0, <2>2
  <2>4. \/ c.shift + 1 # Bits /\ d = [c EXCEPT !.shift = c.shift + 1]
        \/ d = [c EXCEPT !.shift = 0, !.index = i]
    BY <1>5 DEF Advance, AdvanceBit, d, i
  <2>5. d \in Cursor
    BY <1>0, <2>3, <2>4 DEF Cursor
  <2>6. d.index = c.index \/ d.index = i
    BY <2>4 DEF Cursor
  <2> QED BY <1>0, <1>5, <2>1, <2>3, <2>5, <2>6, InRangeProperty DEF d
<1>6. CASE a = "CopyPart"
  <2> DEFINE l == Smaller(n, MaxSize - n)
             r == (c.size + 1) % l
  <2>1. l \in Nat /\ l <= n
    <3>1. MaxSize - n \in Nat
      BY <1>0, MutatorAssumption
    <3> QED BY <1>0, <3>1, SmallerProperty
  <2>2. c.replace # 0 /\ ~(c.index2 + 1 <= n) /\ ~(c.index + 1 + c.size <= n) => l # 0
    <3>1. c.replace # 0 => c.replace = 1
      BY DEF Cursor
    <3>2. ~(c.index2 + 1 <= n) => c.index2 + 1 > n
      BY <1>0
    <3>3. ~(c.index + 1 + c.size <= n) => c.index + 1 + c.size > n
      BY <1>0
    <3> QED BY <1>6, <3>1, <3>2, <3>3 DEF Raises
  <2> HIDE DEF l
  <2>3. l # 0 => r \in 0..(l - 1)
    BY <1>0, <2>1, RemainderProperty
  <2>4. l # 0 => r \in Nat /\ r <= n
    <3> HIDE DEF r
    <3> QED BY <1>0, <2>1, <2>3
  <2> HIDE DEF r
  <2>0. d = AdvanceCopy(n, c)
    BY <1>6 DEF Advance, d
  <2>5. \/ d = [c EXCEPT !.replace = 1]
        \/ c.index2 + 1 <= n /\ d = [c EXCEPT !.replace = 0, !.index2 = c.index2 + 1]
        \/ /\ c.index + 1 + c.size <= n
           /\ d = [c EXCEPT !.replace = 0, !.index2 = 0, !.index = c.index + 1]
        \/ l # 0 /\ d = [c EXCEPT !.replace = 0, !.index2 = 0, !.index = 0, !.size = r]
    BY <2>2, <2>0 DEF AdvanceCopy, l, r
  <2>6. d \in Cursor
    <3> 0 \in 0..1 /\ 1 \in 0..1
      OBVIOUS
    <3>1. CASE d = [c EXCEPT !.replace = 1]
      BY <3>1 DEF Cursor
    <3>2. CASE d = [c EXCEPT !.replace = 0, !.index2 = c.index2 + 1]
      BY <1>0, <3>2 DEF Cursor
    <3>3. CASE d = [c EXCEPT !.replace = 0, !.index2 = 0, !.index = c.index + 1]
      BY <1>0, <3>3 DEF Cursor
    <3>4. CASE l # 0 /\ d = [c EXCEPT !.replace = 0, !.index2 = 0, !.index = 0, !.size = r]
      BY <2>4, <3>4 DEF Cursor
    <3> QED BY <2>5, <3>1, <3>2, <3>3, <3>4
  <2>7. \/ d.index = c.index /\ d.index2 = c.index2 /\ d.size = c.size
        \/ c.index2 + 1 <= n /\ d.index = c.index /\ d.index2 = c.index2 + 1 /\ d.size = c.size
        \/ c.index + 1 + c.size <= n /\ d.index = c.index + 1 /\ d.index2 = 0 /\ d.size = c.size
        \/ l # 0 /\ d.index = 0 /\ d.index2 = 0 /\ d.size = r
    BY <2>5 DEF Cursor
  <2>8. c.index <= n /\ c.index2 <= n /\ c.size <= n =>
          d.index <= n /\ d.index2 <= n /\ d.size <= n
    BY <1>0, <2>4, <2>7
  <2> QED BY <1>0, <1>6, <2>6, <2>8, InRangeProperty DEF d
<1>7. CASE a \notin Enumerating
  <2>1. d = c
    BY <1>7 DEF Advance, Enumerating, d
  <2> QED BY <2>1 DEF d
<1> QED BY <1>1, <1>2, <1>3, <1>4, <1>5, <1>6, <1>7 DEF Enumerating

-----------------------------------------------------------------------------
(* The invariant holds initially and every action preserves it.            *)

\* Nothing is set up at first.
LEMMA InitInvariant == Init => IInv
<1> SUFFICES ASSUME Init PROVE IInv
  OBVIOUS
<1>1. 0 \in 0..(Bytes - 1) /\ 0 \in 0..(Bits - 1) /\ 0 \in 0..1 /\ 0 \in 0..MaxSize /\ 0 \in 0..InsertCap
  BY MutatorAssumption
<1>2. cur \in Cursor
  BY <1>1 DEF Init, Cursor
<1>3. TypeOK
  BY <1>1, <1>2 DEF Init, TypeOK
<1>4. CursorInv
  BY DEF Init, CursorInv, Granting
<1> QED BY <1>3, <1>4 DEF Init, IInv, RaisesOnlyWhen

\* What a set-up leaves behind: a cursor, and a bound, that fit the input.
LEMMA SetupProperty ==
  ASSUME IInv, NEW a \in Actions, NEW n \in 0..MaxSize, NEW energy \in Nat, Setup(a, n, energy)
  PROVE  /\ cur' \in Cursor
         /\ insertMax' \in 0..InsertCap
         /\ full' \in BOOLEAN /\ raised' \in BOOLEAN
         /\ ~Refused(a, n) => InRange(a, n, cur', insertMax')
         /\ ~Refused(a, n) /\ a = "InsertRepeatedBytes" =>
              insertMax' >= MinInsert /\ n + insertMax' <= MaxSize
         /\ raised' => a = "CopyPart" /\ n = MaxSize
<1>0. /\ cur \in Cursor /\ insertMax \in 0..InsertCap /\ n \in Nat
      /\ InsertLimit(n) \in Nat
  BY MutatorAssumption, SmallerProperty DEF IInv, TypeOK, InsertLimit
<1>1. insertMax' \in 0..InsertCap
  <2>1. CASE a = "InsertRepeatedBytes" /\ ~Refused(a, n)
    <3>1. insertMax' = InsertLimit(n)
      BY <2>1 DEF Setup
    <3>2. InsertLimit(n) \in MinInsert..InsertCap
      BY <2>1, InsertLimitProperty
    <3> QED BY <1>0, <3>1, <3>2, MutatorAssumption
  <2>2. CASE ~(a = "InsertRepeatedBytes" /\ ~Refused(a, n))
    BY <1>0, <2>2 DEF Setup
  <2> QED BY <2>1, <2>2
<1>2. ~Refused(a, n) /\ a = "InsertRepeatedBytes" =>
        /\ insertMax' = InsertLimit(n)
        /\ insertMax' >= MinInsert /\ n + insertMax' <= MaxSize
  <2> SUFFICES ASSUME ~Refused(a, n), a = "InsertRepeatedBytes"
               PROVE  /\ insertMax' = InsertLimit(n)
                      /\ insertMax' >= MinInsert /\ n + insertMax' <= MaxSize
    OBVIOUS
  <2>1. insertMax' = InsertLimit(n)
    BY DEF Setup
  <2> QED BY <1>0, <2>1, InsertLimitProperty, MutatorAssumption
<1>3. cur' \in Cursor /\ (~Refused(a, n) => InRange(a, n, cur', insertMax'))
  <2>1. CASE Refused(a, n)
    <3>1. cur' = cur
      BY <2>1 DEF Setup
    <3> QED BY <1>0, <2>1, <3>1
  <2>2. CASE a \notin Enumerating
    <3>1. cur' = cur
      BY <2>2 DEF Setup
    <3>2. InRange(a, n, cur', insertMax')
      BY <2>2 DEF InRange, Enumerating
    <3> QED BY <1>0, <3>1, <3>2
  <2>3. CASE a \in Enumerating /\ ~Refused(a, n)
    <3>1. cur' \in Cursor /\ InRange(a, n, cur', InsertLimit(n))
      <4>1. CASE full'
        <5>1. cur' = FirstCursor(a, cur)
          BY <2>3, <4>1 DEF Setup
        <5> QED BY <1>0, <2>3, <5>1, FirstCursorFits
      <4>2. CASE ~full'
        <5>1. StartAtRandom(a, n)
          BY <2>3, <4>2 DEF Setup
        <5> QED BY <1>0, <2>3, <5>1, RandomStartFits
      <4> QED BY <4>1, <4>2
    <3>2. InRange(a, n, cur', insertMax')
      <4>1. CASE a = "InsertRepeatedBytes"
        BY <1>2, <2>3, <3>1, <4>1
      <4>2. CASE a # "InsertRepeatedBytes"
        BY <3>1, <4>2 DEF InRange
      <4> QED BY <4>1, <4>2
    <3> QED BY <3>1, <3>2
  <2> QED BY <2>1, <2>2, <2>3
<1>4. full' \in BOOLEAN
  BY DEF Setup
<1>5. raised' \in BOOLEAN
  BY DEF Setup, SetupRaises
<1>6. raised' => a = "CopyPart" /\ n = MaxSize
  <2> SUFFICES ASSUME raised' PROVE a = "CopyPart" /\ n = MaxSize
    OBVIOUS
  <2>1. a = "CopyPart" /\ n > 0 /\ MaxPossible(a, n) = 0
    BY DEF Setup, SetupRaises
  <2>2. a \in Enumerating
    BY <2>1 DEF Enumerating
  <2> QED BY <1>0, <2>1, <2>2, MaxPossibleProperty
<1> QED BY <1>1, <1>2, <1>3, <1>4, <1>5, <1>6

\* run_action keeps the invariant: what it grants, it grants on a fresh cursor.
LEMMA RunActionInvariant ==
  ASSUME IInv, NEW a \in Actions, NEW n \in 0..MaxSize, NEW energy \in Energies,
         RunAction(a, n, energy)
  PROVE  IInv'
<1>0. energy \in Nat /\ Setup(a, n, energy) /\ action' = a /\ size' = n /\ probing' = FALSE
  BY MutatorAssumption DEF RunAction, Setup
<1>1. left' \in Nat /\ (left' > 0 => ~Refused(a, n))
  BY <1>0, GrantedProperty DEF RunAction
<1>2. TypeOK'
  BY <1>0, <1>1, SetupProperty DEF TypeOK
<1>3. CursorInv'
  BY <1>0, <1>1, SetupProperty DEF CursorInv, Granting
<1>4. RaisesOnlyWhen'
  BY <1>0, SetupProperty DEF RaisesOnlyWhen
<1> QED BY <1>2, <1>3, <1>4 DEF IInv

\* A probe's set-up keeps the invariant, refused or not.
LEMMA ProbeInvariant ==
  ASSUME IInv, NEW a \in Actions, NEW n \in 0..MaxSize, Probe(a, n)
  PROVE  IInv'
<1>0. Setup(a, n, 1) /\ action' = a /\ size' = n /\ probing' = TRUE /\ left' = 1
  BY DEF Probe, Setup
<1>1. TypeOK'
  BY <1>0, SetupProperty DEF TypeOK
<1>2. CursorInv'
  BY <1>0, SetupProperty DEF CursorInv, Granting
<1>3. RaisesOnlyWhen'
  BY <1>0, SetupProperty DEF RaisesOnlyWhen
<1> QED BY <1>1, <1>2, <1>3 DEF IInv

\* An index or a divisor is rejected in one case, or after a refused set-up.
LEMMA RaisesProperty ==
  ASSUME IInv, left > 0, ~raised, Raises(action, size, cur, insertMax)
  PROVE  \/ action = "CopyPart" /\ size = MaxSize
         \/ probing /\ Refused(action, size)
<1>0. /\ size \in 0..MaxSize /\ size \in Nat /\ cur \in Cursor
      /\ insertMax \in 0..InsertCap /\ insertMax \in Nat
  BY MutatorAssumption DEF IInv, TypeOK
<1>1. CASE Refused(action, size)
  BY <1>1 DEF IInv, CursorInv, TypeOK
<1>2. CASE ~Refused(action, size)
  <2>1. InRange(action, size, cur, insertMax)
    BY <1>2 DEF IInv, CursorInv, Granting
  <2>2. CASE action \in {"ChangeByte", "ChangeBit"}
    <3>1. cur.index < size
      BY <1>0, <2>1, <2>2, InRangeProperty
    <3>2. cur.index >= size
      BY <2>2 DEF Raises
    <3> QED BY <1>0, <3>1, <3>2, CursorFields
  <2>3. CASE action = "InsertRepeatedBytes"
    <3>1. insertMax >= MinInsert
      BY <1>2, <2>3 DEF IInv, CursorInv, Granting
    <3>2. insertMax = 0
      BY <2>3 DEF Raises
    <3> QED BY <3>1, <3>2, MutatorAssumption
  <2>4. CASE action = "CopyPart"
    <3>1. Smaller(size, MaxSize - size) = 0
      BY <2>4 DEF Raises
    <3>2. size # 0
      BY <1>2, <2>4 DEF Refused
    <3>3. MaxSize - size \in Nat
      BY <1>0, MutatorAssumption
    <3>4. size = 0 \/ MaxSize - size = 0
      BY <1>0, <3>1, <3>3, SmallerProperty
    <3>5. size = MaxSize
      BY <1>0, <3>2, <3>4, MutatorAssumption
    <3> QED BY <2>4, <3>5
  <2>5. CASE action \notin {"ChangeByte", "ChangeBit", "InsertRepeatedBytes", "CopyPart"}
    BY <2>5 DEF Raises
  <2> QED BY <2>2, <2>3, <2>4, <2>5
<1> QED BY <1>1, <1>2

\* next() keeps the invariant, whether it makes an edit or raises.
LEMMA NextInputInvariant ==
  ASSUME IInv, NextInput
  PROVE  IInv'
<1>0. /\ action \in Actions \cup {"none"} /\ size \in 0..MaxSize /\ cur \in Cursor
      /\ insertMax \in 0..InsertCap /\ left \in Nat /\ left > 0 /\ ~raised
      /\ left' = left - 1 /\ left' \in Nat
      /\ UNCHANGED <<action, size, insertMax, probing, full>>
  BY DEF IInv, TypeOK, NextInput
<1>1. CASE /\ raised' = TRUE /\ cur' = cur
           /\ Raises(action, size, cur, insertMax) \/ NumberRefused(action, size)
  <2>1. raised' = TRUE /\ cur' = cur
    BY <1>1
  <2>2. TypeOK'
    BY <1>0, <2>1 DEF IInv, TypeOK
  <2>3. CursorInv'
    BY <1>0, <2>1 DEF IInv, CursorInv, Granting
  <2>4. RaisesOnlyWhen'
    BY <1>0, <1>1, RaisesProperty DEF RaisesOnlyWhen, NumberRefused
  <2> QED BY <2>2, <2>3, <2>4 DEF IInv
<1>2. CASE /\ raised' = FALSE /\ cur' = Advance(action, size, cur, insertMax)
           /\ ~Raises(action, size, cur, insertMax)
  <2>1. raised' = FALSE /\ cur' = Advance(action, size, cur, insertMax)
    BY <1>2
  <2>2. cur' \in Cursor
    BY <1>0, <1>2, <2>1, AdvanceFits
  <2>3. TypeOK'
    BY <1>0, <2>1, <2>2 DEF IInv, TypeOK
  <2>4. Granting' => InRange(action, size, cur', insertMax)
    <3> SUFFICES ASSUME Granting' PROVE InRange(action, size, cur', insertMax)
      OBVIOUS
    <3>1. Granting
      BY <1>0 DEF Granting
    <3>2. /\ InRange(action, size, cur, insertMax) /\ ~Refused(action, size)
          /\ action = "InsertRepeatedBytes" => insertMax >= MinInsert /\ size + insertMax <= MaxSize
      BY <3>1 DEF IInv, CursorInv, Granting
    <3> QED BY <1>0, <1>2, <2>1, <3>2, AdvanceFits
  <2>5. CursorInv'
    BY <1>0, <2>4 DEF IInv, CursorInv, Granting
  <2>6. RaisesOnlyWhen'
    BY <2>1 DEF RaisesOnlyWhen
  <2> QED BY <2>3, <2>5, <2>6 DEF IInv
<1> QED BY <1>1, <1>2 DEF NextInput

\* Giving the rest of a step up keeps the invariant.
LEMMA GiveUpInvariant ==
  ASSUME IInv, GiveUp
  PROVE  IInv'
<1>1. TypeOK'
  BY DEF IInv, TypeOK, GiveUp
<1>2. CursorInv'
  BY DEF CursorInv, Granting, GiveUp
<1>3. RaisesOnlyWhen'
  BY DEF GiveUp, RaisesOnlyWhen
<1> QED BY <1>1, <1>2, <1>3 DEF IInv

\* The inductive invariant of the mutator.
THEOREM Invariant == Spec => []IInv
<1>1. Init => IInv
  BY InitInvariant
<1>2. IInv /\ [Next]_vars => IInv'
  <2> SUFFICES ASSUME IInv, [Next]_vars PROVE IInv'
    OBVIOUS
  <2>1. ASSUME NEW a \in Actions, NEW n \in 0..MaxSize, NEW energy \in Energies,
               RunAction(a, n, energy)
        PROVE  IInv'
    BY <2>1, RunActionInvariant
  <2>2. ASSUME NEW a \in Actions, NEW n \in 0..MaxSize, Probe(a, n)
        PROVE  IInv'
    BY <2>2, ProbeInvariant
  <2>3. CASE NextInput
    BY <2>3, NextInputInvariant
  <2>4. CASE GiveUp
    BY <2>4, GiveUpInvariant
  <2>5. CASE UNCHANGED vars
    BY <2>5 DEF vars, IInv, TypeOK, CursorInv, Granting, RaisesOnlyWhen
  <2> QED BY <2>1, <2>2, <2>3, <2>4, <2>5 DEF Next
<1> QED BY <1>1, <1>2, PTL DEF Spec

-----------------------------------------------------------------------------
(* What follows from it.                                                   *)

\* Type correctness.
THEOREM TypeCorrect == Spec => []TypeOK
<1>1. IInv => TypeOK
  BY DEF IInv
<1> QED BY <1>1, Invariant, PTL

\* A full step works inside its input whatever cursor the step before it left
\* (fuzz_mutator_3.py 279-404), for every size, energy and number of bytes.
THEOREM CursorStaysInRange == Spec => []CursorInRange
<1>1. IInv => CursorInRange
  BY DEF IInv, CursorInv, Granting, CursorInRange
<1> QED BY <1>1, Invariant, PTL

\* The only exceptions are those of CopyPart on an input of the maximal length,
\* of ChangeASCIIInteger on an input whose length is taken for a digit, and of a
\* probe that goes on after a refusal (fuzz_mutator_3.py 168-181, 247-274, 398).
THEOREM OnlyTheseRaise == Spec => []RaisesOnlyWhen
<1>1. IInv => RaisesOnlyWhen
  BY DEF IInv
<1> QED BY <1>1, Invariant, PTL
=============================================================================
