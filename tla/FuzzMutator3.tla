---------------------------- MODULE FuzzMutator3 ----------------------------
(***************************************************************************)
(* The mutator of fuzz_mutator_3.py.  run_action sets a cursor up for one  *)
(* action on one input and grants a number of tries; each next() makes the *)
(* edit under the cursor and advances it.  The cursor fields (tmpIndex,    *)
(* tmpIndex2, tmpSize, tmpByte, tmpShift, replace) are shared by all the   *)
(* actions, and a refused set-up leaves them as the previous action did.   *)
(*                                                                         *)
(* The driver is CTFuzz2Env.step_raw: a full step calls next() as often as *)
(* it was granted; a probe calls it once whatever run_action returned.     *)
(* Inputs are known by their length.                                       *)
(***************************************************************************)
EXTENDS Integers

CONSTANTS MaxSize,      \* self.maxSize
          Bytes,        \* number of byte values: 256
          Bits,         \* bits of a byte: 8
          InsertCap,    \* the 128 of Setup_InsertRepeatedBytes
          MinInsert,    \* kMinBytesToInsert
          FixedTries,   \* the 2000 tries granted to inputs of at most SmallSize
          SmallSize,    \* bytes: 8
          DigitCodes,   \* the lengths that isdigit(data_size) takes for a digit: 48..57
          Energies      \* the energies that a step may ask for

ASSUME MutatorAssumption ==
  /\ MaxSize \in Nat \ {0}
  /\ Bytes \in Nat \ {0}
  /\ Bits \in Nat \ {0}
  /\ InsertCap \in Nat
  /\ MinInsert \in 1..InsertCap
  /\ FixedTries \in Nat
  /\ SmallSize \in Nat
  /\ DigitCodes \subseteq Nat \ {0, 1}
  /\ Energies \subseteq Nat \ {0}

Actions == {"EraseBytes", "InsertByte", "InsertRepeatedBytes", "ChangeByte", "ChangeBit",
            "ShuffleBytes", "ChangeASCIIInteger", "ChangeBinaryInteger", "CopyPart"}

VARIABLES action,     \* tmpAction, or "none"
          size,       \* len(tmpData)
          cur,        \* the cursor fields
          insertMax,  \* MaxBytesToInsert, 0 while it does not exist
          probing,    \* the step is a probe
          left,       \* calls of next() the step still makes
          full,       \* the set-up found that the energy covers every edit
          produced,   \* history: the edits of a full step so far
          raised      \* an exception ended the step

vars == <<action, size, cur, insertMax, probing, left, full, produced, raised>>

Smaller(m, n) == IF m < n THEN m ELSE n

Draw(n) == IF n = 0 THEN {0} ELSE 0..(n - 1)       \* Rand(n)

-----------------------------------------------------------------------------
(* The set-ups.                                                            *)

\* Fault: nothing refuses an empty input but EraseBytes.
RefusedUnlessEmpty(a, n) ==
  CASE a = "EraseBytes" -> n = 0
    [] a = "InsertByte" -> n >= MaxSize
    [] a = "InsertRepeatedBytes" -> n + MinInsert > MaxSize
    [] OTHER -> FALSE

Refused(a, n) ==
  CASE a = "EraseBytes" -> n = 0
    [] a = "InsertByte" -> n >= MaxSize
    [] a = "InsertRepeatedBytes" -> n + MinInsert > MaxSize
    [] a = "ChangeBinaryInteger" -> FALSE
    [] OTHER -> n > MaxSize \/ n = 0

\* The actions that enumerate their edits, and the number of edits claimed.
Enumerating == {"EraseBytes", "InsertByte", "InsertRepeatedBytes", "ChangeByte", "ChangeBit",
                "CopyPart"}

InsertLimit(n) == Smaller(MaxSize - n, InsertCap)

MaxPossible(a, n) ==
  CASE a = "EraseBytes" -> (n * (n + 1)) \div 2
    [] a = "InsertByte" -> (n + 1) * Bytes
    [] a = "InsertRepeatedBytes" ->
         (((n + 1) * InsertLimit(n) * (InsertLimit(n) + 1)) \div 2) * Bytes
    [] a = "ChangeByte" -> n * Bytes
    [] a = "ChangeBit" -> n * Bits
    [] a = "CopyPart" -> n * n * Smaller(n, MaxSize - n)

\* The tries granted by a set-up that is not refused.
Granted(a, n, energy) ==
  IF a \in Enumerating THEN Smaller(energy, MaxPossible(a, n))
  ELSE IF a # "ChangeBinaryInteger" /\ n <= SmallSize THEN FixedTries
  ELSE energy

\* Fault: a full step goes on from the cursor of the previous one.
StaleCursor(a, c) == c

\* The first cursor when every edit can be tried ...
FirstCursor(a, c) ==
  CASE a = "EraseBytes" -> [c EXCEPT !.index = 0, !.size = 0]
    [] a = "InsertByte" -> [c EXCEPT !.index = 0, !.byte = 0]
    [] a = "InsertRepeatedBytes" -> [c EXCEPT !.index = 0, !.byte = 0, !.size = 1]
    [] a = "ChangeByte" -> [c EXCEPT !.index = 0, !.byte = 0]
    [] a = "ChangeBit" -> [c EXCEPT !.index = 0, !.shift = 0]
    [] a = "CopyPart" -> [c EXCEPT !.index = 0, !.index2 = 0, !.size = 1]

\* ... and the draws that set it up otherwise.
StartAtRandom(a, n) ==
  CASE a = "EraseBytes" ->
         \E s \in Draw(n \div 2) : \E i \in Draw(n - s) :
           cur' = [cur EXCEPT !.size = s + 1, !.index = i]
    [] a = "InsertByte" ->
         \E i \in Draw(n + 1), b \in Draw(Bytes) :
           cur' = [cur EXCEPT !.index = i, !.byte = b]
    [] a = "InsertRepeatedBytes" ->
         \E i \in Draw(n + 1), b \in Draw(Bytes), s \in Draw(InsertLimit(n) - MinInsert + 1) :
           cur' = [cur EXCEPT !.index = i, !.byte = b, !.size = MinInsert + s]
    [] a = "ChangeByte" ->
         \E i \in Draw(n), b \in Draw(Bytes) : cur' = [cur EXCEPT !.index = i, !.byte = b]
    [] a = "ChangeBit" ->
         \E i \in Draw(n), h \in Draw(Bits) : cur' = [cur EXCEPT !.index = i, !.shift = h]
    [] a = "CopyPart" ->
         \E i, j \in Draw(n) : \E s \in Draw(Smaller(n - i, MaxSize - n)) :
           cur' = [cur EXCEPT !.index = i, !.index2 = j, !.size = s]

-----------------------------------------------------------------------------
(* The edits.                                                              *)

\* The edit under the cursor, as far as it tells inputs apart.
Edit(a, c) ==
  CASE a = "EraseBytes" -> [at |-> c.size, count |-> c.index]
    [] a = "InsertByte" -> [at |-> c.index, byte |-> c.byte]
    [] a = "InsertRepeatedBytes" -> [at |-> c.index, byte |-> c.byte, count |-> c.size]
    [] a = "ChangeByte" -> [at |-> c.index, byte |-> c.byte]
    [] a = "ChangeBit" -> [at |-> c.index, bit |-> c.shift]
    [] a = "CopyPart" ->
         [from |-> c.index, to |-> c.index2, count |-> c.size, replace |-> c.replace]

\* All there is to try: what max_possible is meant to count.
AllEdits(a, n) ==
  CASE a = "EraseBytes" ->
         UNION {{[at |-> i, count |-> k] : k \in 1..(n - i)} : i \in 0..(n - 1)}
    [] a = "InsertByte" -> [at : 0..n, byte : 0..(Bytes - 1)]
    [] a = "InsertRepeatedBytes" ->
         [at : 0..n, byte : 0..(Bytes - 1), count : 1..InsertLimit(n)]
    [] a = "ChangeByte" -> [at : 0..(n - 1), byte : 0..(Bytes - 1)]
    [] a = "ChangeBit" -> [at : 0..(n - 1), bit : 0..(Bits - 1)]

\* An index or a divisor that Python rejects.
Raises(a, n, c, m) ==
  CASE a = "ChangeByte" -> c.index >= n
    [] a = "ChangeBit" -> c.index >= n
    [] a = "InsertRepeatedBytes" ->
         c.byte + 1 = Bytes /\ c.index + 1 > n /\ m = 0
    [] a = "CopyPart" ->
         /\ c.replace = 1
         /\ c.index2 + 1 > n
         /\ c.index + 1 + c.size > n
         /\ Smaller(n, MaxSize - n) = 0
    [] OTHER -> FALSE

\* Mutate_ChangeASCIIInteger looks for the end of the number by testing the
\* length of the input instead of its bytes: for a length that is a digit's code
\* all the bytes from the first digit are given to int(), which rejects them or
\* not, as the input and the place where the search starts have it.
NumberRefused(a, n) == a = "ChangeASCIIInteger" /\ n \in DigitCodes

AdvanceErase(n, c) ==
  IF c.index + 1 + c.size <= n THEN [c EXCEPT !.index = @ + 1]
  ELSE [c EXCEPT !.index = 0, !.size = IF @ + 1 > n THEN 1 ELSE @ + 1]

\* Fault: the position behind the last byte is skipped.
AdvanceInsertShort(n, c) ==
  IF c.index + 1 < n THEN [c EXCEPT !.index = @ + 1]
  ELSE [c EXCEPT !.index = 0, !.byte = (@ + 1) % Bytes]

AdvanceInsert(n, c) ==
  IF c.index + 1 <= n THEN [c EXCEPT !.index = @ + 1]
  ELSE [c EXCEPT !.index = 0, !.byte = (@ + 1) % Bytes]

AdvanceRepeated(n, c, m) ==
  IF c.byte + 1 # Bytes THEN [c EXCEPT !.byte = @ + 1]
  ELSE IF c.index + 1 <= n THEN [c EXCEPT !.byte = 0, !.index = @ + 1]
  ELSE [c EXCEPT !.byte = 0, !.index = 0, !.size = IF @ + 1 > m THEN MinInsert ELSE @ + 1]

\* Fault: the byte is never set back to 0.
AdvanceByteUnwrapped(n, c) == [c EXCEPT !.byte = @ + 1]

AdvanceByte(n, c) ==
  IF c.byte + 1 # Bytes THEN [c EXCEPT !.byte = @ + 1]
  ELSE [c EXCEPT !.byte = 0, !.index = (@ + 1) % n]

AdvanceBit(n, c) ==
  IF c.shift + 1 # Bits THEN [c EXCEPT !.shift = @ + 1]
  ELSE [c EXCEPT !.shift = 0, !.index = (@ + 1) % n]

AdvanceCopy(n, c) ==
  IF c.replace = 0 THEN [c EXCEPT !.replace = 1]
  ELSE IF c.index2 + 1 <= n THEN [c EXCEPT !.replace = 0, !.index2 = @ + 1]
  ELSE IF c.index + 1 + c.size <= n
  THEN [c EXCEPT !.replace = 0, !.index2 = 0, !.index = @ + 1]
  ELSE [c EXCEPT !.replace = 0, !.index2 = 0, !.index = 0,
                 !.size = (@ + 1) % Smaller(n, MaxSize - n)]

Advance(a, n, c, m) ==
  CASE a = "EraseBytes" -> AdvanceErase(n, c)
    [] a = "InsertByte" -> AdvanceInsert(n, c)
    [] a = "InsertRepeatedBytes" -> AdvanceRepeated(n, c, m)
    [] a = "ChangeByte" -> AdvanceByte(n, c)
    [] a = "ChangeBit" -> AdvanceBit(n, c)
    [] a = "CopyPart" -> AdvanceCopy(n, c)
    [] OTHER -> c

-----------------------------------------------------------------------------
Cursor == [index : Nat, index2 : Nat, size : Nat, byte : 0..(Bytes - 1),
           shift : 0..(Bits - 1), replace : 0..1]

TypeOK ==
  /\ action \in Actions \cup {"none"}
  /\ size \in 0..MaxSize
  /\ cur \in Cursor
  /\ insertMax \in 0..InsertCap
  /\ probing \in BOOLEAN
  /\ left \in Nat
  /\ full \in BOOLEAN
  /\ raised \in BOOLEAN

Init ==
  /\ action = "none"
  /\ size = 0
  /\ cur = [index |-> 0, index2 |-> 0, size |-> 0, byte |-> 0, shift |-> 0, replace |-> 0]
  /\ insertMax = 0
  /\ probing = FALSE
  /\ left = 0
  /\ full = FALSE
  /\ produced = {}
  /\ raised = FALSE

\* Setup_CopyPart divides by max_possible.
SetupRaises(a, n) == a = "CopyPart" /\ n > 0 /\ MaxPossible(a, n) = 0

\* The set-up of action a on an input of n bytes.
Setup(a, n, energy) ==
  /\ action' = a
  /\ size' = n
  /\ insertMax' = IF a = "InsertRepeatedBytes" /\ ~Refused(a, n) THEN InsertLimit(n) ELSE insertMax
  /\ full' = (a \in Enumerating /\ ~Refused(a, n) /\ energy >= MaxPossible(a, n))
  /\ IF a \notin Enumerating \/ Refused(a, n) THEN cur' = cur
     ELSE IF full' THEN cur' = FirstCursor(a, cur)
     ELSE StartAtRandom(a, n)
  /\ produced' = {}
  /\ raised' = SetupRaises(a, n)

RunAction(a, n, energy) ==
  /\ ~raised /\ left = 0
  /\ Setup(a, n, energy)
  /\ probing' = FALSE
  /\ left' = IF Refused(a, n) THEN 0 ELSE Granted(a, n, energy)

Probe(a, n) ==
  /\ ~raised /\ left = 0
  /\ Setup(a, n, 1)
  /\ probing' = TRUE
  /\ left' = 1

NextInput ==
  /\ ~raised
  /\ left > 0
  /\ left' = left - 1
  /\ \/ /\ Raises(action, size, cur, insertMax) \/ NumberRefused(action, size)
        /\ raised' = TRUE
        /\ UNCHANGED <<cur, produced>>
     \/ /\ ~Raises(action, size, cur, insertMax)
        /\ raised' = FALSE
        /\ cur' = Advance(action, size, cur, insertMax)
        /\ produced' = IF full THEN produced \cup {Edit(action, cur)} ELSE produced
  /\ UNCHANGED <<action, size, insertMax, probing, full>>

\* The driver gives the rest of the step up (stop_soon).
GiveUp ==
  /\ ~raised
  /\ left > 0 /\ ~probing
  /\ left' = 0
  /\ full' = FALSE
  /\ produced' = {}
  /\ UNCHANGED <<action, size, cur, insertMax, probing, raised>>

Next ==
  \/ \E a \in Actions, n \in 0..MaxSize, energy \in Energies : RunAction(a, n, energy)
  \/ \E a \in Actions, n \in 0..MaxSize : Probe(a, n)
  \/ NextInput
  \/ GiveUp

Spec == Init /\ [][Next]_vars

-----------------------------------------------------------------------------
(* Safety.                                                                 *)

\* The cursor c is on an edit of an input of n bytes.
InRange(a, n, c, m) ==
  CASE a = "EraseBytes" -> c.size + c.index <= n
    [] a = "InsertByte" -> c.index <= n
    [] a = "InsertRepeatedBytes" -> c.index <= n /\ c.size \in 1..m /\ n + c.size <= MaxSize
    [] a = "ChangeByte" -> c.index < n
    [] a = "ChangeBit" -> c.index < n
    [] a = "CopyPart" -> c.index <= n /\ c.index2 <= n /\ c.size <= n
    [] OTHER -> TRUE

\* Whatever the cursor was before, a set-up that grants tries, and every
\* next() after it, leave it on an edit of the input (61, 80, 100, 123, 141
\* index or slice the data by it).
CursorInRange ==
  left > 0 /\ ~raised /\ ~probing => InRange(action, size, cur, insertMax)

\* A full step raises in two cases only: on an input of the maximal length (398
\* divides by zero), and when the length of the input is taken for a digit (181
\* converts what is not a number); a probe also raises when it goes on after a
\* refusal.
RaisesOnlyWhen ==
  raised => \/ action = "CopyPart" /\ size = MaxSize
            \/ action = "ChangeASCIIInteger" /\ size \in DigitCodes
            \/ probing /\ Refused(action, size)

Done == full /\ left = 0 /\ ~raised

\* Line 404 "return max_possible": a step with the energy for every edit tries
\* every edit.
AllEditsTried ==
  Done /\ action \in {"InsertByte", "InsertRepeatedBytes", "ChangeByte", "ChangeBit"} =>
    produced = AllEdits(action, size)

\* The same for EraseBytes.
AllErasuresTried ==
  Done /\ action = "EraseBytes" => AllEdits("EraseBytes", size) \subseteq produced
=============================================================================
