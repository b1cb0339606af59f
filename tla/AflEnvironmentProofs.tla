------------------------ MODULE AflEnvironmentProofs ------------------------
(***************************************************************************)
(* The loop of read_afl_environment leaves what SettingsOf says, for every *)
(* environment: proved by induction over the entries it has read.          *)
(***************************************************************************)
EXTENDS AflEnvironment, WellFoundedInduction, TLAPS

-----------------------------------------------------------------------------
(* Induction over sets of numbers.                                         *)

\* A set that holds 0, and with every number its successor, holds all numbers.
LEMMA SetInduction ==
  ASSUME NEW S, 0 \in S, \A k \in Nat : k \in S => k + 1 \in S
  PROVE  Nat \subseteq S
<1> DEFINE T == Nat \ S
           R == OpToRel(<, Nat)
<1> SUFFICES ASSUME T # {} PROVE FALSE
  OBVIOUS
<1>1. IsWellFoundedOn(R, Nat)
  BY NatLessThanWellFounded
<1>2. PICK x \in T : \A y \in T : ~(<<y, x>> \in R)
  <2>1. T \subseteq Nat
    OBVIOUS
  <2> HIDE DEF T, R
  <2> QED BY <1>1, <2>1, WFMin
<1>3. x # 0 /\ x - 1 \in Nat
  OBVIOUS
<1>4. <<x - 1, x>> \in R
  BY <1>3 DEF OpToRel
<1>5. x - 1 \in S
  BY <1>2, <1>3, <1>4
<1> QED BY <1>3, <1>5

\* g gives 0 the value base, and each number up to n its value from the one before.
IsRecursive(g, n, base, F) ==
  g = [k \in 0..n |-> IF k = 0 THEN base ELSE F[k][g[k - 1]]]

\* Such a function exists, as long
\* as the values stay within a set.
LEMMA RecursiveFunction ==
  ASSUME NEW n \in Nat, NEW D, NEW base \in D, NEW F \in [1..n -> [D -> D]]
  PROVE  \E g \in [0..n -> D] : IsRecursive(g, n, base, F)
<1> DEFINE Body(g, m) == [k \in 0..m |-> IF k = 0 THEN base ELSE F[k][g[k - 1]]]
           S == {m \in Nat : m <= n => \E g \in [0..m -> D] : g = Body(g, m)}
<1>1. 0 \in S
  <2> DEFINE g == [k \in 0..0 |-> base]
  <2>1. g \in [0..0 -> D] /\ g = Body(g, 0)
    OBVIOUS
  <2> QED BY <2>1
<1>2. ASSUME NEW m \in Nat, m \in S PROVE m + 1 \in S
  <2> SUFFICES ASSUME m + 1 <= n
               PROVE  \E g \in [0..(m + 1) -> D] : g = Body(g, m + 1)
    OBVIOUS
  <2>1. PICK g \in [0..m -> D] : g = Body(g, m)
    BY <1>2
  <2> DEFINE h == [k \in 0..(m + 1) |-> IF k = m + 1 THEN F[m + 1][g[m]] ELSE g[k]]
  <2>2. g[m] \in D /\ F[m + 1][g[m]] \in D
    BY <2>1
  <2>3. h \in [0..(m + 1) -> D]
    BY <2>1, <2>2
  <2>4. ASSUME NEW k \in 0..(m + 1)
        PROVE  h[k] = IF k = 0 THEN base ELSE F[k][h[k - 1]]
    <3>1. CASE k = 0
      BY <2>1, <3>1
    <3>2. CASE k = m + 1
      BY <3>2
    <3>3. CASE k \in 1..m
      <4>1. h[k] = g[k] /\ h[k - 1] = g[k - 1]
        BY <3>3
      <4>2. g[k] = F[k][g[k - 1]]
        BY <2>1, <3>3
      <4> QED BY <3>3, <4>1, <4>2
    <3> QED BY <3>1, <3>2, <3>3
  <2>5. h = Body(h, m + 1)
    BY <2>4
  <2> QED BY <2>3, <2>5
<1>3. n \in S
  <2> HIDE DEF S
  <2> QED BY <1>1, <1>2, SetInduction
<1> QED BY <1>3 DEF IsRecursive

-----------------------------------------------------------------------------
(* The names.                                                              *)

\* An alias stands for a switch or a text variable, and is none itself but of
\* numbers: a name leads to one field of one kind.
LEMMA NameFacts ==
  /\ Switches \cap Texts = {} /\ Switches \cap Numbers = {} /\ Texts \cap Numbers = {}
  /\ \A name : FieldOf(name) \in Numbers <=> name \in Numbers
  /\ \A name \in Numbers : FieldOf(name) = name
  /\ Numbers \subseteq Known
<1>1. Switches \cap Texts = {}
  BY DEF Switches, Texts, CampaignVariables, ScreenAndCycleVariables, TargetVariables
<1>2. (Switches \cup Texts) \cap Numbers = {}
  BY DEF Switches, Texts, Numbers, CampaignVariables, ScreenAndCycleVariables, TargetVariables
<1>3. \A name \in DOMAIN Aliases : Aliases[name] \in Switches \cup Texts /\ name \notin Numbers
  BY DEF Aliases, Switches, Texts, Numbers, CampaignVariables, ScreenAndCycleVariables, TargetVariables
<1>4. \A name : FieldOf(name) \in Numbers <=> name \in Numbers
  BY <1>2, <1>3 DEF FieldOf
<1>5. \A name \in Numbers : FieldOf(name) = name
  BY <1>3 DEF FieldOf
<1> QED BY <1>1, <1>2, <1>4, <1>5 DEF Known

-----------------------------------------------------------------------------
(* One variable.                                                           *)

\* Settings whose texts are in U.
SettingsWith(U) ==
  [on : SUBSET Switches, text : [Texts -> U], number : [Numbers -> Nat],
   issue : BOOLEAN, crashed : BOOLEAN]

\* What a variable does to the settings, by the kind of its field.
LEMMA ReadVariableCases ==
  ASSUME NEW U, NEW s \in SettingsWith(U), NEW name, NEW t
  PROVE  LET f == FieldOf(name)
             r == ReadVariable(s, name, t)
         IN /\ f \in Switches /\ t = "" => r = [s EXCEPT !.on = s.on \ {f}]
            /\ f \in Switches /\ t # "" => r = [s EXCEPT !.on = s.on \union {f}]
            /\ f \in Texts => r = [s EXCEPT !.text[f] = t]
            /\ f \in Numbers /\ t = "" => r = [s EXCEPT !.crashed = TRUE]
            /\ f \in Numbers /\ t # "" =>
                 r = IF f = "SYNC_TIME" /\ Atoi(t) = 0 THEN s ELSE [s EXCEPT !.number[f] = Atoi(t)]
            /\ f \notin Switches /\ f \notin Texts /\ f \notin Numbers => r = s
<1> DEFINE f == FieldOf(name)
           r == ReadVariable(s, name, t)
<1>0. s \in [on : SUBSET Switches, text : [Texts -> U], number : [Numbers -> Nat],
             issue : BOOLEAN, crashed : BOOLEAN]
  BY DEF SettingsWith
<1>1. CASE f \in Switches
  <2>1. f \notin Texts /\ f \notin Numbers
    BY <1>1, NameFacts
  <2>2. t = "" => r = [s EXCEPT !.on = s.on \ {f}]
    BY <1>0, <1>1, <2>1 DEF ReadVariable
  <2>3. t # "" => r = [s EXCEPT !.on = s.on \union {f}]
    BY <1>0, <1>1, <2>1 DEF ReadVariable
  <2> QED BY <1>1, <2>1, <2>2, <2>3
<1>2. CASE f \in Texts
  <2>1. f \notin Switches /\ f \notin Numbers
    BY <1>2, NameFacts
  <2>2. r = [s EXCEPT !.text[f] = t]
    BY <1>0, <1>2, <2>1 DEF ReadVariable
  <2> QED BY <1>2, <2>1, <2>2
<1>3. CASE f \in Numbers
  <2>1. f \notin Switches /\ f \notin Texts
    BY <1>3, NameFacts
  <2>2. t = "" => r = [s EXCEPT !.crashed = TRUE]
    BY <1>0, <1>3, <2>1 DEF ReadVariable
  <2>3. t # "" => r = IF f = "SYNC_TIME" /\ Atoi(t) = 0 THEN s ELSE [s EXCEPT !.number[f] = Atoi(t)]
    BY <1>0, <1>3, <2>1 DEF ReadVariable
  <2> QED BY <1>3, <2>1, <2>2, <2>3
<1>4. CASE f \notin Switches /\ f \notin Texts /\ f \notin Numbers
  <2>1. r = s
    BY <1>4 DEF ReadVariable
  <2> QED BY <1>4, <2>1
<1> QED BY <1>1, <1>2, <1>3, <1>4

-----------------------------------------------------------------------------
(* Types.                                                                  *)

\* The texts that an entry can bring up.
TextsOf(environ) == {GetEnv(environ, environ[k].name) : k \in 1..Len(environ)}

SettingsType(environ) == SettingsWith(TextsOf(environ) \cup {""})

\* afl_state_init leaves settings.
LEMMA DefaultType ==
  ASSUME NEW environ
  PROVE  DefaultSettings \in SettingsType(environ)
BY DEF DefaultSettings, SettingsType, SettingsWith

\* One variable turns settings into settings.
LEMMA ReadVariableType ==
  ASSUME NEW U, NEW s \in SettingsWith(U), NEW name, NEW t \in U
  PROVE  ReadVariable(s, name, t) \in SettingsWith(U)
<1> DEFINE r == ReadVariable(s, name, t)
           f == FieldOf(name)
<1>0. Atoi(t) \in Nat
  BY DEF Atoi
<1>1. \/ f \in Switches /\ r = [s EXCEPT !.on = s.on \ {f}]
      \/ f \in Switches /\ r = [s EXCEPT !.on = s.on \union {f}]
      \/ f \in Texts /\ r = [s EXCEPT !.text[f] = t]
      \/ r = [s EXCEPT !.crashed = TRUE]
      \/ f \in Numbers /\ r = [s EXCEPT !.number[f] = Atoi(t)]
      \/ r = s
  <2>1. /\ f \in Switches /\ t = "" => r = [s EXCEPT !.on = s.on \ {f}]
        /\ f \in Switches /\ t # "" => r = [s EXCEPT !.on = s.on \union {f}]
        /\ f \in Texts => r = [s EXCEPT !.text[f] = t]
        /\ f \in Numbers /\ t = "" => r = [s EXCEPT !.crashed = TRUE]
        /\ f \in Numbers /\ t # "" =>
             r = IF f = "SYNC_TIME" /\ Atoi(t) = 0 THEN s ELSE [s EXCEPT !.number[f] = Atoi(t)]
        /\ f \notin Switches /\ f \notin Texts /\ f \notin Numbers => r = s
    BY ReadVariableCases
  <2> HIDE DEF r, f
  <2> QED BY <2>1
<1> SUFFICES r \in SettingsWith(U)
  OBVIOUS
<1> HIDE DEF r, f
<1>2. CASE f \in Switches /\ r = [s EXCEPT !.on = s.on \ {f}]
  BY <1>2 DEF SettingsWith
<1>3. CASE f \in Switches /\ r = [s EXCEPT !.on = s.on \union {f}]
  BY <1>3 DEF SettingsWith
<1>4. CASE f \in Texts /\ r = [s EXCEPT !.text[f] = t]
  BY <1>4 DEF SettingsWith
<1>5. CASE r = [s EXCEPT !.crashed = TRUE]
  BY <1>5 DEF SettingsWith
<1>6. CASE f \in Numbers /\ r = [s EXCEPT !.number[f] = Atoi(t)]
  BY <1>0, <1>6 DEF SettingsWith
<1> QED BY <1>1, <1>2, <1>3, <1>4, <1>5, <1>6

\* One entry turns settings into settings.
LEMMA ReadEntryType ==
  ASSUME NEW environ, NEW s \in SettingsType(environ), NEW k \in 1..Len(environ)
  PROVE  ReadEntry(environ, s, environ[k]) \in SettingsType(environ)
<1> DEFINE x == environ[k]
           t == GetEnv(environ, x.name)
<1>1. t \in TextsOf(environ)
  BY DEF TextsOf
<1>2. ReadVariable(s, x.name, t) \in SettingsType(environ)
  <2> HIDE DEF t
  <2> QED BY <1>1, ReadVariableType DEF SettingsType
<1>3. [s EXCEPT !.issue = TRUE] \in SettingsType(environ)
  BY DEF SettingsType, SettingsWith
<1>4. \/ ReadEntry(environ, s, x) = s
      \/ ReadEntry(environ, s, x) = [s EXCEPT !.issue = TRUE]
      \/ ReadEntry(environ, s, x) = ReadVariable(s, x.name, t)
  BY DEF ReadEntry
<1> QED BY <1>2, <1>3, <1>4

-----------------------------------------------------------------------------
(* The loop, as a function of the number of entries read.                  *)

IsReading(environ, read) ==
  /\ read \in [0..Len(environ) -> SettingsType(environ)]
  /\ read[0] = DefaultSettings
  /\ \A k \in 1..Len(environ) : read[k] = ReadEntry(environ, read[k - 1], environ[k])
  /\ ReadEnvironment(environ) = read[Len(environ)]

\* ReadEnvironment is the last of such a sequence of settings.
LEMMA ReadingExists ==
  ASSUME NEW environ \in Seq(Entry)
  PROVE  \E read : IsReading(environ, read)
<1> DEFINE n == Len(environ)
           D == SettingsType(environ)
           F == [k \in 1..n |-> [s \in D |-> ReadEntry(environ, s, environ[k])]]
           loop[k \in 0..n] ==
             IF k = 0 THEN DefaultSettings ELSE ReadEntry(environ, loop[k - 1], environ[k])
<1>1. n \in Nat
  OBVIOUS
<1>2. DefaultSettings \in D
  BY DefaultType
<1>3. F \in [1..n -> [D -> D]]
  BY ReadEntryType
<1>4. PICK g \in [0..n -> D] : IsRecursive(g, n, DefaultSettings, F)
  <2> DEFINE b == DefaultSettings
  <2>1. b \in D
    BY <1>2 DEF b
  <2> HIDE DEF F, n, D, b
  <2>2. \E g \in [0..n -> D] : IsRecursive(g, n, b, F)
    BY <1>1, <1>3, <2>1, RecursiveFunction
  <2> QED BY <2>2 DEF b
<1>5. g = [k \in 0..n |-> IF k = 0 THEN DefaultSettings ELSE ReadEntry(environ, g[k - 1], environ[k])]
  <2>1. ASSUME NEW k \in 1..n PROVE F[k][g[k - 1]] = ReadEntry(environ, g[k - 1], environ[k])
    <3>1. k - 1 \in 0..n
      BY <1>1
    <3>2. g[k - 1] \in D
      BY <1>4, <3>1
    <3> HIDE DEF n, D
    <3> QED BY <3>2
  <2> HIDE DEF F, D
  <2> QED BY <1>1, <1>4, <2>1 DEF IsRecursive
<1>6. loop = [k \in 0..n |-> IF k = 0 THEN DefaultSettings ELSE ReadEntry(environ, loop[k - 1], environ[k])]
  BY <1>5
<1>7. ReadEnvironment(environ) = loop[n]
  BY DEF ReadEnvironment
<1> QED OBVIOUS

-----------------------------------------------------------------------------
(* What the first k entries leave.                                         *)

\* The entry j is about the field f.
Names(environ, j, f) ==
  environ[j].prefix = "AFL_" /\ environ[j].name \in Known /\ FieldOf(environ[j].name) = f

\* The entry j is a number without a text.
BadNumber(environ, j) ==
  environ[j].prefix = "AFL_" /\ environ[j].name \in Numbers /\ GetEnv(environ, environ[j].name) = ""

\* The entry j earns a warning.
Odd(environ, j) ==
  \/ environ[j].prefix \in {"ALF_", "USE_"}
  \/ environ[j].prefix = "AFL_" /\ environ[j].name \notin Known

About(environ, f, k) == {j \in 1..k : Names(environ, j, f)}

Latest(S) == CHOOSE j \in S : \A i \in S : i <= j

\* LastFor among the first k entries.
LastAmong(environ, f, k) ==
  IF About(environ, f, k) = {} THEN ""
  ELSE GetEnv(environ, environ[Latest(About(environ, f, k))].name)

\* The number that the first entry of the name f has is one that is taken.
Taken(environ, f) == ~(f = "SYNC_TIME" /\ Atoi(GetEnv(environ, f)) = 0)

\* NumberFor among the first k entries.
NumberAmong(environ, f, k) ==
  IF About(environ, f, k) # {} /\ Taken(environ, f) THEN Atoi(GetEnv(environ, f))
  ELSE DefaultSettings.number[f]

AsRead(environ, k, s) ==
  /\ s.crashed <=> \E j \in 1..k : BadNumber(environ, j)
  /\ ~s.crashed =>
       /\ \A f \in Switches : f \in s.on <=> LastAmong(environ, f, k) # ""
       /\ \A f \in Texts : s.text[f] = LastAmong(environ, f, k)
       /\ \A f \in Numbers : s.number[f] = NumberAmong(environ, f, k)
       /\ s.issue <=> \E j \in 1..k : Odd(environ, j)

\* The last of the first k entries decides, if it is about the field; otherwise
\* the ones before it do.
LEMMA LastAmongStep ==
  ASSUME NEW environ, NEW f, NEW k \in Nat \ {0}
  PROVE  /\ Names(environ, k, f) => LastAmong(environ, f, k) = GetEnv(environ, environ[k].name)
         /\ ~Names(environ, k, f) => LastAmong(environ, f, k) = LastAmong(environ, f, k - 1)
<1>1. CASE Names(environ, k, f)
  <2>1. k \in About(environ, f, k) /\ \A i \in About(environ, f, k) : i \in Nat /\ i <= k
    BY <1>1 DEF About
  <2>2. Latest(About(environ, f, k)) = k
    <3> DEFINE S == About(environ, f, k)
    <3> HIDE DEF S
    <3>1. Latest(S) \in S /\ \A i \in S : i <= Latest(S)
      BY <2>1 DEF Latest, S
    <3> QED BY <2>1, <3>1 DEF S
  <2> QED BY <1>1, <2>1, <2>2 DEF LastAmong
<1>2. CASE ~Names(environ, k, f)
  <2>1. About(environ, f, k) = About(environ, f, k - 1)
    BY <1>2 DEF About
  <2> QED BY <1>2, <2>1 DEF LastAmong
<1> QED BY <1>1, <1>2

\* A number that an entry names is decided; the other entries leave it alone.
LEMMA NumberAmongStep ==
  ASSUME NEW environ, NEW f, NEW k \in Nat \ {0}
  PROVE  /\ Names(environ, k, f) =>
              NumberAmong(environ, f, k) = IF Taken(environ, f) THEN Atoi(GetEnv(environ, f))
                                           ELSE DefaultSettings.number[f]
         /\ ~Names(environ, k, f) => NumberAmong(environ, f, k) = NumberAmong(environ, f, k - 1)
         /\ ~Taken(environ, f) => NumberAmong(environ, f, k - 1) = DefaultSettings.number[f]
<1>1. Names(environ, k, f) => k \in About(environ, f, k)
  BY DEF About
<1>2. ~Names(environ, k, f) => About(environ, f, k) = About(environ, f, k - 1)
  BY DEF About
<1> QED BY <1>1, <1>2 DEF NumberAmong

\* No entry was read yet.
LEMMA AsReadInit ==
  ASSUME NEW environ
  PROVE  AsRead(environ, 0, DefaultSettings)
<1>1. \A f : /\ LastAmong(environ, f, 0) = ""
            /\ NumberAmong(environ, f, 0) = DefaultSettings.number[f]
  BY DEF LastAmong, NumberAmong, About
<1>2. DefaultSettings.on = {} /\ ~DefaultSettings.crashed /\ ~DefaultSettings.issue
      /\ \A f \in Texts : DefaultSettings.text[f] = ""
  BY DEF DefaultSettings
<1>3. 1..0 = {}
  OBVIOUS
<1> QED BY <1>1, <1>2, <1>3 DEF AsRead

\* One entry more.
LEMMA AsReadStep ==
  ASSUME NEW environ \in Seq(Entry), NEW k \in 1..Len(environ),
         NEW s \in SettingsType(environ), AsRead(environ, k - 1, s)
  PROVE  AsRead(environ, k, ReadEntry(environ, s, environ[k]))
<1> DEFINE x == environ[k]
           t == GetEnv(environ, x.name)
           f == FieldOf(x.name)
           r == ReadEntry(environ, s, x)
           U == TextsOf(environ) \cup {""}
<1>0. /\ k \in Nat \ {0} /\ x.prefix \in {"AFL_", "ALF_", "USE_", ""}
      /\ s \in SettingsWith(U)
      /\ 1..k = 1..(k - 1) \cup {k}
  <2>1. k \in Nat \ {0} /\ 1..k = 1..(k - 1) \cup {k}
    OBVIOUS
  <2>2. x \in Entry
    OBVIOUS
  <2>3. x.prefix \in {"AFL_", "ALF_", "USE_", ""}
    BY <2>2 DEF Entry
  <2> QED BY <2>1, <2>3 DEF SettingsType
<1>1. /\ f \in Numbers <=> x.name \in Numbers
      /\ Numbers \subseteq Known
      /\ f \in Numbers => f = x.name
      /\ Switches \cap Texts = {} /\ Switches \cap Numbers = {} /\ Texts \cap Numbers = {}
  BY NameFacts
<1>2. \A g : Names(environ, k, g) <=> x.prefix = "AFL_" /\ x.name \in Known /\ g = f
  BY DEF Names
<1>3. BadNumber(environ, k) <=> x.prefix = "AFL_" /\ x.name \in Known /\ f \in Numbers /\ t = ""
  BY <1>1 DEF BadNumber
<1>4. Odd(environ, k) <=> \/ x.prefix \in {"ALF_", "USE_"}
                          \/ x.prefix = "AFL_" /\ x.name \notin Known
  BY DEF Odd
<1>5. \A g : /\ Names(environ, k, g) => LastAmong(environ, g, k) = t
             /\ ~Names(environ, k, g) => LastAmong(environ, g, k) = LastAmong(environ, g, k - 1)
  BY <1>0, LastAmongStep
<1>5a. \A g : /\ Names(environ, k, g) =>
                   NumberAmong(environ, g, k) = IF Taken(environ, g) THEN Atoi(GetEnv(environ, g))
                                                ELSE DefaultSettings.number[g]
              /\ ~Names(environ, k, g) => NumberAmong(environ, g, k) = NumberAmong(environ, g, k - 1)
              /\ ~Taken(environ, g) => NumberAmong(environ, g, k - 1) = DefaultSettings.number[g]
  BY <1>0, NumberAmongStep
<1>6. /\ (\E j \in 1..k : BadNumber(environ, j)) <=>
           BadNumber(environ, k) \/ \E j \in 1..(k - 1) : BadNumber(environ, j)
      /\ (\E j \in 1..k : Odd(environ, j)) <=>
           Odd(environ, k) \/ \E j \in 1..(k - 1) : Odd(environ, j)
  BY <1>0
<1>7. /\ s.crashed <=> \E j \in 1..(k - 1) : BadNumber(environ, j)
      /\ ~s.crashed =>
           /\ \A g \in Switches : g \in s.on <=> LastAmong(environ, g, k - 1) # ""
           /\ \A g \in Texts : s.text[g] = LastAmong(environ, g, k - 1)
           /\ \A g \in Numbers : s.number[g] = NumberAmong(environ, g, k - 1)
           /\ s.issue <=> \E j \in 1..(k - 1) : Odd(environ, j)
  BY DEF AsRead
<1>8. /\ s.crashed => r = s
      /\ ~s.crashed /\ x.prefix \in {"ALF_", "USE_"} => r = [s EXCEPT !.issue = TRUE]
      /\ ~s.crashed /\ x.prefix = "AFL_" /\ x.name \notin Known => r = [s EXCEPT !.issue = TRUE]
      /\ ~s.crashed /\ x.prefix = "AFL_" /\ x.name \in Known => r = ReadVariable(s, x.name, t)
      /\ ~s.crashed /\ x.prefix = "" => r = s
  <2>1. r = IF s.crashed THEN s
            ELSE CASE x.prefix \in {"ALF_", "USE_"} -> [s EXCEPT !.issue = TRUE]
                   [] x.prefix = "AFL_" /\ x.name \in Known -> ReadVariable(s, x.name, t)
                   [] x.prefix = "AFL_" /\ x.name \notin Known -> [s EXCEPT !.issue = TRUE]
                   [] OTHER -> s
    BY DEF ReadEntry
  <2> HIDE DEF x, t, r
  <2> QED BY <1>0, <2>1 DEF SettingsWith
<1> DEFINE v == ReadVariable(s, x.name, t)
<1>9. /\ f \in Switches /\ t = "" => v = [s EXCEPT !.on = s.on \ {f}]
      /\ f \in Switches /\ t # "" => v = [s EXCEPT !.on = s.on \union {f}]
      /\ f \in Texts => v = [s EXCEPT !.text[f] = t]
      /\ f \in Numbers /\ t = "" => v = [s EXCEPT !.crashed = TRUE]
      /\ f \in Numbers /\ t # "" =>
           v = IF f = "SYNC_TIME" /\ Atoi(t) = 0 THEN s ELSE [s EXCEPT !.number[f] = Atoi(t)]
      /\ f \notin Switches /\ f \notin Texts /\ f \notin Numbers => v = s
  <2>1. s \in SettingsWith(U)
    BY <1>0
  <2> DEFINE name == x.name
  <2> HIDE DEF x, t, U, name
  <2>2. LET g == FieldOf(name)
            w == ReadVariable(s, name, t)
        IN /\ g \in Switches /\ t = "" => w = [s EXCEPT !.on = s.on \ {g}]
           /\ g \in Switches /\ t # "" => w = [s EXCEPT !.on = s.on \union {g}]
           /\ g \in Texts => w = [s EXCEPT !.text[g] = t]
           /\ g \in Numbers /\ t = "" => w = [s EXCEPT !.crashed = TRUE]
           /\ g \in Numbers /\ t # "" =>
                w = IF g = "SYNC_TIME" /\ Atoi(t) = 0 THEN s ELSE [s EXCEPT !.number[g] = Atoi(t)]
           /\ g \notin Switches /\ g \notin Texts /\ g \notin Numbers => w = s
    BY <2>1, ReadVariableCases
  <2> QED BY <2>2 DEF name
<1> SUFFICES AsRead(environ, k, r)
  OBVIOUS
<1> HIDE DEF x, t, f, r, v, U
<1>10. CASE s.crashed
  BY <1>6, <1>7, <1>8, <1>10 DEF AsRead
<1>11. CASE ~s.crashed /\ Odd(environ, k)
  <2>1. ~BadNumber(environ, k) /\ \A g : ~Names(environ, k, g)
    BY <1>2, <1>3, <1>4, <1>11
  <2>2. r = [s EXCEPT !.issue = TRUE]
    BY <1>4, <1>8, <1>11
  <2>3. /\ r.crashed = s.crashed /\ r.issue = TRUE /\ r.on = s.on /\ r.text = s.text
        /\ r.number = s.number
    BY <1>0, <2>2 DEF SettingsWith
  <2> QED BY <1>5, <1>6, <1>7, <1>11, <1>5a, <2>1, <2>3 DEF AsRead
<1>12. CASE ~s.crashed /\ x.prefix = ""
  <2>1. ~BadNumber(environ, k) /\ ~Odd(environ, k) /\ \A g : ~Names(environ, k, g)
    BY <1>2, <1>3, <1>4, <1>12
  <2>2. r = s
    BY <1>8, <1>12
  <2> QED BY <1>5, <1>6, <1>7, <1>12, <1>5a, <2>1, <2>2 DEF AsRead
<1>13. CASE ~s.crashed /\ x.prefix = "AFL_" /\ x.name \in Known
  <2>1. r = v /\ ~Odd(environ, k) /\ \A g : Names(environ, k, g) <=> g = f
    BY <1>2, <1>4, <1>8, <1>13 DEF v
  <2>2. BadNumber(environ, k) <=> f \in Numbers /\ t = ""
    BY <1>3, <1>13
  <2>3. CASE f \in Switches
    <3>1. /\ r.crashed = s.crashed /\ r.issue = s.issue /\ r.text = s.text /\ r.number = s.number
          /\ r.on = IF t = "" THEN s.on \ {f} ELSE s.on \union {f}
      BY <1>0, <1>9, <2>1, <2>3 DEF SettingsWith
    <3>2. \A g \in Switches : g \in r.on <=> LastAmong(environ, g, k) # ""
      BY <1>5, <1>7, <1>13, <2>1, <3>1
    <3>3. \A g \in Texts : r.text[g] = LastAmong(environ, g, k)
      BY <1>1, <1>5, <1>7, <1>13, <2>1, <2>3, <3>1
    <3>4. ~BadNumber(environ, k)
      BY <1>1, <2>2, <2>3
    <3>5. ASSUME NEW g \in Numbers PROVE r.number[g] = NumberAmong(environ, g, k)
      <4>1. ~Names(environ, k, g)
        BY <1>1, <2>1, <2>3
      <4> QED BY <1>5a, <1>7, <1>13, <3>1, <4>1
    <3> QED BY <1>6, <1>7, <1>13, <2>1, <3>1, <3>2, <3>3, <3>4, <3>5 DEF AsRead
  <2>4. CASE f \in Texts
    <3>1. /\ r.crashed = s.crashed /\ r.issue = s.issue /\ r.on = s.on /\ r.number = s.number
          /\ r.text = [s.text EXCEPT ![f] = t]
      BY <1>0, <1>9, <2>1, <2>4 DEF SettingsWith
    <3>2. \A g \in Switches : g \in r.on <=> LastAmong(environ, g, k) # ""
      BY <1>1, <1>5, <1>7, <1>13, <2>1, <2>4, <3>1
    <3>3. \A g \in Texts : r.text[g] = LastAmong(environ, g, k)
      <4>1. s.text \in [Texts -> U]
        BY <1>0 DEF SettingsWith
      <4> QED BY <1>5, <1>7, <1>13, <2>1, <2>4, <3>1, <4>1
    <3>4. ~BadNumber(environ, k)
      BY <1>1, <2>2, <2>4
    <3>5. ASSUME NEW g \in Numbers PROVE r.number[g] = NumberAmong(environ, g, k)
      <4>1. ~Names(environ, k, g)
        BY <1>1, <2>1, <2>4
      <4> QED BY <1>5a, <1>7, <1>13, <3>1, <4>1
    <3> QED BY <1>6, <1>7, <1>13, <2>1, <3>1, <3>2, <3>3, <3>4, <3>5 DEF AsRead
  <2>5. CASE f \in Numbers /\ t = ""
    <3>1. r.crashed = TRUE
      BY <1>0, <1>9, <2>1, <2>5 DEF SettingsWith
    <3> QED BY <1>6, <2>2, <2>5, <3>1 DEF AsRead
  <2>6. CASE f \notin Switches /\ f \notin Texts /\ ~(f \in Numbers /\ t = "")
    <3>1. r.crashed = s.crashed /\ r.issue = s.issue /\ r.on = s.on /\ r.text = s.text
      BY <1>0, <1>9, <2>1, <2>6 DEF SettingsWith
    <3>2. \A g \in Switches : g \in r.on <=> LastAmong(environ, g, k) # ""
      BY <1>5, <1>7, <1>13, <2>1, <2>6, <3>1
    <3>3. \A g \in Texts : r.text[g] = LastAmong(environ, g, k)
      BY <1>5, <1>7, <1>13, <2>1, <2>6, <3>1
    <3>4. ASSUME NEW g \in Numbers PROVE r.number[g] = NumberAmong(environ, g, k)
      <4>0. s.number[g] = NumberAmong(environ, g, k - 1)
        BY <1>7, <1>13
      <4>1. CASE g = f
        <5>1. f = x.name /\ t = GetEnv(environ, f)
          BY <1>1, <4>1 DEF t
        <5>2. s.number \in [Numbers -> Nat]
          BY <1>0 DEF SettingsWith
        <5>3. r.number[f] = IF Taken(environ, f) THEN Atoi(t) ELSE s.number[f]
          <6>1. CASE Taken(environ, f)
            <7>1. r = [s EXCEPT !.number[f] = Atoi(t)]
              BY <1>9, <2>1, <2>6, <4>1, <5>1, <6>1 DEF Taken
            <7>2. r.number = [s.number EXCEPT ![f] = Atoi(t)]
              BY <1>0, <7>1 DEF SettingsWith
            <7> QED BY <4>1, <5>2, <6>1, <7>2
          <6>2. CASE ~Taken(environ, f)
            <7>1. r = s
              BY <1>9, <2>1, <2>6, <4>1, <5>1, <6>2 DEF Taken
            <7> QED BY <6>2, <7>1
          <6> QED BY <6>1, <6>2
        <5>4. Names(environ, k, f)
          BY <2>1
        <5> QED BY <1>5a, <4>0, <4>1, <5>1, <5>3, <5>4
      <4>2. CASE g # f
        <5>1. ~Names(environ, k, g)
          BY <2>1, <4>2
        <5>2. r.number[g] = s.number[g]
          <6>1. s.number \in [Numbers -> Nat]
            BY <1>0 DEF SettingsWith
          <6>2. r = s \/ r.number = [s.number EXCEPT ![f] = Atoi(t)]
            BY <1>0, <1>9, <2>1, <2>6 DEF SettingsWith
          <6> QED BY <4>2, <6>1, <6>2
        <5> QED BY <1>5a, <4>0, <5>1, <5>2
      <4> QED BY <4>1, <4>2
    <3> QED BY <1>6, <1>7, <1>13, <2>1, <2>2, <2>6, <3>1, <3>2, <3>3, <3>4 DEF AsRead
  <2> QED BY <2>3, <2>4, <2>5, <2>6
<1> QED BY <1>0, <1>4, <1>10, <1>11, <1>12, <1>13

-----------------------------------------------------------------------------
(* The whole loop.                                                         *)

\* read_afl_environment (afl-fuzz-state.c 135-624): a number without a text is
\* fatal; otherwise every switch and every text is what getenv finds for the
\* name in the last entry for its field, every number the first entry of its
\* name (the default if there is none, or if SYNC_TIME is 0), and a warning comes
\* exactly when some entry earns it.
THEOREM EnvironmentIsObeyed ==
  ASSUME NEW environ \in Seq(Entry)
  PROVE  SettingsOf(environ, ReadEnvironment(environ))
<1> DEFINE n == Len(environ)
<1>0. n \in Nat /\ DOMAIN environ = 1..n
  OBVIOUS
<1>1. PICK read : IsReading(environ, read)
  BY ReadingExists
<1> DEFINE S == {k \in Nat : k <= n => AsRead(environ, k, read[k])}
<1>2. 0 \in S
  BY <1>1, AsReadInit DEF IsReading
<1>3. ASSUME NEW k \in Nat, k \in S PROVE k + 1 \in S
  <2> SUFFICES ASSUME k + 1 <= n PROVE AsRead(environ, k + 1, read[k + 1])
    OBVIOUS
  <2> DEFINE m == k + 1
  <2>1. m \in 1..n /\ m - 1 = k /\ k \in 0..n
    BY <1>0
  <2>2. AsRead(environ, m - 1, read[k]) /\ read[k] \in SettingsType(environ)
    BY <1>1, <1>3, <2>1 DEF IsReading
  <2>3. read[m] = ReadEntry(environ, read[k], environ[m])
    BY <1>1, <2>1 DEF IsReading
  <2> HIDE DEF m
  <2>4. AsRead(environ, m, read[m])
    BY <2>1, <2>2, <2>3, AsReadStep
  <2> QED BY <2>4 DEF m
<1>4. n \in S
  <2> HIDE DEF S
  <2> QED BY <1>0, <1>2, <1>3, SetInduction
<1> DEFINE s == ReadEnvironment(environ)
<1>5. AsRead(environ, n, s) /\ s \in SettingsType(environ)
  BY <1>0, <1>1, <1>4 DEF IsReading
<1> HIDE DEF S, s
<1>6. \A f : LastAmong(environ, f, n) = LastFor(environ, f)
  BY <1>0 DEF LastAmong, LastFor, About, Latest, Names
<1>7. s.crashed <=> \E x \in ToSet(environ) : /\ x.prefix = "AFL_" /\ x.name \in Numbers
                                              /\ GetEnv(environ, x.name) = ""
  BY <1>0, <1>5 DEF AsRead, BadNumber, ToSet
<1>8. ~s.crashed =>
        (s.issue <=> \E x \in ToSet(environ) : \/ x.prefix \in {"ALF_", "USE_"}
                                               \/ x.prefix = "AFL_" /\ x.name \notin Known)
  BY <1>0, <1>5 DEF AsRead, Odd, ToSet
<1>9. ~s.crashed => s.on = {f \in Switches : LastFor(environ, f) # ""}
  <2>1. s.on \subseteq Switches
    BY <1>5 DEF SettingsType, SettingsWith
  <2> QED BY <1>5, <1>6, <2>1 DEF AsRead
<1>10. ~s.crashed => \A f \in Texts : s.text[f] = LastFor(environ, f)
  BY <1>5, <1>6 DEF AsRead
<1>11. ~s.crashed => \A f \in Numbers : s.number[f] = NumberFor(environ, f)
  <2>1. ASSUME NEW f \in Numbers PROVE NumberAmong(environ, f, n) = NumberFor(environ, f)
    <3>1. \A name \in Known : FieldOf(name) = f <=> name = f
      BY NameFacts
    <3>2. About(environ, f, n) # {} <=> \E x \in ToSet(environ) : x.prefix = "AFL_" /\ x.name = f
      BY <1>0, <3>1, NameFacts DEF About, Names, ToSet
    <3> QED BY <3>2 DEF NumberAmong, NumberFor, Taken
  <2> QED BY <1>5, <2>1 DEF AsRead
<1> QED BY <1>7, <1>8, <1>9, <1>10, <1>11 DEF SettingsOf, s
=============================================================================
