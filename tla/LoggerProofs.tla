---------------------------- MODULE LoggerProofs ----------------------------
(***************************************************************************)
(* What the two-wire driver promises (I2c), proved for every set of bytes, *)
(* every set of messages and any number of bytes to read; and, over it, of *)
(* the cycle of the main program (Logger), for every set of cars and data: *)
(* that it asks for each command once (AskedOnce), for those a car has     *)
(* announced and no other (PolledIsAnnounced), that what it prints is the  *)
(* documented value of what the car said (Decodes), and that a text lands  *)
(* in the row of its PID unless its own command failed (TextInItsRow).     *)
(*                                                                         *)
(* The data come first: numbers in order, the table of commands, the bit   *)
(* mask, what obd_command hears in an answer, and the decoding.  The steps *)
(* of the driver and of the cycle follow, and what they do with the data.  *)
(***************************************************************************)
EXTENDS Logger, FiniteSetTheorems, SequenceTheorems, WellFoundedInduction,
        NaturalsInduction, TLAPS

-----------------------------------------------------------------------------
(* Numbers in order: what InOrder makes of a set.                          *)

\* Numbers have a least one among them.
LEMMA Least ==
  ASSUME NEW S, S \subseteq Nat, S # {}
  PROVE  \E m \in S : \A k \in S : m <= k
<1>1. \E m \in S : \A k \in S : <<k, m>> \notin OpToRel(<, Nat)
  BY NatLessThanWellFounded, WFMin, Zenon
<1>2. PICK m \in S : \A k \in S : <<k, m>> \notin OpToRel(<, Nat)
  BY <1>1
<1>3. ASSUME NEW k \in S PROVE m <= k
  <2>1. k \in Nat /\ m \in Nat
    OBVIOUS
  <2>2. ~(k < m)
    BY <1>2, <2>1 DEF OpToRel
  <2> QED
    BY <2>1, <2>2
<1> QED
  BY <1>3

\* Numbers up to n have a last one among them.
LEMMA LastExists ==
  ASSUME NEW n \in Nat, NEW B, B \subseteq 0 .. n, B # {}
  PROVE  \E p \in B : \A m \in B : m <= p
<1> DEFINE N == {n - b : b \in B}
<1>1. ASSUME NEW x \in N PROVE x \in Nat
  <2>1. PICK b \in B : x = n - b
    OBVIOUS
  <2>2. b \in 0 .. n
    OBVIOUS
  <2> QED
    BY <2>1, <2>2
<1>2. N # {}
  OBVIOUS
<1> HIDE DEF N
<1>3. PICK l \in N : \A k \in N : l <= k
  BY <1>1, <1>2, Least
<1> USE DEF N
<1>4. PICK p \in B : l = n - p
  BY <1>3
<1>5. ASSUME NEW m \in B PROVE m <= p
  <2>1. n - m \in N
    OBVIOUS
  <2>2. n - p <= n - m
    BY <1>3, <1>4, <2>1
  <2>3. m \in 0 .. n /\ p \in 0 .. n
    OBVIOUS
  <2> HIDE DEF N
  <2> QED
    BY <2>2, <2>3
<1> QED
  BY <1>5

\* The numbers in front of i
Before(S, i) == {m \in S : m < i}

\* There are finitely many of them.
LEMMA Bounded ==
  ASSUME NEW n \in Nat, NEW S, S \subseteq 0 .. n
  PROVE  IsFiniteSet(S) /\ Cardinality(S) \in Nat
<1>1. 0 \in Int /\ n \in Int
  OBVIOUS
<1>2. IsFiniteSet(0 .. n)
  BY <1>1, FS_Interval
<1>3. S \in SUBSET (0 .. n)
  OBVIOUS
<1>4. IsFiniteSet(S)
  BY <1>2, <1>3, FS_Subset
<1> QED
  BY <1>4, FS_CardinalityType

LEMMA BeforeBounded ==
  ASSUME NEW n \in Nat, NEW S, S \subseteq 0 .. n, NEW i
  PROVE  IsFiniteSet(Before(S, i)) /\ Cardinality(Before(S, i)) \in Nat
<1>1. Before(S, i) \subseteq 0 .. n
  BY DEF Before
<1> QED
  BY <1>1, Bounded

\* A number has fewer in front of it than a later one, and than there are.
LEMMA RankGrows ==
  ASSUME NEW n \in Nat, NEW S, S \subseteq 0 .. n, NEW i \in S
  PROVE  /\ Cardinality(Before(S, i)) < Cardinality(S)
         /\ \A j \in S : i < j => Cardinality(Before(S, i)) < Cardinality(Before(S, j))
<1> DEFINE B == Before(S, i)
           C == B \cup {i}
<1>1. IsFiniteSet(S) /\ Cardinality(S) \in Nat
  BY Bounded
<1>2. IsFiniteSet(B) /\ Cardinality(B) \in Nat
  BY BeforeBounded
<1>3. i \notin B /\ i \in 0 .. n
  BY DEF Before
<1> HIDE DEF B
<1>4. IsFiniteSet(C) /\ Cardinality(C) = Cardinality(B) + 1
  BY <1>2, <1>3, FS_AddElement
<1>5. C \subseteq S
  BY DEF B, Before
<1>6. ASSUME NEW T, IsFiniteSet(T), C \subseteq T
      PROVE  Cardinality(B) < Cardinality(T)
  <2>1. C \in SUBSET T
    BY <1>6
  <2> HIDE DEF C
  <2>2. Cardinality(C) <= Cardinality(T) /\ Cardinality(T) \in Nat
    BY <1>6, <2>1, FS_Subset, FS_CardinalityType
  <2> QED
    BY <1>2, <1>4, <2>2
<1>7. ASSUME NEW j \in S, i < j PROVE C \subseteq Before(S, j)
  <2>1. i \in 0 .. n /\ j \in 0 .. n /\ \A m \in S : m \in 0 .. n
    OBVIOUS
  <2>2. ASSUME NEW m \in C PROVE m \in S /\ m < j
    <3>1. m \in S /\ (m < i \/ m = i)
      BY <1>5 DEF B, Before
    <3>2. m \in 0 .. n
      BY <2>1, <3>1
    <3> QED
      BY <1>7, <2>1, <3>1, <3>2
  <2> QED
    BY <2>2 DEF Before
<1>8. \A j \in S : IsFiniteSet(Before(S, j))
  BY BeforeBounded
<1> HIDE DEF C
<1> QED
  BY <1>1, <1>5, <1>6, <1>7, <1>8 DEF B

\* No two of them have as many in front.
LEMMA RankDiffers ==
  ASSUME NEW n \in Nat, NEW S, S \subseteq 0 .. n, NEW i \in S, NEW j \in S,
         Cardinality(Before(S, i)) = Cardinality(Before(S, j))
  PROVE  i = j
<1>1. i \in 0 .. n /\ j \in 0 .. n
  OBVIOUS
<1>2. Cardinality(Before(S, i)) \in Nat
  BY BeforeBounded
<1>3. ASSUME NEW p \in S, NEW q \in S, p < q
      PROVE  Cardinality(Before(S, p)) < Cardinality(Before(S, q))
  BY <1>3, RankGrows
<1>4. ~(i < j) /\ ~(j < i)
  BY <1>2, <1>3
<1> QED
  BY <1>1, <1>4

\* There is one with as many in front as one likes.
LEMMA RankExists ==
  ASSUME NEW n \in Nat, NEW S, S \subseteq 0 .. n, NEW r \in Nat, r < Cardinality(S)
  PROVE  \E i \in S : Cardinality(Before(S, i)) = r
<1> DEFINE rank(i) == Cardinality(Before(S, i))
           C == {i \in S : rank(i) <= r}
<1>1. IsFiniteSet(S) /\ Cardinality(S) \in Nat
  BY Bounded
<1>2. \A i : IsFiniteSet(Before(S, i)) /\ rank(i) \in Nat
  BY BeforeBounded
<1>3. \A m \in S : m \in 0 .. n
  OBVIOUS
<1>4. ASSUME NEW T, T \subseteq S, T # {} PROVE \E p \in T : \A m \in T : p <= m
  <2>1. \A m \in T : m \in Nat
    BY <1>3, <1>4
  <2> QED
    BY <1>4, <2>1, Least
<1>5. C # {}
  <2>1. S # {}
    BY <1>1, FS_EmptySet
  <2>2. PICK p \in S : \A m \in S : p <= m
    BY <1>4, <2>1
  <2>3. ASSUME NEW m \in S PROVE ~(m < p)
    <3>1. m \in 0 .. n /\ p \in 0 .. n /\ p <= m
      BY <1>3, <2>2
    <3> QED
      BY <3>1
  <2>4. Before(S, p) = {}
    BY <2>3 DEF Before
  <2>5. rank(p) = 0
    BY <2>4, FS_EmptySet
  <2> QED
    BY <2>5
<1>6. PICK i \in C : \A k \in C : k <= i
  <2>1. C \subseteq 0 .. n
    BY <1>3
  <2> HIDE DEF C
  <2> QED
    BY <1>5, <2>1, LastExists
<1>7. i \in S /\ rank(i) <= r
  BY <1>6
<1>8. CASE rank(i) = r
  BY <1>7, <1>8
<1>9. CASE rank(i) < r
  <2> DEFINE B == {m \in S : i < m}
  <2>1. i \in 0 .. n /\ i \notin Before(S, i)
    BY <1>3, <1>7 DEF Before
  <2>2. CASE B = {}
    <3>1. ASSUME NEW m \in S, m # i PROVE m < i
      <4>1. ~(i < m)
        BY <2>2
      <4>2. m \in 0 .. n
        BY <1>3
      <4> QED
        BY <2>1, <3>1, <4>1, <4>2
    <3>2. S = Before(S, i) \cup {i}
      BY <1>7, <3>1, Zenon DEF Before
    <3>3. Cardinality(S) = rank(i) + 1
      BY <1>2, <2>1, <3>2, FS_AddElement
    <3> QED
      BY <1>1, <1>2, <1>9, <3>3
  <2>3. CASE B # {}
    <3>1. PICK p \in B : \A m \in B : p <= m
      <4>1. B \subseteq S
        OBVIOUS
      <4> HIDE DEF B
      <4> QED
        BY <1>4, <2>3, <4>1
    <3>2. p \in S /\ i < p /\ p \in 0 .. n
      BY <1>3
    <3>3. ASSUME NEW m \in S PROVE m < p <=> m < i \/ m = i
      <4>1. m \in 0 .. n
        BY <1>3
      <4>2. i < m => p <= m
        BY <3>1
      <4> QED
        BY <2>1, <3>2, <4>1, <4>2
    <3>4. Before(S, p) = Before(S, i) \cup {i}
      BY <1>7, <3>3 DEF Before
    <3>5. rank(p) = rank(i) + 1
      BY <1>2, <2>1, <3>4, FS_AddElement
    <3>6. rank(p) <= r
      BY <1>2, <1>9, <3>5
    <3>7. p \in C
      BY <3>2, <3>6
    <3> QED
      BY <1>6, <2>1, <3>2, <3>7
  <2> QED
    BY <2>2, <2>3
<1> QED
  BY <1>2, <1>7, <1>8, <1>9

\* In order the numbers are a sequence of them, each once and all of them.
LEMMA InOrderIs ==
  ASSUME NEW n \in Nat, NEW S, S \subseteq 0 .. n
  PROVE  /\ InOrder(S) \in Seq(S) /\ Len(InOrder(S)) = Cardinality(S)
         /\ Cardinality(S) \in Nat
         /\ \A k \in 1 .. Cardinality(S) :
              InOrder(S)[k] \in S /\ Cardinality(Before(S, InOrder(S)[k])) = k - 1
<1> DEFINE c == InOrder(S)
           l == Cardinality(S)
<1>1. l \in Nat
  BY Bounded
<1>2. ASSUME NEW k \in 1 .. l
      PROVE  c[k] \in S /\ Cardinality(Before(S, c[k])) = k - 1
  <2>1. \E i \in S : Cardinality(Before(S, i)) = k - 1
    <3>1. k - 1 \in Nat /\ k - 1 < Cardinality(S)
      BY <1>1
    <3> QED
      BY <3>1, RankExists
  <2>2. c[k] = CHOOSE i \in S : Cardinality(Before(S, i)) = k - 1
    BY DEF InOrder, Before
  <2> QED
    BY <2>1, <2>2
<1>3. c = [k \in 1 .. l |-> c[k]]
  BY DEF InOrder
<1> HIDE DEF c, l
<1>4. c \in [1 .. l -> S]
  BY <1>2, <1>3
<1>5. c \in Seq(S) /\ Len(c) = l
  BY <1>1, <1>4
<1> QED
  BY <1>1, <1>2, <1>5 DEF c, l

LEMMA InOrderOnce ==
  ASSUME NEW n \in Nat, NEW S, S \subseteq 0 .. n,
         NEW j \in 1 .. Cardinality(S), NEW k \in 1 .. Cardinality(S),
         InOrder(S)[j] = InOrder(S)[k]
  PROVE  j = k
<1>1. /\ Cardinality(Before(S, InOrder(S)[j])) = j - 1
      /\ Cardinality(Before(S, InOrder(S)[k])) = k - 1
      /\ Cardinality(S) \in Nat
  BY InOrderIs
<1> QED
  BY <1>1

LEMMA InOrderAll ==
  ASSUME NEW n \in Nat, NEW S, S \subseteq 0 .. n
  PROVE  \A i \in S : \E k \in 1 .. Cardinality(S) : InOrder(S)[k] = i
<1> TAKE i \in S
<1> DEFINE k == Cardinality(Before(S, i)) + 1
<1>1. /\ Cardinality(Before(S, i)) \in Nat /\ Cardinality(S) \in Nat
      /\ Cardinality(Before(S, i)) < Cardinality(S)
  BY Bounded, BeforeBounded, RankGrows
<1>2. k \in 1 .. Cardinality(S) /\ k - 1 = Cardinality(Before(S, i))
  BY <1>1
<1> HIDE DEF k
<1>3. InOrder(S)[k] \in S /\ Cardinality(Before(S, InOrder(S)[k])) = k - 1
  BY <1>2, InOrderIs
<1>4. InOrder(S)[k] = i
  BY <1>2, <1>3, RankDiffers
<1> QED
  BY <1>2, <1>4

\* Where the first ones follow one another without a gap, they are counted off.
LEMMA InOrderFrom ==
  ASSUME NEW n \in Nat, NEW a \in 0 .. n, NEW b \in 0 .. n,
         NEW S, S \subseteq a .. n, a .. b \subseteq S, NEW k \in 1 .. (b - a + 1)
  PROVE  k <= Cardinality(S) /\ InOrder(S)[k] = a + k - 1
<1> DEFINE i == a + k - 1
<1>1. S \subseteq 0 .. n
  OBVIOUS
<1>2. i \in a .. b /\ i \in Int
  OBVIOUS
<1>3. i \in S
  BY <1>2
<1>4. Before(S, i) = a .. (i - 1)
  <2>1. ASSUME NEW m \in S PROVE m \in a .. n
    OBVIOUS
  <2>2. ASSUME NEW m \in a .. (i - 1) PROVE m \in S /\ m < i
    BY <1>2
  <2>3. ASSUME NEW m \in S, m < i PROVE m \in a .. (i - 1)
    BY <1>2, <2>1, <2>3
  <2> HIDE DEF i
  <2> QED
    BY <2>2, <2>3 DEF Before
<1>5. Cardinality(Before(S, i)) = k - 1
  <2>1. a \in Int /\ i - 1 \in Int
    BY <1>2
  <2>2. Cardinality(a .. (i - 1)) = IF a > i - 1 THEN 0 ELSE (i - 1) - a + 1
    BY <2>1, FS_Interval
  <2> QED
    BY <1>4, <2>2
<1> HIDE DEF i
<1>6. k - 1 < Cardinality(S) /\ Cardinality(S) \in Nat
  BY <1>1, <1>3, <1>5, RankGrows, Bounded
<1>7. k \in 1 .. Cardinality(S)
  BY <1>6
<1>8. InOrder(S)[k] \in S /\ Cardinality(Before(S, InOrder(S)[k])) = k - 1
  BY <1>1, <1>7, InOrderIs
<1>9. InOrder(S)[k] = i
  BY <1>1, <1>3, <1>5, <1>8, RankDiffers
<1> QED
  BY <1>7, <1>9 DEF i

-----------------------------------------------------------------------------
(* The table of commands (obd.c:23-313).                                   *)

\* One half of the table behind the other
LEMMA Behind ==
  ASSUME NEW S, NEW L \in Seq(S), NEW H \in Seq(S), Len(L) = 16, Len(H) = 16,
         NEW i \in 0 .. 31
  PROVE  (L \o H)[i + 1] = IF i < 16 THEN L[i + 1] ELSE H[i - 15]
<1>1. i + 1 \in 1 .. Len(L) + Len(H)
  OBVIOUS
<1>2. (L \o H)[i + 1] = IF i + 1 <= Len(L) THEN L[i + 1] ELSE H[(i + 1) - Len(L)]
  BY <1>1, ConcatProperties
<1>3. CASE i < 16
  <2>1. i + 1 <= Len(L)
    BY <1>3
  <2> QED
    BY <1>2, <1>3, <2>1
<1>4. CASE ~(i < 16)
  <2>1. ~(i + 1 <= Len(L)) /\ (i + 1) - Len(L) = i - 15
    BY <1>4
  <2> QED
    BY <1>2, <1>4, <2>1
<1> QED
  BY <1>3, <1>4

\* A half of the table is a sequence.
LEMMA Half ==
  ASSUME NEW S, NEW L, L = [k \in 1 .. 16 |-> L[k]], \A k \in 1 .. 16 : L[k] \in S
  PROVE  L \in Seq(S) /\ Len(L) = 16
<1>1. L \in [1 .. 16 -> S] /\ 16 \in Nat
  OBVIOUS
<1> QED
  BY <1>1

\* Where a command is in the table
LEMMA TableHalves ==
  ASSUME NEW i \in 0 .. 31
  PROVE  obd_cmds(i) = IF i < 16 THEN LowCommands[i + 1] ELSE HighCommands[i - 15]
<1>1. /\ LowCommands = [k \in 1 .. 16 |-> LowCommands[k]]
      /\ HighCommands = [k \in 1 .. 16 |-> HighCommands[k]]
  BY SMTT(60) DEF LowCommands, HighCommands
<1> DEFINE L == LowCommands
           H == HighCommands
           S == {L[k] : k \in 1 .. 16} \cup {H[k] : k \in 1 .. 16}
<1>2. \A k \in 1 .. 16 : L[k] \in S /\ H[k] \in S
  OBVIOUS
<1> HIDE DEF L, H, S
<1>3. L = [k \in 1 .. 16 |-> L[k]] /\ H = [k \in 1 .. 16 |-> H[k]]
  BY <1>1 DEF L, H
<1>4. L \in Seq(S) /\ Len(L) = 16
  BY <1>2, <1>3, Half
<1>5. H \in Seq(S) /\ Len(H) = 16
  BY <1>2, <1>3, Half
<1>6. (L \o H)[i + 1] = IF i < 16 THEN L[i + 1] ELSE H[i - 15]
  BY <1>4, <1>5, Behind
<1> QED
  BY <1>6 DEF obd_cmds, Commands, L, H

\* The commands with a number from 0 to 31 are for the PID of that number.
LEMMA TableFits ==
  ASSUME NEW i \in 0 .. 31
  PROVE  obd_cmds(i).obd_cmd = i /\ obd_cmds(i).obd_pid = Pids[i + 1]
<1>1. \A k \in 1 .. 16 : LowCommands[k].obd_cmd = k - 1 /\ LowCommands[k].obd_pid = Pids[k]
  BY SMTT(60) DEF LowCommands, Cmd, Pids
<1>2. \A k \in 1 .. 16 : /\ HighCommands[k].obd_cmd = k + 15
                         /\ HighCommands[k].obd_pid = Pids[k + 16]
  BY SMTT(60) DEF HighCommands, Cmd, Pids
<1>3. CASE i < 16
  <2>1. i + 1 \in 1 .. 16 /\ (i + 1) - 1 = i
    BY <1>3
  <2>2. obd_cmds(i) = LowCommands[i + 1]
    BY <1>3, TableHalves
  <2> QED
    BY <1>1, <2>1, <2>2
<1>4. CASE ~(i < 16)
  <2>1. i - 15 \in 1 .. 16 /\ (i - 15) + 15 = i /\ (i - 15) + 16 = i + 1
    BY <1>4
  <2>2. obd_cmds(i) = HighCommands[i - 15]
    BY <1>4, TableHalves
  <2> QED
    BY <1>2, <2>1, <2>2
<1> QED
  BY <1>3, <1>4

\* The handlers, and how many bytes of data they want
HandlerIs(i, h, n) ==
  /\ i \in 4 .. 17 \cup {19} \cup 20 .. 27
  /\ n = IF i \in {12, 16} \cup 20 .. 27 THEN 2 ELSE 1
  /\ h = CASE i = 4  -> "engine_load"       [] i = 5  -> "coolant_temp"
           [] i \in 6 .. 9 -> "fuel_trim"   [] i = 10 -> "fuel_pressure"
           [] i = 11 -> "manifold_pressure" [] i = 12 -> "engine_rpm"
           [] i = 13 -> "vehicle_speed"     [] i = 14 -> "timing_advance"
           [] i = 15 -> "air_temp"          [] i = 16 -> "maf_rate"
           [] i = 17 -> "throttle_pos"      [] i = 19 -> "oxygen_sensors"
           [] i \in 20 .. 27 -> "oxygen_data"

LEMMA Handlers ==
  ASSUME NEW i \in 1 .. 31, obd_cmds(i).handle_data # "NULL"
  PROVE  HandlerIs(i, obd_cmds(i).handle_data, obd_cmds(i).resp_bytes)
<1>1. i \in 0 .. 31
  OBVIOUS
<1>2. CASE i < 16
  <2>1. \A k \in 1 .. 16 :
          LowCommands[k].handle_data # "NULL" /\ k # 1 =>
            HandlerIs(k - 1, LowCommands[k].handle_data, LowCommands[k].resp_bytes)
    BY SMTT(60) DEF LowCommands, Cmd, HandlerIs
  <2>2. PICK k \in 1 .. 16 : k = i + 1 /\ k # 1 /\ k - 1 = i
    BY <1>2
  <2>3. obd_cmds(i) = LowCommands[k]
    BY <1>1, <1>2, <2>2, TableHalves
  <2> QED
    BY <2>1, <2>2, <2>3
<1>3. CASE ~(i < 16)
  <2>1. \A k \in 1 .. 16 :
          HighCommands[k].handle_data # "NULL" =>
            HandlerIs(k + 15, HighCommands[k].handle_data, HighCommands[k].resp_bytes)
    BY SMTT(60) DEF HighCommands, Cmd, HandlerIs
  <2>2. PICK k \in 1 .. 16 : k = i - 15 /\ k + 15 = i
    BY <1>3
  <2>3. obd_cmds(i) = HighCommands[k]
    BY <1>1, <1>3, <2>2, TableHalves
  <2> QED
    BY <2>1, <2>2, <2>3
<1> QED
  BY <1>2, <1>3

-----------------------------------------------------------------------------
(* The list of commands (obd_set_supported_ops, list_push_head).           *)

\* Eight bits put together and taken apart again
LEMMA EightBits ==
  ASSUME NEW b7 \in 0 .. 1, NEW b6 \in 0 .. 1, NEW b5 \in 0 .. 1, NEW b4 \in 0 .. 1,
         NEW b3 \in 0 .. 1, NEW b2 \in 0 .. 1, NEW b1 \in 0 .. 1, NEW b0 \in 0 .. 1,
         NEW s, s = 128 * b7 + 64 * b6 + 32 * b5 + 16 * b4 + 8 * b3 + 4 * b2
                    + 2 * b1 + b0
  PROVE  /\ s \in 0 .. 255
         /\ (s \div (2 ^ 7)) % 2 = b7 /\ (s \div (2 ^ 6)) % 2 = b6
         /\ (s \div (2 ^ 5)) % 2 = b5 /\ (s \div (2 ^ 4)) % 2 = b4
         /\ (s \div (2 ^ 3)) % 2 = b3 /\ (s \div (2 ^ 2)) % 2 = b2
         /\ (s \div (2 ^ 1)) % 2 = b1 /\ (s \div (2 ^ 0)) % 2 = b0
<1>1. /\ 2 ^ 7 = 128 /\ 2 ^ 6 = 64 /\ 2 ^ 5 = 32 /\ 2 ^ 4 = 16
      /\ 2 ^ 3 = 8 /\ 2 ^ 2 = 4 /\ 2 ^ 1 = 2 /\ 2 ^ 0 = 1
  OBVIOUS
<1>2. s \in 0 .. 255
  OBVIOUS
<1>3. (s \div 128) % 2 = b7 /\ (s \div 64) % 2 = b6
  OBVIOUS
<1>4. (s \div 32) % 2 = b5 /\ (s \div 16) % 2 = b4
  OBVIOUS
<1>5. (s \div 8) % 2 = b3 /\ (s \div 4) % 2 = b2
  OBVIOUS
<1>6. (s \div 2) % 2 = b1 /\ (s \div 1) % 2 = b0
  OBVIOUS
<1> QED
  BY <1>1, <1>2, <1>3, <1>4, <1>5, <1>6

\* The number of a PID in an announcement: its byte, and its bit from the left
LEMMA BitPlaces ==
  ASSUME NEW i \in 1 .. 32
  PROVE  \E k \in 1 .. 4, c \in 0 .. 7 :
           /\ ((i - 1) \div 8) + 1 = k /\ MaskBit(i) = 7 - c /\ i = 8 * k - 7 + c
<1>1. PICK c \in 0 .. 7 : c = (i - 1) % 8
  OBVIOUS
<1>2. PICK k \in 1 .. 4 : k = ((i - 1) \div 8) + 1
  OBVIOUS
<1>3. i = 8 * k - 7 + c
  BY <1>1, <1>2
<1> QED
  BY <1>1, <1>2, <1>3 DEF MaskBit

\* What obd_set_supported_ops reads out of an announcement is what obd.h says is
\* in it: "[A7..D0] == [PID $01..PID $20]".
LEMMA AnnouncedIsSupported ==
  ASSUME NEW pids, NEW i \in 1 .. 32, NEW res,
         \A k \in 1 .. 4 : res[k] = Announcement(pids)[k]
  PROVE  Supported(res, i) <=> i \in pids
<1> DEFINE Bit(n) == IF n \in pids THEN 1 ELSE 0
<1>1. PICK k \in 1 .. 4, c \in 0 .. 7 :
        ((i - 1) \div 8) + 1 = k /\ MaskBit(i) = 7 - c /\ i = 8 * k - 7 + c
  BY BitPlaces
<1>2. \A n : Bit(n) \in 0 .. 1
  OBVIOUS
<1>3. PICK s : s = res[k]
  OBVIOUS
<1>4. s = 128 * Bit(8 * k - 7) + 64 * Bit(8 * k - 6) + 32 * Bit(8 * k - 5)
          + 16 * Bit(8 * k - 4) + 8 * Bit(8 * k - 3) + 4 * Bit(8 * k - 2)
          + 2 * Bit(8 * k - 1) + Bit(8 * k)
  BY <1>3 DEF Announcement
<1>5. Supported(res, i) <=> (s \div (2 ^ (7 - c))) % 2 = 1
  BY <1>1, <1>3 DEF Supported
<1>6. i \in pids <=> Bit(8 * k - 7 + c) = 1
  BY <1>1
<1>7. PICK b7 \in 0 .. 1, b6 \in 0 .. 1, b5 \in 0 .. 1, b4 \in 0 .. 1,
           b3 \in 0 .. 1, b2 \in 0 .. 1, b1 \in 0 .. 1, b0 \in 0 .. 1 :
        /\ b7 = Bit(8 * k - 7) /\ b6 = Bit(8 * k - 6) /\ b5 = Bit(8 * k - 5)
        /\ b4 = Bit(8 * k - 4) /\ b3 = Bit(8 * k - 3) /\ b2 = Bit(8 * k - 2)
        /\ b1 = Bit(8 * k - 1) /\ b0 = Bit(8 * k)
  <2> HIDE DEF Bit
  <2> QED
    BY <1>2
<1>8. s = 128 * b7 + 64 * b6 + 32 * b5 + 16 * b4 + 8 * b3 + 4 * b2 + 2 * b1 + b0
  <2> HIDE DEF Bit
  <2> QED
    BY <1>4, <1>7
<1>9. /\ (s \div (2 ^ 7)) % 2 = b7 /\ (s \div (2 ^ 6)) % 2 = b6
      /\ (s \div (2 ^ 5)) % 2 = b5 /\ (s \div (2 ^ 4)) % 2 = b4
      /\ (s \div (2 ^ 3)) % 2 = b3 /\ (s \div (2 ^ 2)) % 2 = b2
      /\ (s \div (2 ^ 1)) % 2 = b1 /\ (s \div (2 ^ 0)) % 2 = b0
  BY <1>8, EightBits
<1> HIDE DEF Bit
<1>10. CASE c = 0
  <2>1. 7 - c = 7 /\ 8 * k - 7 + c = 8 * k - 7
    BY <1>10
  <2> QED
    BY <1>5, <1>6, <1>7, <1>9, <2>1
<1>11. CASE c = 1
  <2>1. 7 - c = 6 /\ 8 * k - 7 + c = 8 * k - 6
    BY <1>11
  <2> QED
    BY <1>5, <1>6, <1>7, <1>9, <2>1
<1>12. CASE c = 2
  <2>1. 7 - c = 5 /\ 8 * k - 7 + c = 8 * k - 5
    BY <1>12
  <2> QED
    BY <1>5, <1>6, <1>7, <1>9, <2>1
<1>13. CASE c = 3
  <2>1. 7 - c = 4 /\ 8 * k - 7 + c = 8 * k - 4
    BY <1>13
  <2> QED
    BY <1>5, <1>6, <1>7, <1>9, <2>1
<1>14. CASE c = 4
  <2>1. 7 - c = 3 /\ 8 * k - 7 + c = 8 * k - 3
    BY <1>14
  <2> QED
    BY <1>5, <1>6, <1>7, <1>9, <2>1
<1>15. CASE c = 5
  <2>1. 7 - c = 2 /\ 8 * k - 7 + c = 8 * k - 2
    BY <1>15
  <2> QED
    BY <1>5, <1>6, <1>7, <1>9, <2>1
<1>16. CASE c = 6
  <2>1. 7 - c = 1 /\ 8 * k - 7 + c = 8 * k - 1
    BY <1>16
  <2> QED
    BY <1>5, <1>6, <1>7, <1>9, <2>1
<1>17. CASE c = 7
  <2>1. 7 - c = 0 /\ 8 * k - 7 + c = 8 * k
    BY <1>17
  <2> QED
    BY <1>5, <1>6, <1>7, <1>9, <2>1
<1> QED
  BY <1>10, <1>11, <1>12, <1>13, <1>14, <1>15, <1>16, <1>17

\* The list has the commands that were pushed, each once and no other.
LEMMA Pushed ==
  ASSUME NEW S, S \subseteq 1 .. 31, NEW l, l = Reverse(InOrder(S))
  PROVE  /\ l \in Seq(1 .. 31)
         /\ \A j, k \in DOMAIN l : l[j] = l[k] => j = k
         /\ \A k \in DOMAIN l : l[k] \in S
         /\ \A i \in S : \E k \in DOMAIN l : l[k] = i
<1>1. PICK c : c = InOrder(S)
  OBVIOUS
<1>2. PICK n : n = Cardinality(S)
  OBVIOUS
<1>3. S \subseteq 0 .. 31 /\ 31 \in Nat /\ \A i \in S : i \in 1 .. 31
  OBVIOUS
<1>4. l = Reverse(c)
  BY <1>1
<1>5. Len(c) = n /\ n \in Nat /\ \A k \in 1 .. n : c[k] \in S
  BY <1>1, <1>2, <1>3, InOrderIs
<1>6. l = [k \in 1 .. n |-> c[(n - k) + 1]]
  BY <1>4, <1>5 DEF Reverse
<1>7. \A k \in 1 .. n : (n - k) + 1 \in 1 .. n /\ l[k] \in S
  BY <1>5, <1>6
<1>8. l \in Seq(1 .. 31) /\ DOMAIN l = 1 .. n
  <2> DEFINE D == 1 .. 31
  <2>1. l \in [1 .. n -> D]
    BY <1>3, <1>6, <1>7
  <2> HIDE DEF D
  <2>2. l \in Seq(D) /\ DOMAIN l = 1 .. n
    BY <1>5, <2>1
  <2> QED
    BY <2>2 DEF D
<1>9. ASSUME NEW j \in 1 .. n, NEW k \in 1 .. n, l[j] = l[k]
       PROVE  j = k
  <2>1. PICK x \in 1 .. n, y \in 1 .. n : x = (n - j) + 1 /\ y = (n - k) + 1
    BY <1>7
  <2>2. c[x] = c[y]
    BY <1>6, <1>9, <2>1
  <2>3. x = y
    BY <1>1, <1>2, <1>3, <2>2, InOrderOnce
  <2> QED
    BY <1>5, <2>1, <2>3
<1>10. ASSUME NEW i \in S
       PROVE  \E k \in 1 .. n : l[k] = i
  <2>1. PICK x \in 1 .. n : c[x] = i
    <3> PICK m \in Nat : S \subseteq 0 .. m
      BY <1>3
    <3>1. \A x \in S : \E k \in 1 .. Cardinality(S) : InOrder(S)[k] = x
      BY InOrderAll, Zenon
    <3> QED
      BY <1>1, <1>2, <3>1
  <2>2. PICK k \in 1 .. n : k = (n - x) + 1 /\ (n - k) + 1 = x
    BY <1>5, <1>7
  <2> QED
    BY <1>6, <2>1, <2>2
<1>11. \A i \in S : \E k \in DOMAIN l : l[k] = i
  BY <1>7, <1>8, <1>10
<1>12. \A j, k \in DOMAIN l : l[j] = l[k] => j = k
  BY <1>8, <1>9
<1> QED
  BY <1>7, <1>8, <1>11, <1>12

\* So it has the commands that are supported.
LEMMA ListIs ==
  ASSUME NEW res, NEW l, l = linked_list(res)
  PROVE  /\ l \in Seq(1 .. 31)
         /\ \A j, k \in DOMAIN l : l[j] = l[k] => j = k
         /\ \A k \in DOMAIN l : Supported(res, l[k])
         /\ \A i \in 1 .. 31 : Supported(res, i) => \E k \in DOMAIN l : l[k] = i
<1>1. PICK S : /\ S \subseteq 1 .. 31 /\ l = Reverse(InOrder(S))
               /\ \A i \in S : Supported(res, i)
               /\ \A i \in 1 .. 31 : Supported(res, i) => i \in S
  BY DEF linked_list
<1>2. /\ l \in Seq(1 .. 31)
      /\ \A j, k \in DOMAIN l : l[j] = l[k] => j = k
      /\ \A k \in DOMAIN l : l[k] \in S
      /\ \A i \in S : \E k \in DOMAIN l : l[k] = i
  BY <1>1, Pushed
<1> QED
  BY <1>1, <1>2

-----------------------------------------------------------------------------
(* The data in an answer (obd_resp, obd_fmt_resp, obd_command).            *)

\* What an answer is made of
Token == -3 .. 271

\* The data begin at the first byte that is the mode plus 0x40.
LEMMA DataFrom ==
  ASSUME NEW answer \in Seq(Token), NEW p \in 1 .. Len(answer), answer[p] = 65,
         \A k \in 1 .. (p - 1) : answer[k] # 65
  PROVE  obd_resp(answer) = SubSeq(answer, p, Len(answer))
<1> DEFINE I == {i \in 1 .. Len(answer) : answer[i] = 65}
<1>1. p \in I /\ \A i \in I : p <= i
  OBVIOUS
<1>2. \A q \in I : (\A i \in I : q <= i) => q = p
  BY <1>1
<1>3. (CHOOSE q \in I : \A i \in I : q <= i) = p
  BY <1>1, <1>2
<1>4. SelectInSeq(answer, LAMBDA t : t = 65) = p
  BY <1>1, <1>3 DEF SelectInSeq, Min
<1> QED
  BY <1>4 DEF obd_resp

LEMMA DataAreTokens ==
  ASSUME NEW answer \in Seq(Token)
  PROVE  obd_resp(answer) \in Seq(Token)
<1> DEFINE I == {i \in 1 .. Len(answer) : answer[i] = 65}
           at == SelectInSeq(answer, LAMBDA t : t = 65)
<1>1. at = IF I # {} THEN Min(I) ELSE 0
  BY DEF SelectInSeq
<1>2. CASE I = {}
  <2>1. obd_resp(answer) = << >>
    BY <1>1, <1>2 DEF obd_resp
  <2> QED
    BY <2>1
<1>3. CASE I # {}
  <2>1. \A i \in I : i \in Nat
    OBVIOUS
  <2>2. \E q \in I : \A i \in I : q <= i
    <3> HIDE DEF I
    <3> QED
      BY <1>3, <2>1, Least
  <2>3. Min(I) \in I
    BY <2>2 DEF Min
  <2>4. at \in 1 .. Len(answer)
    BY <1>1, <1>3, <2>3
  <2>5. obd_resp(answer) = SubSeq(answer, at, Len(answer))
    BY <2>4 DEF obd_resp
  <2> HIDE DEF at, I
  <2> QED
    BY <2>4, <2>5
<1> QED
  BY <1>2, <1>3

\* One digit, and a byte out of two of them
LEMMA DigitRange ==
  ASSUME NEW t \in Token, NEW i \in Nat, HasDigit(t, i)
  PROVE  DigitOf(t, i) \in 0 .. 15
<1>1. t \in Int /\ t >= 0 /\ t <= 271 /\ (i % 2 = 0 => t < 256)
  BY DEF HasDigit, Token
<1>2. CASE t >= 256
  BY <1>1, <1>2 DEF DigitOf
<1>3. CASE ~(t >= 256)
  <2>1. t \div 16 \in 0 .. 15 /\ t % 16 \in 0 .. 15
    BY <1>1, <1>3
  <2> QED
    BY <1>3, <2>1 DEF DigitOf
<1> QED
  BY <1>2, <1>3

LEMMA ByteRange ==
  ASSUME NEW x \in 0 .. 15, NEW y \in 0 .. 15
  PROVE  16 * x + y \in 0 .. 255
  OBVIOUS

LEMMA ByteDigits ==
  ASSUME NEW t \in 0 .. 255, NEW i \in Nat
  PROVE  HasDigit(t, i) /\ DigitOf(t, i) = IF i % 2 = 0 THEN t \div 16 ELSE t % 16
  BY DEF HasDigit, DigitOf

\* The places of the digits of an answer
DigitPlaces(data) == {i \in 2 .. 2 * Len(data) + 1 : HasDigit(data[i \div 2], i)}

\* Every digit is one, and there are as many as places with one.
LEMMA DigitsOf ==
  ASSUME NEW data \in Seq(Token)
  PROVE  LET S == DigitPlaces(data)
         IN  /\ S \subseteq 2 .. 2 * Len(data) + 1
             /\ Cardinality(S) \in Nat
             /\ obd_fmt_resp(data) \in Seq(0 .. 15)
             /\ Len(obd_fmt_resp(data)) = Cardinality(S)
             /\ \A k \in 1 .. Cardinality(S) :
                  obd_fmt_resp(data)[k]
                    = DigitOf(data[InOrder(S)[k] \div 2], InOrder(S)[k])
<1> DEFINE S == DigitPlaces(data)
           n == 2 * Len(data) + 1
           at == InOrder(S)
           f == obd_fmt_resp(data)
<1>1. n \in Nat /\ S \subseteq 2 .. n
  BY DEF DigitPlaces
<1>2. S \subseteq 0 .. n
  BY <1>1
<1>3. /\ at \in Seq(S) /\ Len(at) = Cardinality(S) /\ Cardinality(S) \in Nat
      /\ \A k \in 1 .. Cardinality(S) : at[k] \in S
  BY <1>1, <1>2, InOrderIs
<1>4. f = [k \in 1 .. Len(at) |-> DigitOf(data[at[k] \div 2], at[k])]
  BY DEF obd_fmt_resp, DigitPlaces
<1>5. ASSUME NEW i \in S PROVE DigitOf(data[i \div 2], i) \in 0 .. 15
  <2>1. i \in 2 .. n /\ HasDigit(data[i \div 2], i)
    BY DEF DigitPlaces
  <2> DEFINE t == data[i \div 2]
  <2>2. t \in Token
    <3>1. i \div 2 \in 1 .. Len(data)
      BY <2>1
    <3> QED
      BY <3>1
  <2>3. i \in Nat
    BY <2>1
  <2> QED
    BY <2>1, <2>2, <2>3, DigitRange
<1> HIDE DEF S, at, f
<1>6. f = [k \in 1 .. Cardinality(S) |-> DigitOf(data[at[k] \div 2], at[k])]
  BY <1>3, <1>4
<1>7. f \in [1 .. Cardinality(S) -> 0 .. 15]
  BY <1>3, <1>5, <1>6
<1> DEFINE D == 0 .. 15
<1> HIDE DEF D
<1>8. f \in [1 .. Cardinality(S) -> D]
  BY <1>7 DEF D
<1>9. f \in Seq(D) /\ Len(f) = Cardinality(S)
  BY <1>3, <1>8
<1> QED
  BY <1>1, <1>3, <1>6, <1>9 DEF D, S, at, f

\* What obd_command stores is bytes.
LEMMA CommandBytes ==
  ASSUME NEW answer \in Seq(Token)
  PROVE  obd_command(answer) \in Seq(0 .. 255)
<1> DEFINE d == obd_fmt_resp(obd_resp(answer))
           l == Len(d) \div 2
           b == [k \in 1 .. l |-> 16 * d[2 * k - 1] + d[2 * k]]
<1>1. obd_command(answer) \in {<< >>, b}
  BY DEF obd_command
<1> DEFINE D == 0 .. 15
<1>2. d \in Seq(D)
  BY DataAreTokens, DigitsOf
<1> HIDE DEF d, D
<1>3. Len(d) \in Nat /\ l \in Nat /\ 2 * l <= Len(d)
  BY <1>2
<1>4. ASSUME NEW k \in 1 .. l PROVE 16 * d[2 * k - 1] + d[2 * k] \in 0 .. 255
  <2>1. 2 * k - 1 \in 1 .. Len(d) /\ 2 * k \in 1 .. Len(d)
    BY <1>3
  <2>2. d[2 * k - 1] \in D /\ d[2 * k] \in D
    BY <1>2, <2>1
  <2> QED
    BY <2>2, ByteRange DEF D
<1> HIDE DEF l
<1> DEFINE B == 0 .. 255
<1>5. b \in [1 .. l -> B]
  BY <1>4
<1> HIDE DEF b, B
<1>6. b \in Seq(B) /\ << >> \in Seq(B)
  BY <1>3, <1>5
<1> QED
  BY <1>1, <1>6 DEF B

\* Where an answer begins with bytes, their digits are in their places.
LEMMA DigitsFrom ==
  ASSUME NEW n \in Nat, NEW S, S \subseteq 2 .. n, NEW e \in 0 .. n,
         2 .. e \subseteq S, NEW q \in 2 .. e
  PROVE  q - 1 \in 1 .. Cardinality(S) /\ InOrder(S)[q - 1] = q
<1>1. PICK a \in 0 .. n, k \in 1 .. (e - 1) : a = 2 /\ k = q - 1
  OBVIOUS
<1>2. S \subseteq a .. n /\ a .. e \subseteq S
  BY <1>1
<1>3. k <= Cardinality(S) /\ InOrder(S)[k] = a + k - 1
  <2>1. k \in 1 .. (e - a + 1)
    BY <1>1
  <2> QED
    BY <1>2, <2>1, InOrderFrom
<1>4. Cardinality(S) \in Nat
  <2>1. S \subseteq 0 .. n
    OBVIOUS
  <2> QED
    BY <2>1, Bounded
<1> QED
  BY <1>1, <1>3, <1>4

LEMMA PlacesFrom ==
  ASSUME NEW data \in Seq(Token), NEW m \in 1 .. Len(data),
         \A k \in 1 .. m : data[k] \in 0 .. 255
  PROVE  2 .. (2 * m + 1) \subseteq DigitPlaces(data)
<1>1. ASSUME NEW i \in 2 .. (2 * m + 1) PROVE i \in DigitPlaces(data)
  <2>1. i \div 2 \in 1 .. m /\ i \in 2 .. 2 * Len(data) + 1 /\ i \in Nat
    OBVIOUS
  <2>2. data[i \div 2] \in 0 .. 255
    BY <2>1
  <2>3. HasDigit(data[i \div 2], i)
    BY <2>1, <2>2, ByteDigits
  <2> QED
    BY <2>1, <2>3 DEF DigitPlaces
<1> QED
  BY <1>1

LEMMA DigitsStart ==
  ASSUME NEW data \in Seq(Token), NEW m \in 1 .. Len(data),
         \A k \in 1 .. m : data[k] \in 0 .. 255, NEW q \in 2 .. (2 * m + 1)
  PROVE  /\ q - 1 <= Len(obd_fmt_resp(data))
         /\ obd_fmt_resp(data)[q - 1] = DigitOf(data[q \div 2], q)
<1> DEFINE S == DigitPlaces(data)
<1>1. PICK n \in Nat, e \in Nat : n = 2 * Len(data) + 1 /\ e = 2 * m + 1 /\ e <= n
  OBVIOUS
<1>2. e \in 0 .. n
  BY <1>1
<1>3. S \subseteq 2 .. n /\ 2 .. e \subseteq S
  BY <1>1, DigitsOf, PlacesFrom
<1>4. q \in 2 .. e
  BY <1>1
<1>5. q - 1 \in 1 .. Cardinality(S) /\ InOrder(S)[q - 1] = q
  BY <1>2, <1>3, <1>4, DigitsFrom
<1>6. /\ Len(obd_fmt_resp(data)) = Cardinality(S) /\ Cardinality(S) \in Nat
      /\ \A k \in 1 .. Cardinality(S) :
           obd_fmt_resp(data)[k] = DigitOf(data[InOrder(S)[k] \div 2], InOrder(S)[k])
  BY DigitsOf
<1> HIDE DEF S
<1> QED
  BY <1>5, <1>6

LEMMA BytesStart ==
  ASSUME NEW data \in Seq(Token), NEW m \in 1 .. Len(data),
         \A k \in 1 .. m : data[k] \in 0 .. 255, NEW k \in 1 .. m
  PROVE  LET d == obd_fmt_resp(data)
         IN  16 * d[2 * k - 1] + d[2 * k] = data[k] /\ 2 * k <= Len(d)
<1> DEFINE d == obd_fmt_resp(data)
<1>1. PICK t \in 0 .. 255 : t = data[k]
  OBVIOUS
<1>2. PICK x \in 2 .. (2 * m + 1), y \in 2 .. (2 * m + 1) :
        x = 2 * k /\ y = 2 * k + 1
  OBVIOUS
<1>3. /\ x \in Nat /\ x \div 2 = k /\ x % 2 = 0
      /\ y \in Nat /\ y \div 2 = k /\ y % 2 = 1
      /\ x - 1 = 2 * k - 1 /\ y - 1 = 2 * k
  BY <1>2
<1>4. d[x - 1] = DigitOf(t, x) /\ d[y - 1] = DigitOf(t, y) /\ y - 1 <= Len(d)
  BY <1>1, <1>3, DigitsStart
<1> HIDE DEF d
<1>5. DigitOf(t, x) = t \div 16 /\ DigitOf(t, y) = t % 16
  <2>1. DigitOf(t, x) = IF x % 2 = 0 THEN t \div 16 ELSE t % 16
    BY <1>3, ByteDigits
  <2>2. DigitOf(t, y) = IF y % 2 = 0 THEN t \div 16 ELSE t % 16
    BY <1>3, ByteDigits
  <2> QED
    BY <1>3, <2>1, <2>2
<1>6. 16 * (t \div 16) + (t % 16) = t
  OBVIOUS
<1> QED
  BY <1>1, <1>3, <1>4, <1>5, <1>6 DEF d

\* When an answer begins with m bytes of data, these are what is stored first, or
\* nothing is; and if there is nothing else they are all of it.
DataAt(answer, p, m) ==
  /\ answer \in Seq(Token) /\ p \in 1 .. Len(answer) /\ answer[p] = 65
  /\ \A k \in 1 .. (p - 1) : answer[k] # 65
  /\ m \in 1 .. (Len(answer) - p + 1)
  /\ \A k \in 1 .. m : answer[p + k - 1] \in 0 .. 255

LEMMA CommandStart ==
  ASSUME NEW answer, NEW p, NEW m, DataAt(answer, p, m)
  PROVE  /\ obd_command(answer) # << >> =>
              /\ Len(obd_command(answer)) >= m
              /\ \A k \in 1 .. m : obd_command(answer)[k] = answer[p + k - 1]
         /\ /\ m = Len(answer) - p + 1
            /\ \A k \in 1 .. Len(answer) : answer[k] \notin {NO_DATA, NO_CONNECT}
            => obd_command(answer) # << >>
<1>0. /\ answer \in Seq(Token) /\ p \in 1 .. Len(answer) /\ answer[p] = 65
      /\ \A k \in 1 .. (p - 1) : answer[k] # 65
      /\ m \in 1 .. (Len(answer) - p + 1)
      /\ \A k \in 1 .. m : answer[p + k - 1] \in 0 .. 255
  BY DEF DataAt
<1> USE <1>0
<1>1. PICK data \in Seq(Token) :
        /\ data = SubSeq(answer, p, Len(answer))
        /\ Len(data) = Len(answer) - p + 1
        /\ \A k \in 1 .. Len(data) : data[k] = answer[p + k - 1]
  <2> DEFINE s == SubSeq(answer, p, Len(answer))
  <2>1. p \in 1 .. (Len(answer) + 1) /\ Len(answer) \in (p - 1) .. Len(answer)
    OBVIOUS
  <2>2. /\ s \in Seq(Token) /\ Len(s) = Len(answer) - p + 1
        /\ \A k \in 1 .. (Len(answer) - p + 1) : s[k] = answer[p + k - 1]
    BY <2>1, SubSeqProperties
  <2>3. s = SubSeq(answer, p, Len(answer))
    OBVIOUS
  <2> HIDE DEF s
  <2>4. \A k \in 1 .. Len(s) : s[k] = answer[p + k - 1]
    BY <2>2
  <2> WITNESS s \in Seq(Token)
  <2> QED
    BY <2>2, <2>3, <2>4
<1>2. obd_resp(answer) = data
  BY <1>1, DataFrom
<1>3. m \in 1 .. Len(data)
  BY <1>1
<1>4. \A k \in 1 .. m : data[k] \in 0 .. 255 /\ data[k] = answer[p + k - 1]
  <2> TAKE k \in 1 .. m
  <2>1. k \in 1 .. Len(data)
    BY <1>3
  <2> QED
    BY <1>1, <2>1
<1>5. PICK d : d = obd_fmt_resp(data)
  OBVIOUS
<1>6. d \in Seq(0 .. 15)
  BY <1>5, DigitsOf
<1>7. \A k \in 1 .. m : 16 * d[2 * k - 1] + d[2 * k] = data[k] /\ 2 * k <= Len(d)
  <2> TAKE k \in 1 .. m
  <2>1. \A j \in 1 .. m : data[j] \in 0 .. 255
    BY <1>4
  <2>2. LET f == obd_fmt_resp(data)
        IN  16 * f[2 * k - 1] + f[2 * k] = data[k] /\ 2 * k <= Len(f)
    BY <1>3, <2>1, BytesStart
  <2> QED
    BY <1>5, <2>2
<1>8. PICK l \in Nat : l = Len(d) \div 2 /\ l >= m
  <2>0. Len(d) \in Nat
    <3> DEFINE D == 0 .. 15
    <3>1. d \in Seq(D)
      BY <1>6
    <3> HIDE DEF D
    <3> QED
      BY <3>1
  <2>1. 2 * m <= Len(d) /\ Len(d) \in Nat
    BY <1>3, <1>7, <2>0
  <2>2. Len(d) \div 2 \in Nat /\ Len(d) \div 2 >= m
    BY <2>1
  <2> QED
    BY <2>2
<1> DEFINE b == [k \in 1 .. l |-> 16 * d[2 * k - 1] + d[2 * k]]
           bytes == obd_command(answer)
<1>9. bytes \in {<< >>, b}
  BY <1>2, <1>5, <1>8 DEF obd_command
<1>10. Len(b) = l /\ \A k \in 1 .. m : k \in 1 .. l /\ b[k] = data[k]
  <2>1. \A k \in 1 .. m : k \in 1 .. l
    BY <1>3, <1>8
  <2>2. Len(b) = l
    <3> DEFINE B == {b[k] : k \in 1 .. l}
    <3>1. b = [k \in 1 .. l |-> b[k]] /\ \A k \in 1 .. l : b[k] \in B
      OBVIOUS
    <3> HIDE DEF b, B
    <3>2. b \in [1 .. l -> B]
      BY <3>1
    <3>3. b \in Seq(B) /\ DOMAIN b = 1 .. l
      BY <1>8, <3>2
    <3> QED
      BY <1>8, <3>3
  <2> QED
    BY <1>7, <2>1, <2>2
<1>11. ASSUME bytes # << >>
       PROVE  Len(bytes) >= m /\ \A k \in 1 .. m : bytes[k] = answer[p + k - 1]
  <2> HIDE DEF b, bytes
  <2> QED
    BY <1>4, <1>8, <1>9, <1>10, <1>11
<1>12. ASSUME m = Len(answer) - p + 1,
              \A k \in 1 .. Len(answer) : answer[k] \notin {NO_DATA, NO_CONNECT}
       PROVE  bytes # << >>
  <2>1. PICK S : S = DigitPlaces(data)
    OBVIOUS
  <2>2. PICK e \in Nat : e = 2 * m + 1 /\ e = 2 * Len(data) + 1
    BY <1>1, <1>12
  <2>3. S = 2 .. e
    <3>1. S \subseteq 2 .. e
      BY <2>1, <2>2, DigitsOf
    <3>2. 2 .. (2 * m + 1) \subseteq S
      BY <1>3, <1>4, <2>1, PlacesFrom
    <3> QED
      BY <2>2, <3>1, <3>2
  <2>4. Cardinality(S) = 2 * m
    <3>1. 2 \in Int /\ e \in Int /\ ~(2 > e)
      BY <2>2
    <3>2. Cardinality(2 .. e) = e - 2 + 1
      BY <3>1, FS_Interval
    <3> QED
      BY <2>2, <2>3, <3>2
  <2>5. Len(d) = 2 * m
    BY <1>5, <2>1, <2>4, DigitsOf
  <2>6. Len(d) % 2 # 1
    BY <2>5
  <2>7. bytes = b
    BY <1>2, <1>5, <1>8, <1>12, <2>6 DEF obd_command
  <2>8. 1 \in DOMAIN b
    BY <1>3, <1>8
  <2> HIDE DEF b, bytes
  <2> QED
    BY <2>7, <2>8
<1> QED
  BY <1>11, <1>12

-----------------------------------------------------------------------------
(* What the car answers, and what initialize_obd and obd_command make of it. *)

\* An answer with data: where they begin, and what is in the places that count
SaysAt(answer, p, n, a, b, r) ==
  /\ n \in 1 .. 31 /\ r \in 1 .. 2 /\ a \in 0 .. 255 /\ b \in 0 .. 255
  /\ p \in 1 .. 2 /\ p + r + 1 <= Len(answer)
  /\ answer[p] = 65 /\ (p = 2 => answer[1] # 65)
  /\ answer[p + 1] = n /\ answer[p + 2] = a /\ (r = 2 => answer[p + 3] = b)

\* The data of PID n, and the answers of two control units behind one another
DataOf(n, a, b, r) == <<65, n>> \o SubSeq(<<a, b>>, 1, r)
Twice(d, e) == (<<PADDING>> \o d) \o (<<PADDING>> \o e)

LEMMA DataIs ==
  ASSUME NEW n \in 1 .. 31, NEW r \in 1 .. 2, NEW a \in 0 .. 255, NEW b \in 0 .. 255
  PROVE  /\ DataOf(n, a, b, r) \in Seq(Token)
         /\ Len(DataOf(n, a, b, r)) = r + 2
         /\ SaysAt(DataOf(n, a, b, r), 1, n, a, b, r)
<1>1. PICK s, t, d : /\ s = <<65, n>> /\ t = SubSeq(<<a, b>>, 1, r)
                     /\ d = s \o t /\ d = DataOf(n, a, b, r)
  BY DEF DataOf
<1>2. s \in Seq(Token) /\ Len(s) = 2 /\ s[1] = 65 /\ s[2] = n
  <2>1. 65 \in Token /\ n \in Token
    BY DEF Token
  <2> QED
    BY <1>1, <2>1
<1>3. t \in Seq(Token) /\ Len(t) = r /\ \A i \in 1 .. r : t[i] = <<a, b>>[i]
  <2> DEFINE w == <<a, b>>
  <2>1. \A i \in 1 .. r : w[i] \in Token
    <3> TAKE i \in 1 .. r
    <3>1. i = 1 \/ i = 2
      OBVIOUS
    <3>2. w[1] = a /\ w[2] = b
      OBVIOUS
    <3>3. a \in Token /\ b \in Token
      BY DEF Token
    <3> HIDE DEF w
    <3> QED
      BY <3>1, <3>2, <3>3
  <2>2. r \in Int /\ 1 <= r /\ r - 1 + 1 = r
    OBVIOUS
  <2> HIDE DEF w
  <2>3. /\ SubSeq(w, 1, r) \in Seq(Token)
        /\ Len(SubSeq(w, 1, r)) = IF 1 <= r THEN r - 1 + 1 ELSE 0
        /\ \A i \in 1 .. (r - 1 + 1) : SubSeq(w, 1, r)[i] = w[1 + i - 1]
    BY <2>1, <2>2, SubSeqProperties
  <2>4. \A i \in 1 .. r : 1 + i - 1 = i
    OBVIOUS
  <2> QED
    BY <1>1, <2>2, <2>3, <2>4 DEF w
<1>4. d = s \o t
  BY <1>1, Zenon
<1>5. /\ d \in Seq(Token) /\ Len(d) = Len(s) + Len(t)
      /\ \A i \in 1 .. Len(s) + Len(t) :
           d[i] = IF i <= Len(s) THEN s[i] ELSE t[i - Len(s)]
  <2>1. s \in Seq(Token) /\ t \in Seq(Token)
    BY <1>2, <1>3
  <2>2. /\ s \o t \in Seq(Token) /\ Len(s \o t) = Len(s) + Len(t)
        /\ \A i \in 1 .. Len(s) + Len(t) :
             (s \o t)[i] = IF i <= Len(s) THEN s[i] ELSE t[i - Len(s)]
    BY <2>1, ConcatProperties, Zenon
  <2> QED
    BY <1>4, <2>2, Zenon
<1>6. \A i \in 1 .. r : d[2 + i] = <<a, b>>[i]
  <2> TAKE i \in 1 .. r
  <2>1. 2 + i \in 1 .. (2 + r) /\ ~(2 + i <= 2) /\ (2 + i) - 2 = i
    OBVIOUS
  <2>2. d[2 + i] = t[(2 + i) - 2]
    BY <1>2, <1>3, <1>5, <2>1
  <2> QED
    BY <1>3, <2>1, <2>2
<1>7. d[1] = 65 /\ d[2] = n
  <2>1. 1 \in 1 .. (2 + r) /\ 2 \in 1 .. (2 + r)
    OBVIOUS
  <2> QED
    BY <1>2, <1>3, <1>5, <2>1
<1>8. d[3] = a
  <2>1. 1 \in 1 .. r /\ 2 + 1 = 3
    OBVIOUS
  <2> QED
    BY <1>6, <2>1
<1>9. r = 2 => d[4] = b
  <2>1. ASSUME r = 2 PROVE d[4] = b
    <3>1. 2 \in 1 .. r /\ 2 + 2 = 4
      BY <2>1
    <3> QED
      BY <1>6, <3>1
  <2> QED
    BY <2>1
<1>10. Len(d) = r + 2
  BY <1>2, <1>3, <1>5
<1>11. SaysAt(d, 1, n, a, b, r)
  BY <1>7, <1>8, <1>9, <1>10 DEF SaysAt
<1> QED
  BY <1>1, <1>5, <1>10, <1>11

\* The answers of two control units, one behind the other
LEMMA PaddedIs ==
  ASSUME NEW d \in Seq(Token), NEW e \in Seq(Token), d # << >>,
         NEW x, x = Twice(d, e)
  PROVE  /\ x \in Seq(Token) /\ Len(x) >= Len(d) + 1
         /\ x[1] = PADDING /\ \A i \in 1 .. Len(d) : x[i + 1] = d[i]
<1>1. PICK s, c, f : /\ s = <<PADDING>> /\ c = s \o d /\ f = s \o e
                     /\ x = c \o f
  BY DEF Twice
<1>2. s \in Seq(Token) /\ Len(s) = 1 /\ s[1] = PADDING
  <2>1. PADDING \in Token
    BY DEF PADDING, Token
  <2> QED
    BY <1>1, <2>1
<1>3. /\ s \o d \in Seq(Token) /\ Len(s \o d) = Len(s) + Len(d)
      /\ \A i \in 1 .. Len(s) + Len(d) :
           (s \o d)[i] = IF i <= Len(s) THEN s[i] ELSE d[i - Len(s)]
  BY <1>2, ConcatProperties, Zenon
<1>4. s \o e \in Seq(Token)
  BY <1>2, ConcatProperties, Zenon
<1>5. c \in Seq(Token) /\ f \in Seq(Token)
  BY <1>1, <1>3, <1>4, Zenon
<1>6. /\ c \o f \in Seq(Token) /\ Len(c \o f) = Len(c) + Len(f)
      /\ \A i \in 1 .. Len(c) + Len(f) :
           (c \o f)[i] = IF i <= Len(c) THEN c[i] ELSE f[i - Len(c)]
  BY <1>5, ConcatProperties, Zenon
<1>7. PICK l \in Nat, m \in Nat : l = Len(d) /\ m = Len(f)
  BY <1>5
<1>8. /\ Len(c) = 1 + l
      /\ \A i \in 1 .. 1 + l : c[i] = IF i <= 1 THEN s[i] ELSE d[i - 1]
  <2>1. /\ Len(c) = Len(s) + Len(d)
        /\ \A i \in 1 .. Len(s) + Len(d) :
             c[i] = IF i <= Len(s) THEN s[i] ELSE d[i - Len(s)]
    BY <1>1, <1>3, Zenon
  <2> QED
    BY <1>2, <1>7, <2>1
<1>9. /\ x \in Seq(Token) /\ Len(x) = 1 + l + m
      /\ \A i \in 1 .. 1 + l : x[i] = c[i]
  <2>1. /\ x \in Seq(Token) /\ Len(x) = Len(c) + Len(f)
        /\ \A i \in 1 .. Len(c) + Len(f) :
             x[i] = IF i <= Len(c) THEN c[i] ELSE f[i - Len(c)]
    BY <1>1, <1>6, Zenon
  <2> QED
    BY <1>7, <1>8, <2>1
<1>10. ASSUME NEW i \in 1 .. l PROVE x[i + 1] = d[i]
  <2>1. i + 1 \in 1 .. 1 + l /\ ~(i + 1 <= 1) /\ (i + 1) - 1 = i
    BY <1>7
  <2>2. x[i + 1] = c[i + 1]
    BY <1>9, <2>1
  <2>3. c[i + 1] = d[(i + 1) - 1]
    BY <1>8, <2>1
  <2> QED
    BY <2>1, <2>2, <2>3
<1>11. x[1] = PADDING
  <2>1. 1 \in 1 .. 1 + l
    BY <1>7
  <2> QED
    BY <1>2, <1>8, <1>9, <2>1
<1> QED
  BY <1>7, <1>9, <1>10, <1>11

\* What two control units say is in the first answer of them.
LEMMA PaddedSays ==
  ASSUME NEW n \in 1 .. 31, NEW r \in 1 .. 2, NEW a \in 0 .. 255, NEW b \in 0 .. 255,
         NEW d \in Seq(Token), Len(d) = r + 2, SaysAt(d, 1, n, a, b, r),
         NEW e \in Seq(Token)
  PROVE  Twice(d, e) \in Seq(Token) /\ SaysAt(Twice(d, e), 2, n, a, b, r)
<1>1. d[1] = 65 /\ d[2] = n /\ d[3] = a /\ (r = 2 => d[4] = b)
  BY DEF SaysAt
<1>2. PICK y : y = Twice(d, e)
  OBVIOUS
<1>3. d # << >>
  OBVIOUS
<1>4. /\ y \in Seq(Token) /\ Len(y) >= Len(d) + 1
      /\ y[1] = PADDING /\ \A i \in 1 .. Len(d) : y[i + 1] = d[i]
  BY <1>2, <1>3, PaddedIs, Zenon
<1>5. \A i \in 1 .. r + 2 : y[i + 1] = d[i]
  BY <1>1, <1>4
<1>6. y[2] = 65 /\ y[3] = n /\ y[4] = a
  <2>1. 1 \in 1 .. r + 2 /\ 2 \in 1 .. r + 2 /\ 3 \in 1 .. r + 2
    OBVIOUS
  <2>2. y[1 + 1] = d[1] /\ y[2 + 1] = d[2] /\ y[3 + 1] = d[3]
    BY <1>5, <2>1
  <2> QED
    BY <1>1, <2>2
<1>7. ASSUME r = 2 PROVE y[5] = b
  <2>1. 4 \in 1 .. r + 2
    BY <1>7
  <2>2. y[4 + 1] = d[4]
    BY <1>5, <2>1
  <2> QED
    BY <1>1, <1>7, <2>2
<1>8. y[1] # 65 /\ Len(y) \in Nat /\ Len(y) >= r + 3
  BY <1>1, <1>4 DEF PADDING
<1>9. SaysAt(y, 2, n, a, b, r)
  BY <1>6, <1>7, <1>8 DEF SaysAt
<1> QED
  BY <1>2, <1>4, <1>9

\* The answers to the command of PID n
IsAnswer(n, r, x) ==
  \/ \E a \in Values, b \in Values :
       \/ x = <<DataOf(n, a, b, r), <<n, a, b>> >>
       \/ x = <<Twice(DataOf(n, a, b, r), DataOf(n, b, a, r)), <<n, a, b>> >>
       \/ x = << <<65, n, 256 + (a % 16)>>, << >> >>
       \/ x = << <<65, n + 1, a>>, << >> >>
  \/ x = << <<65, n>>, << >> >>
  \/ x = << <<NO_DATA>>, << >> >>

LEMMA AnswersAre ==
  ASSUME NEW n \in 1 .. 31, NEW r, r = obd_cmds(n).resp_bytes, NEW x \in Answers(n)
  PROVE  IsAnswer(n, r, x)
<1> DEFINE F(a, b) ==
             { <<DataOf(n, a, b, r), <<n, a, b>> >>,
               <<Twice(DataOf(n, a, b, r), DataOf(n, b, a, r)), <<n, a, b>> >>,
               << <<65, n, 256 + (a % 16)>>, << >> >>,
               << <<65, n + 1, a>>, << >> >> }
           G == { << <<65, n>>, << >> >>, << <<NO_DATA>>, << >> >> }
<1>1. Answers(n) = (UNION {F(a, b) : a \in Values, b \in Values}) \cup G
  BY DEF Answers, DataOf, Twice
<1> HIDE DEF F, G
<1>2. (\E a \in Values, b \in Values : x \in F(a, b)) \/ x \in G
  BY <1>1
<1> USE DEF F, G
<1>3. ASSUME NEW a \in Values, NEW b \in Values, x \in F(a, b)
      PROVE  \/ x = <<DataOf(n, a, b, r), <<n, a, b>> >>
             \/ x = <<Twice(DataOf(n, a, b, r), DataOf(n, b, a, r)), <<n, a, b>> >>
             \/ x = << <<65, n, 256 + (a % 16)>>, << >> >>
             \/ x = << <<65, n + 1, a>>, << >> >>
  BY <1>3, Zenon
<1>4. ASSUME x \in G
      PROVE  x = << <<65, n>>, << >> >> \/ x = << <<NO_DATA>>, << >> >>
  BY <1>4, Zenon
<1> HIDE DEF F, G
<1> QED
  BY <1>2, <1>3, <1>4, Zenon DEF IsAnswer

\* What the car answers, and where what it says is
LEMMA AnswersSay ==
  ASSUME NEW n \in 1 .. 31, NEW r \in 1 .. 2, r = obd_cmds(n).resp_bytes,
         NEW x \in Answers(n)
  PROVE  /\ x[1] \in Seq(Token)
         /\ x[2] # << >> =>
              \E a \in 0 .. 255, b \in 0 .. 255, p \in 1 .. 2 :
                x[2] = <<n, a, b>> /\ SaysAt(x[1], p, n, a, b, r)
<1>1. ASSUME NEW a \in Values PROVE a \in 0 .. 255
  BY ValueAssumption
<1>2. ASSUME NEW y \in Seq(Token), x = <<y, << >> >>
      PROVE  x[1] \in Seq(Token) /\ x[2] = << >>
  BY <1>2
<1>3. ASSUME NEW a \in 0 .. 255, NEW b \in 0 .. 255, NEW y \in Seq(Token),
             NEW p \in 1 .. 2, x = <<y, <<n, a, b>> >>, SaysAt(y, p, n, a, b, r)
      PROVE  x[1] \in Seq(Token) /\ x[2] = <<n, a, b>> /\ SaysAt(x[1], p, n, a, b, r)
  BY <1>3
<1>4. ASSUME NEW a \in Values, NEW b \in Values,
             \/ x = <<DataOf(n, a, b, r), <<n, a, b>> >>
             \/ x = <<Twice(DataOf(n, a, b, r), DataOf(n, b, a, r)), <<n, a, b>> >>
      PROVE  /\ x[1] \in Seq(Token) /\ a \in 0 .. 255 /\ b \in 0 .. 255
             /\ \E p \in 1 .. 2 :
                  x[2] = <<n, a, b>> /\ SaysAt(x[1], p, n, a, b, r)
  <2>1. a \in 0 .. 255 /\ b \in 0 .. 255 /\ 1 \in 1 .. 2 /\ 2 \in 1 .. 2
    BY <1>1
  <2>2. PICK d, e, y : /\ d = DataOf(n, a, b, r) /\ e = DataOf(n, b, a, r)
                       /\ y = Twice(d, e)
    OBVIOUS
  <2>3. d \in Seq(Token) /\ SaysAt(d, 1, n, a, b, r)
    BY <2>1, <2>2, DataIs, Zenon
  <2>4. y \in Seq(Token) /\ SaysAt(y, 2, n, a, b, r)
    <3>1. e \in Seq(Token) /\ Len(d) = r + 2
      BY <2>1, <2>2, DataIs, Zenon
    <3> QED
      BY <2>1, <2>2, <2>3, <3>1, PaddedSays, Zenon
  <2>5. x = <<d, <<n, a, b>> >> \/ x = <<y, <<n, a, b>> >>
    BY <1>4, <2>2
  <2> QED
    BY <1>3, <2>1, <2>3, <2>4, <2>5
<1>5. ASSUME NEW a \in Values,
             \/ x = << <<65, n, 256 + (a % 16)>>, << >> >>
             \/ x = << <<65, n + 1, a>>, << >> >>
      PROVE  x[1] \in Seq(Token) /\ x[2] = << >>
  <2>1. PICK v \in Token, w \in Token, u \in Token :
          65 \in Token /\ v = 256 + (a % 16) /\ w = n + 1 /\ u = a
    <3>1. 256 + (a % 16) \in Token /\ n + 1 \in Token /\ a \in Token /\ 65 \in Token
      BY <1>1 DEF Token
    <3> QED
      BY <3>1
  <2>2. n \in Token
    BY DEF Token
  <2>3. <<65, n, v>> \in Seq(Token) /\ <<65, w, u>> \in Seq(Token)
    BY <2>1, <2>2
  <2>4. x = << <<65, n, v>>, << >> >> \/ x = << <<65, w, u>>, << >> >>
    BY <1>5, <2>1
  <2> QED
    BY <1>2, <2>3, <2>4
<1>6. ASSUME x = << <<65, n>>, << >> >> \/ x = << <<NO_DATA>>, << >> >>
      PROVE  x[1] \in Seq(Token) /\ x[2] = << >>
  <2>1. 65 \in Token /\ n \in Token /\ NO_DATA \in Token
    BY DEF Token, NO_DATA
  <2>2. <<65, n>> \in Seq(Token) /\ <<NO_DATA>> \in Seq(Token)
    BY <2>1
  <2> QED
    BY <1>2, <1>6, <2>2
<1>7. CASE x = << <<65, n>>, << >> >> \/ x = << <<NO_DATA>>, << >> >>
  BY <1>6, <1>7
<1>8. CASE \E a \in Values, b \in Values :
             \/ x = << <<65, n, 256 + (a % 16)>>, << >> >>
             \/ x = << <<65, n + 1, a>>, << >> >>
  BY <1>5, <1>8
<1>9. CASE \E a \in Values, b \in Values :
             \/ x = <<DataOf(n, a, b, r), <<n, a, b>> >>
             \/ x = <<Twice(DataOf(n, a, b, r), DataOf(n, b, a, r)), <<n, a, b>> >>
  BY <1>4, <1>9, Zenon
<1>10. IsAnswer(n, r, x)
  BY AnswersAre
<1> QED
  BY <1>7, <1>8, <1>9, <1>10, Zenon DEF IsAnswer

\* The bytes that are stored, where there are any, are those the answer says.
LEMMA Heard ==
  ASSUME NEW answer, NEW n, NEW r, NEW a, NEW b, NEW p, answer \in Seq(Token),
         SaysAt(answer, p, n, a, b, r), obd_command(answer) # << >>
  PROVE  /\ Len(obd_command(answer)) >= r + 2 /\ obd_command(answer)[3] = a
         /\ r = 2 => obd_command(answer)[4] = b
<1>0. /\ n \in 1 .. 31 /\ r \in 1 .. 2 /\ a \in 0 .. 255 /\ b \in 0 .. 255
      /\ p \in 1 .. 2
  BY DEF SaysAt
<1> USE <1>0
<1> DEFINE bytes == obd_command(answer)
<1>1. PICK m \in 3 .. 4 : m = r + 2
  OBVIOUS
<1>2. /\ p + r + 1 <= Len(answer) /\ answer[p] = 65 /\ (p = 2 => answer[1] # 65)
      /\ answer[p + 1] = n /\ answer[p + 2] = a /\ (r = 2 => answer[p + 3] = b)
  BY DEF SaysAt
<1>3. p \in 1 .. Len(answer) /\ m \in 1 .. (Len(answer) - p + 1)
  <2>1. Len(answer) \in Nat
    OBVIOUS
  <2> QED
    BY <1>1, <1>2, <2>1
<1>4. \A k \in 1 .. (p - 1) : answer[k] # 65
  <2> TAKE k \in 1 .. (p - 1)
  <2>1. k = 1 /\ p = 2
    OBVIOUS
  <2> QED
    BY <1>2, <2>1
<1>5. ASSUME NEW k \in 1 .. m PROVE answer[p + k - 1] \in 0 .. 255
  <2>1. /\ answer[p] \in 0 .. 255 /\ answer[p + 1] \in 0 .. 255
        /\ answer[p + 2] \in 0 .. 255 /\ (r = 2 => answer[p + 3] \in 0 .. 255)
    <3>1. 65 \in 0 .. 255 /\ n \in 0 .. 255
      OBVIOUS
    <3> QED
      BY <1>2, <3>1, Zenon
  <2>2. PICK i \in Nat : i = p + k - 1
    BY <1>1
  <2>3. i = p \/ i = p + 1 \/ i = p + 2 \/ (i = p + 3 /\ r = 2)
    BY <1>1, <2>2
  <2>4. answer[i] \in 0 .. 255
    BY <2>1, <2>3
  <2> QED
    BY <2>2, <2>4
<1>6. Len(bytes) >= m /\ \A k \in 1 .. m : bytes[k] = answer[p + k - 1]
  <2>1. DataAt(answer, p, m)
    BY <1>2, <1>3, <1>4, <1>5 DEF DataAt
  <2>2. /\ Len(obd_command(answer)) >= m
        /\ \A k \in 1 .. m : obd_command(answer)[k] = answer[p + k - 1]
    BY <2>1, CommandStart
  <2> QED
    BY <2>2
<1> HIDE DEF bytes
<1>7. bytes[3] = a
  <2>1. 3 \in 1 .. m /\ p + 3 - 1 = p + 2
    BY <1>1
  <2> QED
    BY <1>2, <1>6, <2>1
<1>8. ASSUME r = 2 PROVE bytes[4] = b
  <2>1. 4 \in 1 .. m /\ p + 4 - 1 = p + 3
    BY <1>1, <1>8
  <2> QED
    BY <1>2, <1>6, <1>8, <2>1
<1> QED
  BY <1>1, <1>6, <1>7, <1>8 DEF bytes

\* The array after bytes have gone over its beginning
LEMMA OverIs ==
  ASSUME NEW dat \in [0 .. 3 -> 0 .. 255], NEW bytes \in Seq(0 .. 255)
  PROVE  /\ Over(dat, bytes) \in [0 .. 3 -> 0 .. 255]
         /\ \A i \in 0 .. 3 : i < Len(bytes) => Over(dat, bytes)[i] = bytes[i + 1]
<1> DEFINE B == 0 .. 255
<1>1. bytes \in Seq(B) /\ \A i \in 0 .. 3 : dat[i] \in B
  OBVIOUS
<1>2. Over(dat, bytes)
        = [i \in 0 .. 3 |-> IF i < Len(bytes) THEN bytes[i + 1] ELSE dat[i]]
  BY DEF Over
<1> HIDE DEF B
<1>3. ASSUME NEW i \in 0 .. 3, i < Len(bytes) PROVE bytes[i + 1] \in B
  <2>1. Len(bytes) \in Nat
    BY <1>1
  <2>2. i + 1 \in 1 .. Len(bytes)
    BY <1>3, <2>1
  <2> QED
    BY <1>1, <2>2
<1>4. Over(dat, bytes) \in [0 .. 3 -> B]
  BY <1>1, <1>2, <1>3
<1> QED
  BY <1>2, <1>4 DEF B

-----------------------------------------------------------------------------
(* The decoding (the handlers in obd.c, the formulas in obd.h).            *)

\* Without an overflow there is one sum.
LEMMA Unwrapped ==
  ASSUME NEW n \in Int, 0 <= n, n <= 32767
  PROVE  ((n + 32768) % 65536) - 32768 = n
  OBVIOUS

LEMMA OneSum ==
  ASSUME NEW a \in 0 .. 127, NEW b \in 0 .. 255, NEW sum \in Sums(a, b)
  PROVE  sum = 256 * a + b
<1>1. PICK n : n = a * 256 + b
  OBVIOUS
<1>2. n \in Int /\ 0 <= n /\ n <= 32767
  BY <1>1
<1>3. ((n + 32768) % 65536) - 32768 = n
  BY <1>2, Unwrapped
<1>4. sum \in {n, ((n + 32768) % 65536) - 32768}
  BY <1>1 DEF Sums
<1>5. sum = n
  BY <1>3, <1>4
<1> QED
  BY <1>1, <1>5

LEMMA SumsInt ==
  ASSUME NEW a \in 0 .. 255, NEW b \in 0 .. 255, NEW sum \in Sums(a, b)
  PROVE  sum \in Int
<1>1. PICK n : n = a * 256 + b
  OBVIOUS
<1>2. n \in Int
  BY <1>1
<1>3. n \in Int /\ ((n + 32768) % 65536) - 32768 \in Int
  BY <1>2
<1>4. sum \in {n, ((n + 32768) % 65536) - 32768}
  BY <1>1 DEF Sums
<1> QED
  BY <1>3, <1>4

\* Which function a handler is
LEMMA HandlerCalls ==
  ASSUME NEW a, NEW sum
  PROVE  /\ handle_data("engine_load", a, sum) = obd_get_engine_load(a)
         /\ handle_data("coolant_temp", a, sum) = obd_get_coolant_temp(a)
         /\ handle_data("fuel_trim", a, sum) = obd_get_fuel_trim(a)
         /\ handle_data("fuel_pressure", a, sum) = obd_get_fuel_pressure(a)
         /\ handle_data("manifold_pressure", a, sum) = obd_get_manifold_pressure(a)
         /\ handle_data("engine_rpm", a, sum) = obd_get_engine_rpm(sum)
         /\ handle_data("vehicle_speed", a, sum) = obd_get_vehicle_speed(a)
         /\ handle_data("timing_advance", a, sum) = obd_get_timing_advance(a)
         /\ handle_data("air_temp", a, sum) = obd_get_air_temp(a)
         /\ handle_data("maf_rate", a, sum) = obd_get_maf_rate(sum)
         /\ handle_data("throttle_pos", a, sum) = obd_get_throttle_pos(a)
         /\ handle_data("oxygen_sensors", a, sum) = obd_get_oxygen_sensors(a)
         /\ handle_data("oxygen_data", a, sum) = obd_get_oxygen_data(a)
  BY DEF handle_data

\* Every handler returns a number to print.
LEMMA HandlersPrint ==
  ASSUME NEW i \in 1 .. 31, NEW h, NEW n, HandlerIs(i, h, n),
         NEW a \in 0 .. 255, NEW sum \in Int
  PROVE  handle_data(h, a, sum) \in Int
<1>1. /\ obd_get_engine_load(a) \in Int /\ obd_get_coolant_temp(a) \in Int
      /\ obd_get_fuel_trim(a) \in Int /\ obd_get_fuel_pressure(a) \in Int
      /\ obd_get_manifold_pressure(a) \in Int /\ obd_get_vehicle_speed(a) \in Int
      /\ obd_get_timing_advance(a) \in Int /\ obd_get_air_temp(a) \in Int
      /\ obd_get_throttle_pos(a) \in Int /\ obd_get_oxygen_sensors(a) \in Int
      /\ obd_get_oxygen_data(a) \in Int
  BY DEF obd_get_engine_load, obd_get_coolant_temp, obd_get_fuel_trim,
         obd_get_fuel_pressure, obd_get_manifold_pressure, obd_get_vehicle_speed,
         obd_get_timing_advance, obd_get_air_temp, obd_get_throttle_pos,
         obd_get_oxygen_sensors, obd_get_oxygen_data, Fixed, Whole
<1>2. obd_get_engine_rpm(sum) \in Int /\ obd_get_maf_rate(sum) \in Int
  BY DEF obd_get_engine_rpm, obd_get_maf_rate, Cut, Whole
<1> QED
  BY <1>1, <1>2, HandlerCalls DEF HandlerIs

\* What is printed is the documented value wherever the driver does not deviate.
LEMMA Decoding ==
  ASSUME NEW i \in 1 .. 31, NEW h, NEW n, HandlerIs(i, h, n),
         NEW a \in 0 .. 255, NEW b, ~Deviates(i, a), NEW sum,
         i \in {12, 16} => b \in 0 .. 255 /\ sum \in Sums(a, b)
  PROVE  Agrees(i, a, b, handle_data(h, a, sum))
<1> DEFINE v == handle_data(h, a, sum)
<1>1. i \in 4 .. 17
  BY DEF HandlerIs, Deviates
<1>2. CASE i \in {4, 17}
  <2>1. v = Fixed(100 * a, 255)
    <3>1. h = IF i = 4 THEN "engine_load" ELSE "throttle_pos"
      BY <1>2 DEF HandlerIs
    <3> QED
      BY <1>2, <3>1, HandlerCalls DEF obd_get_engine_load, obd_get_throttle_pos
  <2>2. Documented(i, a, b) = <<100 * a, 255>> /\ LastDigit(i) = 1
    BY <1>2 DEF Documented, LastDigit
  <2> QED
    BY <2>1, <2>2 DEF Agrees, Fixed
<1>3. CASE i \in {5, 15}
  <2>1. v = Whole(a - 40)
    <3>1. h = IF i = 5 THEN "coolant_temp" ELSE "air_temp"
      BY <1>3 DEF HandlerIs
    <3> QED
      BY <1>3, <3>1, HandlerCalls DEF obd_get_coolant_temp, obd_get_air_temp
  <2>2. Documented(i, a, b) = <<a - 40, 1>> /\ LastDigit(i) = 100
    BY <1>3 DEF Documented, LastDigit
  <2> QED
    BY <2>1, <2>2 DEF Agrees, Whole
<1>4. CASE i \in 6 .. 9
  <2>1. v = Fixed(100 * a - 12800, 128)
    <3>1. h = "fuel_trim"
      BY <1>4 DEF HandlerIs
    <3> QED
      BY <1>4, <3>1, HandlerCalls DEF obd_get_fuel_trim
  <2>2. Documented(i, a, b) = <<100 * a - 12800, 128>> /\ LastDigit(i) = 1
    BY <1>4 DEF Documented, LastDigit
  <2> QED
    BY <2>1, <2>2 DEF Agrees, Fixed
<1>5. CASE i \in {10, 11, 13}
  <2>1. v = IF i = 10 THEN Whole(a * 3) ELSE Whole(a)
    <3>1. /\ i = 10 => h = "fuel_pressure"
          /\ i = 11 => h = "manifold_pressure"
          /\ i = 13 => h = "vehicle_speed"
      <4>1. ASSUME i = 10 PROVE h = "fuel_pressure"
        BY <4>1 DEF HandlerIs
      <4>2. ASSUME i = 11 PROVE h = "manifold_pressure"
        BY <4>2 DEF HandlerIs
      <4>3. ASSUME i = 13 PROVE h = "vehicle_speed"
        BY <4>3 DEF HandlerIs
      <4> QED
        BY <4>1, <4>2, <4>3
    <3>2. /\ i = 10 => v = obd_get_fuel_pressure(a)
          /\ i = 11 => v = obd_get_manifold_pressure(a)
          /\ i = 13 => v = obd_get_vehicle_speed(a)
      BY <3>1, HandlerCalls
    <3> HIDE DEF v
    <3> QED
      BY <1>5, <3>2
         DEF obd_get_fuel_pressure, obd_get_manifold_pressure, obd_get_vehicle_speed
  <2>2. /\ Documented(i, a, b) = IF i = 10 THEN <<3 * a, 1>> ELSE <<a, 1>>
        /\ LastDigit(i) = 100
    BY <1>5 DEF Documented, LastDigit
  <2> QED
    BY <2>1, <2>2 DEF Agrees, Whole
<1>6. CASE i \in {12, 16}
  <2>1. b \in 0 .. 255 /\ a \in 0 .. 127 /\ sum = 256 * a + b
    <3>1. a \in 0 .. 127
      BY <1>6 DEF Deviates
    <3> QED
      BY <1>6, <3>1, OneSum
  <2>2. PICK s \in Nat : s = 256 * a + b
    BY <2>1
  <2>3. v = IF i = 12 THEN Whole(Cut(s, 4)) ELSE Whole(Cut(s, 100))
    <3>1. h = IF i = 12 THEN "engine_rpm" ELSE "maf_rate"
      BY <1>6 DEF HandlerIs
    <3> QED
      BY <1>6, <2>1, <2>2, <3>1, HandlerCalls DEF obd_get_engine_rpm, obd_get_maf_rate
  <2>4. /\ Documented(i, a, b) = IF i = 12 THEN <<s, 4>> ELSE <<s, 100>>
        /\ LastDigit(i) = 100
    BY <1>6, <2>2 DEF Documented, LastDigit
  <2> QED
    BY <1>6, <2>3, <2>4 DEF Agrees, Whole, Cut
<1>7. CASE i = 14
  <2>1. v = Whole((a \div 2) - 64)
    <3>1. h = "timing_advance"
      BY <1>7 DEF HandlerIs
    <3> QED
      BY <1>7, <3>1, HandlerCalls DEF obd_get_timing_advance
  <2>2. Documented(i, a, b) = <<a - 128, 2>> /\ LastDigit(i) = 100
    BY <1>7 DEF Documented, LastDigit
  <2> QED
    BY <2>1, <2>2 DEF Agrees, Whole
<1> QED
  BY <1>1, <1>2, <1>3, <1>4, <1>5, <1>6, <1>7

-----------------------------------------------------------------------------
(* The two-wire driver.                                                    *)

\* Where a transfer is, what went over the bus and who has it: the bytes
\* acknowledged are a prefix of those to write, all of them once the transfer
\* is behind the loops that write, and the bus is ours from the START on.
Progress ==
  /\ \A i \in 1 .. Len(acked) : i <= Len(out) /\ acked[i] = out[i]
  /\ ipc = "start" => out # << >> /\ acked = << >> /\ bus # "ours"
  /\ ipc = "address" => out # << >> /\ acked = << >> /\ bus = "ours"
  /\ ipc = "data" => Len(acked) < Len(out) /\ bus = "ours"
  /\ ipc = "restart" => /\ rn > 0 /\ got = << >> /\ acked = out
                        /\ (bus = "ours") = (out # << >>)
  /\ ipc = "readAddress" =>
       rn > 0 /\ got = << >> /\ acked = out /\ bus = "ours"
  /\ ipc = "read" => Len(got) < rn /\ acked = out /\ bus = "ours"
  /\ ipc \in {"start", "address", "data"} => got = << >>

IInv == I2cTypeOK /\ Progress /\ BusReleased /\ ResultIsOutcome

USE DEF START, RESTART, ADDRESS_NAK, DATA_NAK, READ_NAK, LOST, BUS_ERROR

\* Everything that ends a transfer without its success leaves the bus, or the
\* bus is in error.
LEMMA Left ==
  ASSUME I2cTypeOK, Disturbed
  PROVE  /\ ipc' = "idle" /\ status' \in Nat /\ bus' \in {"free", "error"}
         /\ bus' # "error" => status' # 0
  BY DEF Disturbed, Return, I2cTypeOK

\* The bytes acknowledged are the message as soon as they are as many.
LEMMA AllAcknowledged ==
  ASSUME I2cTypeOK, Progress, Len(acked) = Len(out)
  PROVE  acked = out
  BY DEF I2cTypeOK, Progress

LEMMA Initially == I2cInit => IInv
  BY DEF I2cInit, IInv, I2cTypeOK, Progress, BusReleased, ResultIsOutcome

LEMMA StepIo ==
  ASSUME IInv, NEW m \in Seq(Byte), NEW n \in Nat, I2cIo(m, n)
  PROVE  IInv'
<1>1. I2cTypeOK'
  BY DEF IInv, I2cTypeOK, I2cIo
<1>2. Progress'
  BY DEF IInv, I2cTypeOK, I2cIo, Progress, BusReleased
<1>3. BusReleased'
  BY DEF IInv, I2cIo, BusReleased
<1>4. ResultIsOutcome'
  BY DEF IInv, I2cTypeOK, I2cIo, ResultIsOutcome
<1>5. QED
  BY <1>1, <1>2, <1>3, <1>4 DEF IInv

LEMMA StepStart ==
  ASSUME IInv, SendStart
  PROVE  IInv'
<1>1. /\ ipc = "start" /\ bus # "ours" /\ UNCHANGED <<out, rn, got, acked>>
      /\ \/ bus' = "ours" /\ ipc' = "address" /\ UNCHANGED status
         \/ bus = "error" /\ Return(BUS_ERROR) /\ UNCHANGED bus
  BY DEF SendStart, StartThen, StartStatus, IInv, Progress
<1>2. QED
  BY <1>1 DEF IInv, I2cTypeOK, Progress, BusReleased, ResultIsOutcome, Return

LEMMA StepAddress ==
  ASSUME IInv, SendAddress
  PROVE  IInv'
<1>1. ipc = "address" /\ UNCHANGED <<out, rn, got, acked>>
  BY DEF SendAddress
<1>2. CASE Wait("data")
  BY <1>1, <1>2
     DEF Wait, IInv, I2cTypeOK, Progress, BusReleased, ResultIsOutcome
<1>3. CASE Stop(ADDRESS_NAK)
  BY <1>1, <1>3
     DEF Stop, Return, IInv, I2cTypeOK, Progress, BusReleased, ResultIsOutcome
<1>4. CASE Disturbed
  BY <1>1, <1>4, Left
     DEF IInv, I2cTypeOK, Progress, BusReleased, ResultIsOutcome
<1>5. QED
  BY <1>2, <1>3, <1>4 DEF SendAddress

LEMMA StepData ==
  ASSUME IInv, SendData
  PROVE  IInv'
<1>1. /\ ipc = "data" /\ UNCHANGED <<out, rn, got>>
      /\ I2cTypeOK /\ Len(acked) < Len(out) /\ bus = "ours" /\ got = << >>
  BY DEF SendData, IInv, Progress
<1>2. CASE acked' = Append(acked, out[Len(acked) + 1]) /\ Wrote
  <2>1. out[Len(acked) + 1] \in Byte /\ Len(acked) \in Nat /\ Len(out) \in Nat
    BY <1>1 DEF I2cTypeOK
  <2>2. acked' \in Seq(Byte) /\ Len(acked') = Len(acked) + 1
    BY <1>1, <1>2, <2>1 DEF I2cTypeOK
  <2>3. \A i \in 1 .. Len(acked') : i <= Len(out') /\ acked'[i] = out'[i]
    BY <1>1, <1>2, <2>1, <2>2 DEF IInv, I2cTypeOK, Progress
  <2>4. Len(acked') = Len(out') => acked' = out'
    BY <1>1, <2>2, <2>3 DEF I2cTypeOK
  <2>5. CASE MoreToWrite
    BY <1>1, <1>2, <2>1, <2>2, <2>3, <2>5
       DEF Wrote, MoreToWrite, Wait, IInv, I2cTypeOK, Progress, BusReleased,
           ResultIsOutcome
  <2>6. CASE ~MoreToWrite
    <3>1. acked' = out'
      BY <1>1, <2>1, <2>2, <2>4, <2>6 DEF MoreToWrite
    <3>2. out' # << >>
      BY <1>1, <2>1 DEF I2cTypeOK
    <3>3. CASE rn > 0
      BY <1>1, <1>2, <2>2, <2>3, <2>6, <3>1, <3>2, <3>3
         DEF Wrote, Wait, IInv, I2cTypeOK, Progress, BusReleased,
             ResultIsOutcome
    <3>4. CASE ~(rn > 0)
      BY <1>1, <1>2, <2>2, <2>3, <2>6, <3>1, <3>4
         DEF Wrote, Stop, Return, IInv, I2cTypeOK, Progress, BusReleased,
             ResultIsOutcome
    <3>5. QED
      BY <3>3, <3>4
  <2>7. QED
    BY <2>5, <2>6
<1>3. CASE (Stop(DATA_NAK) \/ Disturbed) /\ UNCHANGED acked
  <2>1. acked' # out'
    BY <1>1, <1>3
  <2>2. CASE Stop(DATA_NAK)
    BY <1>1, <1>3, <2>1, <2>2
       DEF Stop, Return, IInv, I2cTypeOK, Progress, BusReleased,
           ResultIsOutcome
  <2>3. CASE Disturbed
    BY <1>1, <1>3, <2>1, <2>3, Left
       DEF IInv, I2cTypeOK, Progress, BusReleased, ResultIsOutcome
  <2>4. QED
    BY <1>3, <2>2, <2>3
<1>4. QED
  BY <1>2, <1>3 DEF SendData

LEMMA StepRestart ==
  ASSUME IInv, SendRestart
  PROVE  IInv'
<1>1. /\ ipc = "restart" /\ UNCHANGED <<out, rn, got, acked>>
      /\ \/ bus' = "ours" /\ ipc' = "readAddress" /\ UNCHANGED status
         \/ bus = "error" /\ Return(BUS_ERROR) /\ UNCHANGED bus
  BY DEF SendRestart, StartThen, StartStatus, IInv, Progress
<1>2. QED
  BY <1>1 DEF IInv, I2cTypeOK, Progress, BusReleased, ResultIsOutcome, Return

LEMMA StepReadAddress ==
  ASSUME IInv, SendReadAddress
  PROVE  IInv'
<1>1. ipc = "readAddress" /\ UNCHANGED <<out, rn, got, acked>>
  BY DEF SendReadAddress
<1>2. CASE Wait("read")
  BY <1>1, <1>2
     DEF Wait, IInv, I2cTypeOK, Progress, BusReleased, ResultIsOutcome
<1>3. CASE Stop(READ_NAK)
  BY <1>1, <1>3
     DEF Stop, Return, IInv, I2cTypeOK, Progress, BusReleased, ResultIsOutcome
<1>4. CASE Disturbed
  BY <1>1, <1>4, Left
     DEF IInv, I2cTypeOK, Progress, BusReleased, ResultIsOutcome
<1>5. QED
  BY <1>2, <1>3, <1>4 DEF SendReadAddress

LEMMA StepRead ==
  ASSUME IInv, ReadData
  PROVE  IInv'
<1>1. /\ ipc = "read" /\ UNCHANGED <<out, rn, acked>>
      /\ I2cTypeOK /\ Len(got) < rn /\ acked = out /\ bus = "ours"
  BY DEF ReadData, IInv, Progress
<1>2. ASSUME NEW b \in Byte, got' = Append(got, b),
             IF Len(got') < rn THEN Wait("read") ELSE Stop(0)
      PROVE  IInv'
  <2>1. got' \in Seq(Byte) /\ Len(got') = Len(got) + 1 /\ Len(got) \in Nat
    BY <1>1, <1>2 DEF I2cTypeOK
  <2>2. CASE Len(got') < rn
    BY <1>1, <1>2, <2>1, <2>2
       DEF Wait, IInv, I2cTypeOK, Progress, BusReleased, ResultIsOutcome
  <2>3. CASE ~(Len(got') < rn)
    <3>1. Len(got') = rn'
      BY <1>1, <2>1, <2>3 DEF I2cTypeOK
    <3>2. QED
      BY <1>1, <1>2, <2>1, <2>3, <3>1
         DEF Stop, Return, IInv, I2cTypeOK, Progress, BusReleased,
             ResultIsOutcome
  <2>4. QED
    BY <2>2, <2>3
<1>3. CASE Disturbed /\ UNCHANGED got
  BY <1>1, <1>3, Left
     DEF IInv, I2cTypeOK, Progress, BusReleased, ResultIsOutcome
<1>4. QED
  BY <1>2, <1>3 DEF ReadData

\* Whatever i2c_io meets on the bus, and however many bytes it writes and reads,
\* the invariant of its loops holds (i2c.c:10-135).
THEOREM Invariant == I2cSpec => []IInv
<1>1. IInv /\ [I2cNext]_i2cVars => IInv'
  <2> SUFFICES ASSUME IInv, [I2cNext]_i2cVars
               PROVE  IInv'
    OBVIOUS
  <2>1. CASE I2cNext
    BY <2>1, MessageAssumption, ReadAssumption, StepIo, StepStart, StepAddress,
       StepData, StepRestart, StepReadAddress, StepRead
       DEF I2cNext, WriteStep, ReadStep
  <2>2. CASE UNCHANGED i2cVars
    BY <2>2 DEF i2cVars, IInv, I2cTypeOK, Progress, BusReleased,
                ResultIsOutcome
  <2>3. QED
    BY <2>1, <2>2
<1>2. QED
  BY <1>1, Initially, PTL DEF I2cSpec

\* The variables of i2c_io keep their shape.
THEOREM Typed == I2cSpec => []I2cTypeOK
  BY Invariant, PTL DEF IInv

\* No call of i2c_io, for whatever message and outcome, returns with the bus held
\* (i2c.c:129-134, and the returns without a STOP).
THEOREM Released == I2cSpec => []BusReleased
  BY Invariant, PTL DEF IInv

\* 0 is returned after a complete transfer only, unless the bus is in error
\* (i2c.c:76, 126).
THEOREM Outcome == I2cSpec => []ResultIsOutcome
  BY Invariant, PTL DEF IInv

-----------------------------------------------------------------------------
(* The cycle of the main program over the driver.                          *)

\* The list, and what is left of it in this cycle, name commands of the table,
\* and a command that was asked for is still the next one.
ListInv ==
  /\ list \in Seq(1 .. 31) /\ ptr \in Seq(1 .. 31)
  /\ \A j, k \in DOMAIN list : list[j] = list[k] => j = k
  /\ pc \in {"refused", "decoded", "text"} => ptr # << >>

\* The text of command i is under way, and before each half the cursor is where
\* that half belongs, if the command to place it was reported sent.
TextOf(i) ==
  /\ out = <<256 + i, 256 + i>>
  /\ Pids[i + 1] \in DOMAIN Place
  /\ placed /\ Len(acked) = 0 => cursor = Place[Pids[i + 1]]
  /\ placed /\ Len(acked) = 1 => cursor = Place[Pids[i + 1]] + HalfRow

\* The command to place the cursor is that of the command polled, and the cursor
\* has moved there as soon as that command is complete.
ScreenInv ==
  /\ cursor \in Cell /\ placed \in BOOLEAN
  /\ pc = "text" => /\ cmd.obd_pid \in DOMAIN Place
                    /\ out = <<254, 69, Place[cmd.obd_pid]>>
                    /\ Len(acked) = 3 => cursor = Place[cmd.obd_pid]
  /\ pc # "text" /\ ipc # "idle" =>
       out \in {<<254, 84>>, <<254, 70>>} \/ \E i \in 1 .. 31 : TextOf(i)

LoggerInv == IInv /\ ListInv /\ ScreenInv

\* No place is for two PIDs.
LEMMA PlacesDiffer ==
  ASSUME NEW p \in DOMAIN Place, NEW q \in DOMAIN Place, Place[p] = Place[q]
  PROVE  p = q
  BY DEF Place

LEMMA PlaceInRow ==
  ASSUME NEW p \in DOMAIN Place
  PROVE  Place[p] \in LcdRow /\ Place[p] \in 0 .. 287
  BY DEF Place, LcdRow

\* The rows do not overlap, and a text moves the cursor on through cells only.
LEMMA RowIs ==
  ASSUME NEW r \in LcdRow, NEW c \in {r, r + HalfRow}
  PROVE  RowOf(c) = r
<1>1. \A q \in LcdRow : c \in {q, q + HalfRow} => q = r
  BY DEF LcdRow, HalfRow
<1> QED
  BY <1>1 DEF RowOf

LEMMA OnwardIs ==
  ASSUME cursor \in Cell
  PROVE  Onward \in Cell /\ (cursor \in LcdRow => Onward = cursor + HalfRow)
  BY DEF Onward, Cell, LcdRow, HalfRow

LEMMA RowsAreCells == LcdRow \subseteq Cell /\ LcdRow \subseteq Nat
  BY DEF Cell, LcdRow

LEMMA LoggerInitially == Init => LoggerInv
<1> SUFFICES ASSUME Init PROVE LoggerInv
  OBVIOUS
<1>1. IInv
  BY Initially DEF Init
<1>2. ListInv
  BY DEF Init, ListInv
<1>3. ScreenInv
  BY CursorAssumption DEF Init, ScreenInv, I2cInit
<1> QED
  BY <1>1, <1>2, <1>3 DEF LoggerInv

\* A call of i2c_io from main has bytes and symbols only.
LEMMA LoggerIo ==
  ASSUME IInv, NEW m, m \in Seq(Byte), I2cIo(m, 0)
  PROVE  IInv' /\ out' = m /\ ipc = "idle"
<1> 0 \in Nat
  OBVIOUS
<1> QED
  BY StepIo DEF I2cIo

LEMMA StepForgotten ==
  ASSUME IInv, ipc = "idle", Forgotten
  PROVE  IInv'
  BY DEF IInv, I2cTypeOK, Progress, BusReleased, ResultIsOutcome, Forgotten

LEMMA StepStill ==
  ASSUME IInv, UNCHANGED i2cVars
  PROVE  IInv'
  BY DEF i2cVars, IInv, I2cTypeOK, Progress, BusReleased, ResultIsOutcome

\* The list after initialize_obd
LEMMA StepBoot ==
  ASSUME LoggerInv, Boot
  PROVE  LoggerInv'
<1>1. /\ pc = "boot" /\ pc' = "setup"
      /\ UNCHANGED <<i2cVars, ptr, buf, shown, said, screen>>
  BY DEF Boot
<1>2. list' = list \/ \E res : list' = linked_list(res)
  BY DEF Boot
<1>3. ASSUME NEW res, list' = linked_list(res)
      PROVE  /\ list' \in Seq(1 .. 31)
             /\ \A j, k \in DOMAIN list' : list'[j] = list'[k] => j = k
  BY <1>3, ListIs
<1>4. ListInv'
  BY <1>1, <1>2, <1>3 DEF LoggerInv, ListInv
<1>5. IInv'
  BY <1>1, StepStill DEF LoggerInv
<1>6. ScreenInv'
  BY <1>1 DEF LoggerInv, ScreenInv, screen, i2cVars, TextOf
<1> QED
  BY <1>4, <1>5, <1>6 DEF LoggerInv

\* The commands that clear the display and send its cursor home
LEMMA StepSend ==
  ASSUME LoggerInv, NEW b \in {84, 70}, I2cIo(<<254, b>>, 0),
         pc' \in {"cycle", "poll"}, ptr' \in {ptr, list},
         UNCHANGED <<list, screen>>
  PROVE  LoggerInv'
<1> DEFINE m == <<254, b>>
<1>1. m \in Seq(Byte)
  <2>1. 254 \in Byte /\ b \in Byte
    BY ByteAssumption
  <2> QED
    BY <2>1
<1> HIDE DEF m
<1>2. IInv' /\ out' = m
  BY <1>1, LoggerIo DEF LoggerInv, m
<1>3. ListInv'
  BY DEF LoggerInv, ListInv
<1>4. out' \in {<<254, 84>>, <<254, 70>>}
  BY <1>2 DEF m
<1>5. ScreenInv'
  BY <1>4 DEF LoggerInv, ScreenInv, screen
<1> QED
  BY <1>2, <1>3, <1>5 DEF LoggerInv

\* Steps of main between two calls of i2c_io
LEMMA StepBetween ==
  ASSUME LoggerInv, IInv', UNCHANGED <<list, screen>>, pc # "text", pc' # "text",
         UNCHANGED <<ipc, out, acked>> \/ ipc' = "idle",
         ptr' \in Seq(1 .. 31), pc' \in {"refused", "decoded"} => ptr' # << >>
  PROVE  LoggerInv'
<1>1. ListInv'
  BY DEF LoggerInv, ListInv
<1>2. ScreenInv'
  BY DEF LoggerInv, ScreenInv, screen, TextOf
<1> QED
  BY <1>1, <1>2 DEF LoggerInv

\* What is left of the list behind its first node
LEMMA Rest ==
  ASSUME LoggerInv, ptr # << >>
  PROVE  Head(ptr) \in 1 .. 31 /\ Tail(ptr) \in Seq(1 .. 31)
<1> DEFINE S == 1 .. 31
<1>1. ptr \in Seq(S)
  BY DEF LoggerInv, ListInv
<1> HIDE DEF S
<1>2. Head(ptr) \in S /\ Tail(ptr) \in Seq(S)
  BY <1>1
<1> QED
  BY <1>2 DEF S

LEMMA StepPolling ==
  ASSUME LoggerInv, EndOfCycle \/ Skip \/ Command
  PROVE  LoggerInv'
<1>1. CASE EndOfCycle
  <2>1. IInv'
    BY <1>1, StepStill DEF EndOfCycle, LoggerInv
  <2> QED
    BY <1>1, <2>1, StepBetween
       DEF EndOfCycle, Polling, i2cVars, LoggerInv, ListInv
<1>2. CASE Skip
  <2>1. IInv'
    BY <1>2, StepForgotten DEF Skip, Polling, LoggerInv
  <2>2. ptr' \in Seq(1 .. 31)
    BY <1>2, Rest DEF Skip
  <2> QED
    BY <1>2, <2>1, <2>2, StepBetween DEF Skip, Polling, Forgotten
<1>3. CASE Command
  <2>1. IInv'
    BY <1>3, StepForgotten DEF Command, Polling, LoggerInv
  <2>2. pc' \in {"refused", "decoded"}
    BY <1>3 DEF Command, Refused, Decoded
  <2>3. ptr' \in Seq(1 .. 31) /\ ptr' # << >>
    BY <1>3 DEF Command, LoggerInv, ListInv
  <2> QED
    BY <1>3, <2>1, <2>2, <2>3, StepBetween DEF Command, Polling, Forgotten
<1> QED
  BY <1>1, <1>2, <1>3

LEMMA StepContinue ==
  ASSUME LoggerInv, Continue
  PROVE  LoggerInv'
<1>1. IInv'
  BY StepStill DEF Continue, LoggerInv
<1>2. pc \in {"refused", "decoded"} /\ pc' = "poll" /\ ptr' = Tail(ptr)
      /\ UNCHANGED <<i2cVars, list, screen>>
  BY DEF Continue, NextNode, Unshown
<1>3. ptr' \in Seq(1 .. 31)
  BY <1>2, Rest DEF LoggerInv, ListInv
<1> QED
  BY <1>1, <1>2, <1>3, StepBetween DEF i2cVars

LEMMA StepPlaceCursor ==
  ASSUME LoggerInv, PlaceCursor
  PROVE  LoggerInv'
<1> DEFINE p == Place[cmd.obd_pid]
           m == <<254, 69, p>>
<1>1. /\ pc = "decoded" /\ cmd.obd_pid \in DOMAIN Place /\ I2cIo(m, 0)
      /\ pc' = "text" /\ placed' = FALSE /\ UNCHANGED <<list, ptr, cursor>>
  BY DEF PlaceCursor, Send
<1>2. p \in 0 .. 287
  BY <1>1, PlaceInRow
<1> HIDE DEF p
<1>3. m \in Seq(Byte)
  <2>1. 254 \in Byte /\ 69 \in Byte /\ p \in Byte
    BY <1>2, ByteAssumption
  <2> QED
    BY <2>1
<1> HIDE DEF m
<1>4. IInv' /\ out' = m
  BY <1>1, <1>3, LoggerIo DEF LoggerInv
<1>5. ListInv'
  BY <1>1 DEF LoggerInv, ListInv
<1>6. cmd' = cmd
  BY <1>1 DEF cmd
<1>7. ScreenInv'
  <2>1. acked' = << >>
    BY <1>1 DEF I2cIo
  <2>2. Len(acked') # 3
    BY <2>1
  <2> QED
    BY <1>1, <1>4, <1>6, <2>2 DEF LoggerInv, ScreenInv, m, p
<1> QED
  BY <1>4, <1>5, <1>7 DEF LoggerInv

LEMMA StepShowText ==
  ASSUME LoggerInv, ShowText
  PROVE  LoggerInv'
<1>1. /\ ptr # << >> /\ pc = "text" /\ pc' = "poll" /\ ptr' = Tail(ptr)
      /\ UNCHANGED <<list, cursor>> /\ placed' = (status = 0 /\ bus # "error")
  BY DEF ShowText, LoggerInv, ListInv
<1>2. PICK i \in 1 .. 31 : i = Head(ptr)
  BY <1>1, Rest
<1>3. cmd.obd_cmd = i /\ cmd.obd_pid = Pids[i + 1]
  <2>1. i \in 0 .. 31 /\ cmd = obd_cmds(i)
    BY <1>2 DEF cmd
  <2> QED
    BY <2>1, TableFits
<1> DEFINE t == 256 + i
           m == <<t, t>>
<1>4. I2cIo(m, 0)
  BY <1>3 DEF ShowText
<1>5. t \in Byte
  <2>1. t \in 0 .. 287
    OBVIOUS
  <2> QED
    BY <2>1, ByteAssumption
<1> HIDE DEF t
<1>6. m \in Seq(Byte)
  BY <1>5
<1> HIDE DEF m
<1>7. IInv' /\ out' = m
  BY <1>4, <1>6, LoggerIo DEF LoggerInv
<1>8. ptr' \in Seq(1 .. 31)
  BY <1>1, Rest
<1>9. ListInv'
  BY <1>1, <1>8 DEF LoggerInv, ListInv
<1>10. Pids[i + 1] \in DOMAIN Place /\ (placed' => cursor' = Place[Pids[i + 1]])
  <2>1. /\ Pids[i + 1] \in DOMAIN Place /\ out = <<254, 69, Place[Pids[i + 1]]>>
        /\ Len(acked) = 3 => cursor = Place[Pids[i + 1]]
    BY <1>1, <1>3 DEF LoggerInv, ScreenInv
  <2>2. placed' => acked = out
    BY <1>1, <1>4 DEF I2cIo, LoggerInv, IInv, ResultIsOutcome
  <2>3. placed' => Len(acked) = 3
    BY <2>1, <2>2
  <2> QED
    BY <1>1, <2>1, <2>3
<1>11. TextOf(i)'
  <2>1. acked' = << >>
    BY <1>4 DEF I2cIo
  <2>2. Len(acked') # 1
    BY <2>1
  <2> QED
    BY <1>7, <1>10, <2>2 DEF TextOf, m, t
<1>12. ScreenInv'
  BY <1>1, <1>2, <1>11 DEF LoggerInv, ScreenInv
<1> QED
  BY <1>7, <1>9, <1>12 DEF LoggerInv

\* What the display has taken of the message under way
LEMMA Taken ==
  ASSUME IInv, WriteStep
  PROVE  /\ IInv' /\ out' = out /\ ipc # "idle"
         /\ Len(acked') \in Nat /\ Len(acked') <= Len(out)
         /\ \A i \in 1 .. Len(acked') : acked'[i] = out[i]
         /\ acked' = acked \/ (Len(acked) \in Nat /\ Len(acked') = Len(acked) + 1)
<1>1. IInv' /\ out' = out /\ ipc # "idle"
  BY StepStart, StepAddress, StepData
     DEF WriteStep, SendStart, SendAddress, SendData
<1>2. acked' \in Seq(Byte) /\ out \in Seq(Byte)
  BY <1>1 DEF IInv, I2cTypeOK
<1>3. \A i \in 1 .. Len(acked') : i <= Len(out) /\ acked'[i] = out[i]
  BY <1>1 DEF IInv, Progress
<1>4. Len(acked') \in Nat /\ Len(out) \in Nat
  BY <1>2
<1>5. Len(acked') <= Len(out)
  BY <1>3, <1>4
<1>6. acked' = acked \/ acked' = Append(acked, out[Len(acked) + 1])
  BY DEF WriteStep, SendStart, SendAddress, SendData
<1>7. acked' = acked \/ (Len(acked) \in Nat /\ Len(acked') = Len(acked) + 1)
  <2>1. acked \in Seq(Byte)
    BY DEF IInv, I2cTypeOK
  <2> QED
    BY <1>6, <2>1
<1> QED
  BY <1>1, <1>3, <1>4, <1>5, <1>7

\* A step of a transfer shows nothing of a command, and each half of a text that
\* was placed in the row of its PID.
LEMMA StepTransfer ==
  ASSUME LoggerInv, Transfer
  PROVE  /\ LoggerInv'
         /\ Shows /\ placed =>
              { p \in DOMAIN Place : Place[p] = RowOf(cursor) } = {Pids[acked'[1] - 255]}
<1>1. /\ IInv' /\ out' = out /\ ipc # "idle"
      /\ Len(acked') \in Nat /\ Len(acked') <= Len(out)
      /\ \A i \in 1 .. Len(acked') : acked'[i] = out[i]
      /\ acked' = acked \/ (Len(acked) \in Nat /\ Len(acked') = Len(acked) + 1)
  BY Taken DEF LoggerInv, Transfer
<1>2. UNCHANGED <<pc, list, ptr>> /\ cmd' = cmd
  BY DEF Transfer, cmd
<1>3. ListInv'
  BY <1>2 DEF LoggerInv, ListInv
<1>4. /\ placed' = placed
      /\ acked' = acked => cursor' = cursor
      /\ acked' # acked /\ acked'[1] >= 256 => cursor' = Onward
      /\ acked' # acked /\ ~(acked'[1] >= 256) =>
           cursor' = IF acked' = <<254, 70>> THEN 0
                     ELSE IF Len(acked') = 3 THEN acked'[3] ELSE cursor
  <2>1. /\ placed' = placed
        /\ cursor' = IF acked' = acked THEN cursor ELSE IF Shows THEN Onward ELSE Obeyed
    BY DEF Transfer, Display
  <2>2. acked' # acked /\ acked'[1] >= 256 <=> Shows
    BY DEF Shows
  <2>3. Obeyed = IF acked' = <<254, 70>> THEN 0
                 ELSE IF Len(acked') = 3 THEN acked'[3] ELSE cursor
    <3>1. acked' = <<254, 70>> => Len(acked') # 3
      OBVIOUS
    <3> QED
      BY <3>1 DEF Obeyed
  <2>4. acked' = acked => cursor' = cursor
    BY <2>1
  <2>5. acked' # acked /\ acked'[1] >= 256 => cursor' = Onward
    BY <2>1, <2>2
  <2>6. acked' # acked /\ ~(acked'[1] >= 256) => cursor' = Obeyed
    BY <2>1, <2>2
  <2> QED
    BY <2>1, <2>3, <2>4, <2>5, <2>6
<1>5. cursor \in Cell /\ placed \in BOOLEAN
  BY DEF LoggerInv, ScreenInv
<1>6. ASSUME acked' # acked PROVE 1 \in 1 .. Len(acked') /\ acked'[1] = out[1]
  BY <1>1, <1>6
<1>7. CASE pc = "text"
  <2>1. /\ cmd.obd_pid \in DOMAIN Place /\ out = <<254, 69, Place[cmd.obd_pid]>>
        /\ Len(acked) = 3 => cursor = Place[cmd.obd_pid]
    BY <1>7 DEF LoggerInv, ScreenInv
  <2>2. acked' # acked => ~(acked'[1] >= 256)
    BY <1>6, <2>1
  <2>3. Len(acked') = 3 => acked'[3] = Place[cmd.obd_pid] /\ acked' # <<254, 70>>
    BY <1>1, <2>1
  <2>4. cursor' \in Cell /\ (Len(acked') = 3 => cursor' = Place[cmd.obd_pid])
    <3>1. 0 \in Cell /\ Place[cmd.obd_pid] \in Cell
      BY <2>1, PlaceInRow, RowsAreCells DEF LcdRow
    <3> QED
      BY <1>4, <1>5, <2>1, <2>2, <2>3, <3>1
  <2>5. ScreenInv'
    BY <1>1, <1>2, <1>4, <1>5, <1>7, <2>1, <2>4 DEF ScreenInv
  <2> QED
    BY <1>1, <1>3, <2>2, <2>5 DEF LoggerInv, Shows
<1>8. CASE pc # "text" /\ out \in {<<254, 84>>, <<254, 70>>}
  <2>1. Len(out) = 2 /\ out[1] = 254
    BY <1>8
  <2>2. acked' # acked => ~(acked'[1] >= 256)
    BY <1>6, <2>1
  <2>3. cursor' \in Cell
    <3>1. 0 \in Cell
      BY RowsAreCells DEF LcdRow
    <3>2. Len(acked') # 3
      <4>1. PICK n \in Nat : n = Len(acked')
        BY <1>1
      <4>2. PICK l : l = Len(out)
        OBVIOUS
      <4>3. n <= l
        BY <1>1, <4>1, <4>2
      <4>4. l = 2
        BY <2>1, <4>2
      <4>5. n # 3
        BY <4>1, <4>3, <4>4
      <4> QED
        BY <4>1, <4>5
    <3> QED
      BY <1>4, <1>5, <2>2, <3>1, <3>2
  <2>4. ScreenInv'
    BY <1>1, <1>2, <1>4, <1>5, <1>8, <2>3 DEF ScreenInv
  <2> QED
    BY <1>1, <1>3, <2>2, <2>4 DEF LoggerInv, Shows
<1>9. ASSUME pc # "text", NEW i \in 1 .. 31, TextOf(i)
      PROVE  /\ LoggerInv'
             /\ Shows /\ placed =>
                  { p \in DOMAIN Place : Place[p] = RowOf(cursor) }
                    = {Pids[acked'[1] - 255]}
  <2>1. Len(out) = 2 /\ out[1] = 256 + i
    BY <1>9 DEF TextOf
  <2>2. acked' # acked => acked'[1] = 256 + i /\ acked'[1] >= 256
    BY <1>6, <2>1
  <2>3. acked' # acked => Len(acked) \in {0, 1} /\ Len(acked') = Len(acked) + 1
    <3> SUFFICES ASSUME acked' # acked
                 PROVE  Len(acked) \in {0, 1} /\ Len(acked') = Len(acked) + 1
      OBVIOUS
    <3>1. Len(acked') = Len(acked) + 1 /\ Len(acked) \in Nat
      BY <1>1
    <3>2. PICK n \in Nat : n = Len(acked)
      BY <3>1
    <3>3. PICK l : l = Len(out)
      OBVIOUS
    <3>4. n + 1 <= l
      BY <1>1, <3>1, <3>2, <3>3
    <3>5. l = 2
      BY <2>1, <3>3
    <3>6. n \in {0, 1}
      BY <3>2, <3>4, <3>5
    <3> QED
      BY <3>1, <3>2, <3>6
  <2>4. PICK p : p = Pids[i + 1]
    OBVIOUS
  <2>5. /\ p \in DOMAIN Place
        /\ placed /\ Len(acked) = 0 => cursor = Place[p]
        /\ placed /\ Len(acked) = 1 => cursor = Place[p] + HalfRow
    BY <1>9, <2>4 DEF TextOf
  <2>6. Place[p] \in LcdRow
    BY <2>5, PlaceInRow
  <2>7. cursor' \in Cell
    BY <1>4, <1>5, <2>2, OnwardIs
  <2>8. /\ placed' /\ Len(acked') = 0 => cursor' = Place[p]
        /\ placed' /\ Len(acked') = 1 => cursor' = Place[p] + HalfRow
    <3>1. CASE acked' = acked
      BY <1>4, <2>5, <3>1
    <3>2. CASE acked' # acked
      BY <1>4, <1>5, <2>2, <2>3, <2>5, <2>6, <3>2, OnwardIs
    <3> QED
      BY <3>1, <3>2
  <2>9. TextOf(i)'
    BY <1>1, <1>9, <2>4, <2>5, <2>8 DEF TextOf
  <2>10. ScreenInv'
    BY <1>2, <1>4, <1>5, <1>9, <2>7, <2>9 DEF ScreenInv
  <2>11. ASSUME acked' # acked, placed
         PROVE  { q \in DOMAIN Place : Place[q] = RowOf(cursor) } = {p}
    <3>1. cursor \in {Place[p], Place[p] + HalfRow}
      BY <2>3, <2>5, <2>11
    <3>2. RowOf(cursor) = Place[p]
      BY <2>6, <3>1, RowIs
    <3> QED
      BY <2>5, <3>2, PlacesDiffer
  <2>12. acked' # acked => Pids[acked'[1] - 255] = p
    <3>1. (256 + i) - 255 = i + 1
      OBVIOUS
    <3> QED
      BY <2>2, <2>4, <3>1
  <2> QED
    BY <1>1, <1>3, <2>10, <2>11, <2>12 DEF LoggerInv, Shows
<1> QED
  BY <1>1, <1>7, <1>8, <1>9 DEF LoggerInv, ScreenInv

LEMMA StepMain ==
  ASSUME LoggerInv, Main
  PROVE  LoggerInv'
<1>1. ASSUME Setup PROVE LoggerInv'
  <2>1. /\ I2cIo(<<254, 84>>, 0) /\ pc' \in {"cycle", "poll"}
        /\ ptr' \in {ptr, list} /\ UNCHANGED <<list, screen>>
    BY <1>1 DEF Setup, Send
  <2> QED
    BY <2>1, StepSend
<1>2. ASSUME Home PROVE LoggerInv'
  <2>1. /\ I2cIo(<<254, 70>>, 0) /\ pc' \in {"cycle", "poll"}
        /\ ptr' \in {ptr, list} /\ UNCHANGED <<list, screen>>
    BY <1>2 DEF Home, Send
  <2> QED
    BY <2>1, StepSend
<1> QED
  BY <1>1, <1>2, StepBoot, StepPolling, StepContinue, StepPlaceCursor, StepShowText
     DEF Main

\* Through the whole cycle, whatever the car answers and the bus does, the driver
\* keeps its promises, the list its commands, and the cursor of the display is where
\* the last complete command and the texts since have put it (main.c:90-210).
THEOREM LoggerInvariance == Spec => []LoggerInv
<1>1. LoggerInv /\ [Next]_vars => LoggerInv'
  <2> SUFFICES ASSUME LoggerInv, [Next]_vars PROVE LoggerInv'
    OBVIOUS
  <2>1. CASE Next
    BY <2>1, StepMain, StepTransfer DEF Next
  <2>2. CASE UNCHANGED vars
    <3>1. IInv'
      BY <2>2, StepStill DEF vars, LoggerInv
    <3> QED
      BY <2>2, <3>1 DEF vars, i2cVars, screen, LoggerInv, ListInv, ScreenInv, TextOf, cmd
  <2> QED
    BY <2>1, <2>2
<1> QED
  BY <1>1, LoggerInitially, PTL DEF Spec

\* Wherever the display's cursor was and whichever transfers failed before, a text
\* lands in the row of its own PID, and in no other's, unless its own command to
\* place the cursor has failed (main.c:170-201).
THEOREM PlacedTexts == Spec => TextInItsRow
<1>1. LoggerInv /\ [Next]_vars
      => [Transfer /\ Shows /\ placed =>
            { p \in DOMAIN Place : Place[p] = RowOf(cursor) } = {Pids[acked'[1] - 255]}
         ]_vars
  BY StepTransfer
<1> QED
  BY <1>1, LoggerInvariance, PTL DEF Spec, TextInItsRow

\* initialize_obd makes a list without a command twice, whatever the six bytes
\* are that it takes for an answer (obd.c:430-459, 612-629).
THEOREM NoneTwice == Spec => []AskedOnce
<1>1. LoggerInv => AskedOnce
  <2> SUFFICES ASSUME LoggerInv, NEW j \in DOMAIN list, NEW k \in DOMAIN list,
                      Asked(j) = Asked(k)
               PROVE  j = k
    BY DEF AskedOnce
  <2>1. list[j] \in 0 .. 31 /\ list[k] \in 0 .. 31
    BY DEF LoggerInv, ListInv
  <2>2. Asked(j) = list[j] /\ Asked(k) = list[k]
    BY <2>1, TableFits DEF Asked
  <2> QED
    BY <2>2 DEF LoggerInv, ListInv
<1> QED
  BY <1>1, LoggerInvariance, PTL

\* Also in the cycle of the main program, whose commands are partly meant to be
\* cut off: no call returns with the bus held (i2c.c:129-134).
THEOREM ReleasedInCycle == Spec => []BusReleased
  BY LoggerInvariance, PTL DEF LoggerInv, IInv

\* And 0 is returned after a complete command only (i2c.c:76).
THEOREM OutcomeInCycle == Spec => []ResultIsOutcome
  BY LoggerInvariance, PTL DEF LoggerInv, IInv

-----------------------------------------------------------------------------
(* What is asked for and what is shown.                                    *)

\* What the command that was asked for has for a handler
LEMMA AskedHandler ==
  ASSUME LoggerInv, ptr # << >>, cmd.handle_data # "NULL"
  PROVE  \E n \in 1 .. 31, r \in 1 .. 2 :
           /\ cmd = obd_cmds(n) /\ cmd.obd_cmd = n /\ r = obd_cmds(n).resp_bytes
           /\ HandlerIs(n, cmd.handle_data, r)
           /\ n \in {12, 16} => r = 2
<1>1. PICK n \in 1 .. 31 : n = Head(ptr)
  BY Rest
<1>2. n \in 0 .. 31 /\ cmd = obd_cmds(n)
  BY <1>1 DEF cmd
<1>3. cmd.obd_cmd = n
  BY <1>2, TableFits
<1>4. HandlerIs(n, cmd.handle_data, obd_cmds(n).resp_bytes)
  BY <1>2, Handlers
<1>5. PICK r : r = obd_cmds(n).resp_bytes
  OBVIOUS
<1>6. r = IF n \in {12, 16} \cup 20 .. 27 THEN 2 ELSE 1
  BY <1>4, <1>5 DEF HandlerIs
<1>7. r \in 1 .. 2 /\ (n \in {12, 16} => r = 2)
  BY <1>6
<1> QED
  BY <1>2, <1>3, <1>4, <1>5, <1>7

\* The data of the program: the array has bytes, what is left to ask for is the
\* rear of the list, and the list is what a complete answer announced.
DataInv ==
  /\ pc \in {"boot", "setup", "cycle", "poll", "refused", "decoded", "text"}
  /\ buf \in [0 .. 3 -> 0 .. 255] /\ shown \in Int
  /\ pc \in {"boot", "setup"} => ptr = << >>
  /\ Len(ptr) <= Len(list)
  /\ \A k \in 1 .. Len(ptr) : ptr[k] = list[Len(list) - Len(ptr) + k]
  /\ announced # {0} /\ pc # "boot" =>
       /\ \A k \in DOMAIN list : list[k] \in announced
       /\ \A i \in announced \cap 1 .. 31 : \E k \in DOMAIN list : list[k] = i

\* A step of main that decodes nothing new
LEMMA Undecoded ==
  ASSUME Decodes, pc' # "decoded" \/ UNCHANGED <<pc, said, shown>>
  PROVE  Decodes'
  BY DEF Decodes

\* A command: the array gets bytes, and what is printed is what was said.
LEMMA DecodeCommand ==
  ASSUME LoggerInv, DataInv, Decodes, Command
  PROVE  buf' \in [0 .. 3 -> 0 .. 255] /\ shown' \in Int /\ Decodes'
<1>1. PICK n \in 1 .. 31, r \in 1 .. 2 :
        /\ cmd = obd_cmds(n) /\ cmd.obd_cmd = n /\ r = obd_cmds(n).resp_bytes
        /\ HandlerIs(n, cmd.handle_data, r)
        /\ n \in {12, 16} => r = 2
  BY AskedHandler DEF Command
<1>2. PICK x \in Answers(n) :
        LET bytes == obd_command(x[1])
        IN  IF bytes = << >> THEN Refused ELSE Decoded(bytes, x[2])
  BY <1>1 DEF Command
<1>3. PICK bytes : bytes = obd_command(x[1])
  OBVIOUS
<1>4. IF bytes = << >> THEN Refused ELSE Decoded(bytes, x[2])
  BY <1>2, <1>3
<1>5. buf \in [0 .. 3 -> 0 .. 255] /\ shown \in Int
  BY DEF DataInv
<1>6. CASE bytes = << >>
  <2>1. pc' = "refused" /\ buf' = buf /\ shown' = shown
    BY <1>4, <1>6 DEF Refused
  <2> QED
    BY <1>5, <2>1, Undecoded
<1>7. CASE bytes # << >>
  <2>1. x[1] \in Seq(Token)
    BY <1>1, AnswersSay
  <2>2. bytes \in Seq(0 .. 255)
    BY <1>3, <2>1, CommandBytes
  <2>3. buf' = Over(buf, bytes) /\ said' = x[2]
    BY <1>4, <1>7 DEF Decoded
  <2>4. PICK sum \in Sums(buf'[2], buf'[3]) :
          shown' = handle_data(cmd.handle_data, buf'[2], sum)
    BY <1>4, <1>7 DEF Decoded
  <2>5. /\ buf' \in [0 .. 3 -> 0 .. 255]
        /\ \A i \in 0 .. 3 : i < Len(bytes) => buf'[i] = bytes[i + 1]
    BY <1>5, <2>2, <2>3, OverIs
  <2>6. PICK a \in 0 .. 255, b \in 0 .. 255 : a = buf'[2] /\ b = buf'[3]
    <3>1. buf'[2] \in 0 .. 255 /\ buf'[3] \in 0 .. 255
      BY <2>5
    <3> QED
      BY <3>1
  <2>7. sum \in Sums(a, b) /\ shown' = handle_data(cmd.handle_data, a, sum)
    BY <2>4, <2>6
  <2>8. sum \in Int
    BY <2>7, SumsInt
  <2>9. shown' \in Int
    BY <1>1, <2>7, <2>8, HandlersPrint
  <2>10. ASSUME said' # << >>, ~Deviates(said'[1], said'[2])
         PROVE  Agrees(said'[1], said'[2], said'[3], shown')
    <3>1. PICK c \in 0 .. 255, d \in 0 .. 255, p \in 1 .. 2 :
            x[2] = <<n, c, d>> /\ SaysAt(x[1], p, n, c, d, r)
      <4>1. x[2] # << >>
        BY <2>3, <2>10
      <4>2. \E c \in 0 .. 255, d \in 0 .. 255, p \in 1 .. 2 :
              x[2] = <<n, c, d>> /\ SaysAt(x[1], p, n, c, d, r)
        <5>1. r = obd_cmds(n).resp_bytes
          BY <1>1
        <5> QED
          BY <4>1, <5>1, AnswersSay
      <4> QED
        BY <4>2
    <3>2. Len(bytes) >= r + 2 /\ bytes[3] = c /\ (r = 2 => bytes[4] = d)
      <4>1. PICK y : y = x[1]
        OBVIOUS
      <4>2. /\ y \in Seq(Token) /\ SaysAt(y, p, n, c, d, r)
            /\ bytes = obd_command(y) /\ bytes # << >>
        BY <1>3, <1>7, <2>1, <3>1, <4>1
      <4> QED
        <5>1. /\ Len(obd_command(y)) >= r + 2 /\ obd_command(y)[3] = c
              /\ r = 2 => obd_command(y)[4] = d
          BY <4>2, Heard
        <5> QED
          BY <4>2, <5>1
    <3>3. a = c /\ (r = 2 => b = d)
      <4> DEFINE B == 0 .. 255
      <4>1. bytes \in Seq(B)
        BY <2>2
      <4> HIDE DEF B
      <4>2. Len(bytes) \in Nat
        BY <4>1
      <4>3. 2 < Len(bytes) /\ (r = 2 => 3 < Len(bytes))
        BY <3>2, <4>2
      <4>4. 2 \in 0 .. 3 /\ 3 \in 0 .. 3 /\ 2 + 1 = 3 /\ 3 + 1 = 4
        OBVIOUS
      <4>5. buf'[2] = bytes[3] /\ (r = 2 => buf'[3] = bytes[4])
        BY <2>5, <4>3, <4>4
      <4> QED
        BY <2>6, <3>2, <4>5
    <3>4. said'[1] = n /\ said'[2] = a /\ said'[3] = d
      BY <2>3, <3>1, <3>3
    <3>5. n \in {12, 16} => d \in 0 .. 255 /\ sum \in Sums(a, d)
      BY <1>1, <2>7, <3>3
    <3>6. ~Deviates(n, a)
      BY <2>10, <3>4
    <3>7. Agrees(n, a, d, handle_data(cmd.handle_data, a, sum))
      BY <1>1, <3>5, <3>6, Decoding
    <3> QED
      BY <2>7, <3>4, <3>7
  <2> QED
    BY <2>5, <2>9, <2>10 DEF Decodes
<1> QED
  BY <1>6, <1>7

\* What a car that announces pids sends
LEMMA AnnouncementIs ==
  ASSUME NEW pids, NEW k \in 1 .. 4
  PROVE  Announcement(pids)[k] \in 0 .. 255
<1> DEFINE Bit(n) == IF n \in pids THEN 1 ELSE 0
<1>1. Announcement(pids)[k]
        = 128 * Bit(8 * k - 7) + 64 * Bit(8 * k - 6) + 32 * Bit(8 * k - 5)
          + 16 * Bit(8 * k - 4) + 8 * Bit(8 * k - 3) + 4 * Bit(8 * k - 2)
          + 2 * Bit(8 * k - 1) + Bit(8 * k)
  BY DEF Announcement
<1>2. \A n : Bit(n) \in 0 .. 1
  OBVIOUS
<1> HIDE DEF Bit
<1> QED
  BY <1>1, <1>2

\* The whole answer, and that it is heard to its end
MaskOf(pids) == <<65, 0>> \o Announcement(pids)

LEMMA BootAnswerIs ==
  ASSUME NEW pids, NEW x, x = MaskOf(pids)
  PROVE  /\ DataAt(x, 1, 6) /\ Len(x) = 6
         /\ \A k \in 1 .. 6 : x[k] \notin {NO_DATA, NO_CONNECT}
         /\ \A k \in 1 .. 4 : x[k + 2] = Announcement(pids)[k]
<1>1. PICK s, t : s = <<65, 0>> /\ t = Announcement(pids) /\ x = s \o t
  BY DEF MaskOf
<1>2. s \in Seq(Token) /\ Len(s) = 2 /\ s[1] = 65 /\ s[2] = 0
  <2>1. 65 \in Token /\ 0 \in Token
    BY DEF Token
  <2> QED
    BY <1>1, <2>1
<1>3. \A k \in 1 .. 4 : t[k] \in 0 .. 255
  BY <1>1, AnnouncementIs
<1>4. t \in Seq(Token) /\ Len(t) = 4
  <2>1. t = [k \in 1 .. 4 |-> t[k]]
    BY <1>1 DEF Announcement
  <2>2. \A k \in 1 .. 4 : t[k] \in Token
    BY <1>3 DEF Token
  <2>3. PICK n \in Nat : n = 4
    OBVIOUS
  <2>4. t \in [1 .. n -> Token]
    BY <2>1, <2>2, <2>3
  <2>5. DOMAIN t = 1 .. n
    BY <2>4
  <2>6. t \in Seq(Token)
    BY <2>4
  <2>7. Len(t) = n
    BY <2>3, <2>5, <2>6
  <2> QED
    BY <2>3, <2>6, <2>7
<1>5. /\ s \o t \in Seq(Token) /\ Len(s \o t) = Len(s) + Len(t)
      /\ \A k \in 1 .. Len(s) + Len(t) :
           (s \o t)[k] = IF k <= Len(s) THEN s[k] ELSE t[k - Len(s)]
  <2>1. s \in Seq(Token) /\ t \in Seq(Token)
    BY <1>2, <1>4
  <2> QED
    BY <2>1, ConcatProperties, Zenon
<1>6. /\ x \in Seq(Token) /\ Len(x) = 6
      /\ \A k \in 1 .. 6 : x[k] = IF k <= 2 THEN s[k] ELSE t[k - 2]
  BY <1>1, <1>2, <1>4, <1>5
<1>7. \A k \in 1 .. 4 : x[k + 2] = t[k]
  <2> TAKE k \in 1 .. 4
  <2>1. k + 2 \in 1 .. 6 /\ ~(k + 2 <= 2) /\ (k + 2) - 2 = k
    OBVIOUS
  <2> QED
    BY <1>6, <2>1
<1>8. \A k \in 1 .. 6 : x[k] \in 0 .. 255
  <2> TAKE k \in 1 .. 6
  <2>1. CASE k <= 2
    <3>1. x[k] = s[k] /\ (k = 1 \/ k = 2)
      BY <1>6, <2>1
    <3>2. s[1] \in 0 .. 255 /\ s[2] \in 0 .. 255
      BY <1>2
    <3> QED
      BY <3>1, <3>2
  <2>2. CASE ~(k <= 2)
    <3>1. k - 2 \in 1 .. 4 /\ x[k] = t[k - 2]
      BY <1>6, <2>2
    <3> QED
      BY <1>3, <3>1
  <2> QED
    BY <2>1, <2>2
<1>9. \A k \in 1 .. 6 : x[k] \notin {NO_DATA, NO_CONNECT}
  <2> TAKE k \in 1 .. 6
  <2>1. x[k] \in 0 .. 255
    BY <1>8
  <2> QED
    BY <2>1 DEF NO_DATA, NO_CONNECT
<1>10. x[1] = 65
  BY <1>2, <1>6
<1>11. DataAt(x, 1, 6)
  <2>1. \A k \in 1 .. 6 : 1 + k - 1 = k
    OBVIOUS
  <2>2. \A k \in 1 .. (1 - 1) : FALSE
    OBVIOUS
  <2>3. 1 \in 1 .. 6 /\ 6 \in 1 .. (6 - 1 + 1)
    OBVIOUS
  <2> QED
    BY <1>6, <1>8, <1>10, <2>1, <2>2, <2>3 DEF DataAt
<1> QED
  BY <1>1, <1>6, <1>7, <1>9, <1>11

\* The bytes that initialize_obd takes for the bit mask, from a complete answer
LEMMA BootData ==
  ASSUME NEW pids, NEW x, x = MaskOf(pids),
         NEW g, NEW dat, dat = Over([i \in 0 .. 5 |-> g], obd_command(x))
  PROVE  /\ obd_command(x) # << >>
         /\ \A k \in 1 .. 4 : dat[k + 1] = Announcement(pids)[k]
<1>1. PICK bytes : bytes = obd_command(x)
  OBVIOUS
<1>2. /\ DataAt(x, 1, 6) /\ Len(x) = 6
      /\ \A k \in 1 .. 6 : x[k] \notin {NO_DATA, NO_CONNECT}
      /\ \A k \in 1 .. 4 : x[k + 2] = Announcement(pids)[k]
  BY BootAnswerIs
<1>3. 6 = Len(x) - 1 + 1
  BY <1>2
<1>4. obd_command(x) # << >>
  BY <1>2, <1>3, CommandStart
<1>5. Len(bytes) >= 6 /\ \A k \in 1 .. 6 : bytes[k] = x[1 + k - 1]
  BY <1>1, <1>2, <1>4, CommandStart
<1>6. Len(bytes) \in Nat
  <2> DEFINE B == 0 .. 255
  <2>1. bytes \in Seq(B)
    BY <1>1, <1>2, CommandBytes DEF DataAt
  <2> HIDE DEF B
  <2> QED
    BY <2>1
<1>7. ASSUME NEW k \in 1 .. 4
      PROVE  dat[k + 1] = Announcement(pids)[k]
  <2>1. k + 1 \in 0 .. 5 /\ k + 1 < Len(bytes) /\ (k + 1) + 1 = k + 2
    BY <1>5, <1>6
  <2>2. dat[k + 1] = bytes[k + 2]
    BY <1>1, <2>1 DEF Over
  <2>3. k + 2 \in 1 .. 6 /\ 1 + (k + 2) - 1 = k + 2
    OBVIOUS
  <2> QED
    BY <1>2, <1>5, <2>2, <2>3
<1> QED
  BY <1>4, <1>7

\* initialize_obd: the list after a complete answer is what the answer announced.
LEMMA BootList ==
  ASSUME Boot, announced' # {0}, list' \in Seq(1 .. 31)
  PROVE  /\ \A k \in DOMAIN list' : list'[k] \in announced'
         /\ \A i \in announced' \cap 1 .. 31 : \E k \in DOMAIN list' : list'[k] = i
<1>1. PICK y \in BootAnswers, g \in Garbage :
        LET bytes == obd_command(y[1])
            dat   == Over([i \in 0 .. 5 |-> g], bytes)
        IN  /\ announced' = y[2]
            /\ list' = IF bytes = << >> THEN list
                       ELSE linked_list([k \in 1 .. 4 |-> dat[k + 1]])
  BY DEF Boot
<1>2. announced' = y[2]
  BY <1>1
<1>3. PICK pids \in Announcements : y = <<MaskOf(pids), pids>>
  <2>1. \/ \E pids \in Announcements : y = <<MaskOf(pids), pids>>
        \/ y[2] = {0}
    BY DEF BootAnswers, MaskOf
  <2> QED
    BY <1>2, <2>1
<1>4. PICK x : x = MaskOf(pids)
  OBVIOUS
<1>5. y[1] = x /\ announced' = pids
  BY <1>2, <1>3, <1>4
<1>6. PICK dat : dat = Over([i \in 0 .. 5 |-> g], obd_command(x))
  OBVIOUS
<1>7. obd_command(x) # << >> /\ \A k \in 1 .. 4 : dat[k + 1] = Announcement(pids)[k]
  BY <1>4, <1>6, BootData
<1>8. PICK res : res = [k \in 1 .. 4 |-> dat[k + 1]]
  OBVIOUS
<1>9. list' = linked_list(res)
  BY <1>1, <1>5, <1>6, <1>7, <1>8
<1>10. \A k \in 1 .. 4 : res[k] = Announcement(pids)[k]
  BY <1>7, <1>8
<1>11. \A i \in 1 .. 32 : Supported(res, i) <=> i \in pids
  <2> TAKE i \in 1 .. 32
  <2> QED
    BY <1>10, AnnouncedIsSupported
<1>12. /\ list' \in Seq(1 .. 31)
       /\ \A k \in DOMAIN list' : Supported(res, list'[k])
       /\ \A i \in 1 .. 31 : Supported(res, i) => \E k \in DOMAIN list' : list'[k] = i
  <2>1. PICK l : l = list' /\ l = linked_list(res)
    BY <1>9
  <2>2. /\ l \in Seq(1 .. 31)
        /\ \A k \in DOMAIN l : Supported(res, l[k])
        /\ \A i \in 1 .. 31 : Supported(res, i) => \E k \in DOMAIN l : l[k] = i
    BY <2>1, ListIs, Zenon
  <2> QED
    BY <2>1, <2>2, Zenon
<1>13. \A k \in DOMAIN list' : list'[k] \in 1 .. 32
  <2> DEFINE S == 1 .. 31
           T == 1 .. 32
  <2>1. PICK l : l = list'
    OBVIOUS
  <2>2. l \in Seq(S) /\ S \subseteq T
    BY <1>12, <2>1
  <2> HIDE DEF S, T
  <2>3. \A k \in DOMAIN l : l[k] \in S
    BY <2>2
  <2>4. \A k \in DOMAIN l : l[k] \in T
    BY <2>2, <2>3
  <2> QED
    BY <2>1, <2>4 DEF T
<1>14. \A i \in 1 .. 31 : i \in 1 .. 32
  OBVIOUS
<1> QED
  BY <1>5, <1>11, <1>12, <1>13, <1>14

\* The rest of the rear of a list is its rear.
LEMMA Rear ==
  ASSUME NEW S, NEW l \in Seq(S), NEW p \in Seq(S), p # << >>, Len(p) <= Len(l),
         \A k \in 1 .. Len(p) : p[k] = l[Len(l) - Len(p) + k]
  PROVE  /\ Len(Tail(p)) <= Len(l)
         /\ \A k \in 1 .. Len(Tail(p)) : Tail(p)[k] = l[Len(l) - Len(Tail(p)) + k]
<1>1. /\ Len(p) \in Nat /\ Len(p) # 0 /\ Len(l) \in Nat
      /\ Len(Tail(p)) = Len(p) - 1
      /\ \A k \in 1 .. Len(p) - 1 : Tail(p)[k] = p[k + 1]
  OBVIOUS
<1>2. ASSUME NEW k \in 1 .. Len(Tail(p))
      PROVE  Tail(p)[k] = l[Len(l) - Len(Tail(p)) + k]
  <2>1. k \in 1 .. Len(p) - 1 /\ k + 1 \in 1 .. Len(p)
    BY <1>1
  <2>2. Len(l) - Len(p) + (k + 1) = Len(l) - Len(Tail(p)) + k
    BY <1>1
  <2> QED
    BY <1>1, <2>1, <2>2
<1> QED
  BY <1>1, <1>2

\* What happens to the list in a step of the cycle, and what else keeps its shape
CycleStep ==
  /\ UNCHANGED <<list, announced>>
  /\ buf' \in [0 .. 3 -> 0 .. 255] /\ shown' \in Int
  /\ \/ pc' = pc /\ ptr' = ptr
     \/ /\ pc # "boot" /\ pc' \in {"cycle", "poll", "refused", "decoded", "text"}
        /\ ptr' \in {ptr, list} \/ (ptr # << >> /\ ptr' = Tail(ptr))

LEMMA CycleKeeps ==
  ASSUME LoggerInv, DataInv, CycleStep
  PROVE  DataInv'
<1> DEFINE S == 1 .. 31
<1>1. list \in Seq(S) /\ ptr \in Seq(S)
  BY DEF LoggerInv, ListInv
<1> HIDE DEF S
<1>2. /\ UNCHANGED <<list, announced>>
      /\ buf' \in [0 .. 3 -> 0 .. 255] /\ shown' \in Int
  BY DEF CycleStep
<1>3. /\ pc' \in {"boot", "setup", "cycle", "poll", "refused", "decoded", "text"}
      /\ pc' \in {"boot", "setup"} => ptr' = << >>
      /\ pc' # "boot" => pc # "boot"
  BY DEF CycleStep, DataInv
<1>4. /\ announced' # {0} /\ pc' # "boot" =>
           /\ \A k \in DOMAIN list' : list'[k] \in announced'
           /\ \A i \in announced' \cap 1 .. 31 : \E k \in DOMAIN list' : list'[k] = i
  BY <1>2, <1>3 DEF DataInv
<1>5. /\ Len(ptr) <= Len(list)
      /\ \A k \in 1 .. Len(ptr) : ptr[k] = list[Len(list) - Len(ptr) + k]
  BY DEF DataInv
<1>6. ptr' \in {ptr, list} \/ (ptr # << >> /\ ptr' = Tail(ptr))
  BY DEF CycleStep
<1>7. /\ Len(ptr') <= Len(list)
      /\ \A k \in 1 .. Len(ptr') : ptr'[k] = list[Len(list) - Len(ptr') + k]
  <2>1. CASE ptr' = ptr
    BY <1>5, <2>1
  <2>2. CASE ptr' = list
    <3>1. Len(list) \in Nat
      BY <1>1
    <3>2. \A k \in 1 .. Len(list) : Len(list) - Len(list) + k = k
      BY <3>1
    <3> QED
      BY <2>2, <3>1, <3>2
  <2>3. CASE ptr # << >> /\ ptr' = Tail(ptr)
    BY <1>1, <1>5, <2>3, Rear
  <2> QED
    BY <1>6, <2>1, <2>2, <2>3
<1> QED
  BY <1>2, <1>3, <1>4, <1>7 DEF DataInv

\* The array after a command to the display
LEMMA SendKeeps ==
  ASSUME DataInv, NEW m, m \in Seq(0 .. 255), Send(m)
  PROVE  buf' \in [0 .. 3 -> 0 .. 255]
<1>1. buf \in [0 .. 3 -> 0 .. 255] /\ buf' = Over(buf, m)
  BY DEF DataInv, Send
<1> QED
  BY <1>1, OverIs

LEMMA BootKeeps ==
  ASSUME LoggerInv, LoggerInv', DataInv, Boot
  PROVE  DataInv'
<1>1. /\ pc = "boot" /\ pc' = "setup" /\ ptr' = ptr /\ buf' = buf /\ shown' = shown
  BY DEF Boot
<1>2. ptr' = << >> /\ Len(ptr') = 0
  BY <1>1 DEF DataInv
<1>3. list' \in Seq(1 .. 31)
  BY DEF LoggerInv, ListInv
<1>4. Len(list') \in Nat
  <2> DEFINE S == 1 .. 31
  <2>1. list' \in Seq(S)
    BY <1>3
  <2> HIDE DEF S
  <2> QED
    BY <2>1
<1>5. announced' # {0} =>
        /\ \A k \in DOMAIN list' : list'[k] \in announced'
        /\ \A i \in announced' \cap 1 .. 31 : \E k \in DOMAIN list' : list'[k] = i
  BY <1>3, BootList
<1>6. /\ Len(ptr') <= Len(list')
      /\ \A k \in 1 .. Len(ptr') : ptr'[k] = list'[Len(list') - Len(ptr') + k]
  BY <1>2, <1>4
<1> QED
  BY <1>1, <1>2, <1>5, <1>6 DEF DataInv

LEMMA MainKeeps ==
  ASSUME LoggerInv, LoggerInv', DataInv, Decodes, Main
  PROVE  DataInv' /\ Decodes'
<1>1. buf \in [0 .. 3 -> 0 .. 255] /\ shown \in Int
  BY DEF DataInv
<1>2. CASE Boot
  <2>1. pc' # "decoded"
    BY <1>2 DEF Boot
  <2> QED
    BY <1>2, <2>1, BootKeeps, Undecoded
<1>3. CASE Setup
  <2>1. <<254, 84>> \in Seq(0 .. 255)
    OBVIOUS
  <2>2. buf' \in [0 .. 3 -> 0 .. 255]
    BY <1>3, <2>1, SendKeeps DEF Setup
  <2>3. CycleStep /\ pc' # "decoded"
    BY <1>1, <1>3, <2>2 DEF Setup, CycleStep
  <2> QED
    BY <2>3, CycleKeeps, Undecoded
<1>4. CASE Home
  <2>1. <<254, 70>> \in Seq(0 .. 255)
    OBVIOUS
  <2>2. buf' \in [0 .. 3 -> 0 .. 255]
    BY <1>4, <2>1, SendKeeps DEF Home
  <2>3. CycleStep /\ pc' # "decoded"
    BY <1>1, <1>4, <2>2 DEF Home, CycleStep
  <2> QED
    BY <2>3, CycleKeeps, Undecoded
<1>5. CASE EndOfCycle \/ Skip
  <2>1. CycleStep /\ pc' # "decoded"
    BY <1>1, <1>5 DEF EndOfCycle, Skip, Polling, CycleStep
  <2> QED
    BY <2>1, CycleKeeps, Undecoded
<1>6. CASE Command
  <2>1. buf' \in [0 .. 3 -> 0 .. 255] /\ shown' \in Int /\ Decodes'
    BY <1>6, DecodeCommand
  <2>2. pc' \in {"refused", "decoded"}
    BY <1>6 DEF Command, Refused, Decoded
  <2>3. CycleStep
    BY <1>1, <1>6, <2>1, <2>2 DEF Command, Polling, CycleStep
  <2> QED
    BY <2>1, <2>3, CycleKeeps
<1>7. CASE Continue
  <2>1. pc \in {"refused", "decoded"} /\ ptr # << >>
    BY <1>7 DEF Continue, Unshown, LoggerInv, ListInv
  <2>2. CycleStep /\ pc' # "decoded"
    BY <1>1, <1>7, <2>1 DEF Continue, NextNode, CycleStep
  <2> QED
    BY <2>2, CycleKeeps, Undecoded
<1>8. CASE PlaceCursor
  <2>1. PICK b \in 0 .. 255 : b = Place[cmd.obd_pid]
    <3>1. Place[cmd.obd_pid] \in LcdRow
      BY <1>8, PlaceInRow DEF PlaceCursor
    <3> QED
      BY <3>1 DEF LcdRow
  <2>2. PICK m : m = <<254, 69, b>>
    OBVIOUS
  <2>3. m \in Seq(0 .. 255)
    BY <2>2
  <2>4. Send(m)
    BY <1>8, <2>1, <2>2 DEF PlaceCursor
  <2>5. buf' \in [0 .. 3 -> 0 .. 255]
    BY <2>3, <2>4, SendKeeps
  <2>6. CycleStep /\ pc' # "decoded"
    BY <1>1, <1>8, <2>5 DEF PlaceCursor, CycleStep
  <2> QED
    BY <2>6, CycleKeeps, Undecoded
<1>9. CASE ShowText
  <2>1. ptr # << >>
    BY <1>9 DEF ShowText, LoggerInv, ListInv
  <2>2. CycleStep /\ pc' # "decoded"
    BY <1>1, <1>9, <2>1 DEF ShowText, CycleStep
  <2> QED
    BY <2>2, CycleKeeps, Undecoded
<1> QED
  BY <1>2, <1>3, <1>4, <1>5, <1>6, <1>7, <1>8, <1>9 DEF Main

LEMMA TransferKeeps ==
  ASSUME LoggerInv, DataInv, Decodes, Transfer
  PROVE  DataInv' /\ Decodes'
<1>1. UNCHANGED <<pc, list, ptr, buf, shown, said, announced>>
  BY DEF Transfer
<1>2. CycleStep
  BY <1>1 DEF CycleStep, DataInv
<1> QED
  BY <1>1, <1>2, CycleKeeps, Undecoded

\* Whatever the car answers and whatever comes over the bus, the list is what was
\* announced, and what is printed is what was said.
THEOREM DataInvariance == Spec => [](DataInv /\ Decodes)
<1>1. Init => DataInv /\ Decodes
  <2> SUFFICES ASSUME Init PROVE DataInv /\ Decodes
    OBVIOUS
  <2>1. pc = "boot" /\ list = << >> /\ ptr = << >> /\ shown = 0
    BY DEF Init
  <2>2. buf \in [0 .. 3 -> 0 .. 255]
    BY DEF Init
  <2> QED
    BY <2>1, <2>2 DEF DataInv, Decodes
<1>2. LoggerInv /\ LoggerInv' /\ DataInv /\ Decodes /\ [Next]_vars
      => DataInv' /\ Decodes'
  <2> SUFFICES ASSUME LoggerInv, LoggerInv', DataInv, Decodes, [Next]_vars
               PROVE  DataInv' /\ Decodes'
    OBVIOUS
  <2>1. CASE Next
    BY <2>1, MainKeeps, TransferKeeps DEF Next
  <2>2. CASE UNCHANGED vars
    <3>1. CycleStep /\ UNCHANGED <<pc, said, shown>>
      BY <2>2 DEF vars, CycleStep, DataInv
    <3> QED
      BY <3>1, CycleKeeps, Undecoded
  <2> QED
    BY <2>1, <2>2
<1> QED
  BY <1>1, <1>2, LoggerInvariance, PTL DEF Spec

\* The rear of a list is a suffix of it in the sense of the library.
LEMMA RearIsSuffix ==
  ASSUME NEW S, NEW l \in Seq(S), NEW p \in Seq(S), Len(p) <= Len(l),
         \A k \in 1 .. Len(p) : p[k] = l[Len(l) - Len(p) + k]
  PROVE  IsSuffix(p, l)
<1>1. PICK m \in Nat, n \in Nat : m = Len(p) /\ n = Len(l) /\ m <= n
  OBVIOUS
<1>2. PICK q, r : q = Reverse(p) /\ r = Reverse(l)
  OBVIOUS
<1>3. /\ q = [k \in 1 .. m |-> p[(m - k) + 1]]
      /\ r = [k \in 1 .. n |-> l[(n - k) + 1]]
  BY <1>1, <1>2 DEF Reverse
<1>4. ASSUME NEW k \in 1 .. m PROVE q[k] = r[k]
  <2>1. k \in 1 .. n /\ (m - k) + 1 \in 1 .. m /\ n - m + ((m - k) + 1) = (n - k) + 1
    BY <1>1
  <2>2. p[(m - k) + 1] = l[n - m + ((m - k) + 1)]
    BY <1>1, <2>1
  <2> QED
    BY <1>3, <2>1, <2>2
<1>5. /\ DOMAIN q = 1 .. m /\ DOMAIN r = 1 .. n
      /\ q \in Seq(S) /\ r \in Seq(S)
  <2>1. \A k \in 1 .. m : (m - k) + 1 \in 1 .. Len(p)
    BY <1>1
  <2>2. \A k \in 1 .. n : (n - k) + 1 \in 1 .. Len(l)
    BY <1>1
  <2>3. q \in [1 .. m -> S]
    <3>1. \A k \in 1 .. m : p[(m - k) + 1] \in S
      BY <2>1
    <3> QED
      BY <1>3, <3>1
  <2>4. r \in [1 .. n -> S]
    <3>1. \A k \in 1 .. n : l[(n - k) + 1] \in S
      BY <2>2
    <3> QED
      BY <1>3, <3>1
  <2>5. q \in Seq(S) /\ DOMAIN q = 1 .. m
    BY <1>1, <2>3
  <2>6. r \in Seq(S) /\ DOMAIN r = 1 .. n
    BY <1>1, <2>4
  <2> QED
    BY <2>5, <2>6
<1>6. Len(q) = m /\ Len(r) = n
  BY <1>1, <1>5
<1>7. SubSeq(q, 1, m) = SubSeq(r, 1, m)
  <2>1. 1 \in Int /\ m \in Int /\ m - 1 + 1 = m /\ (1 <= m \/ m = 0)
    BY <1>1
  <2>2. \A k \in 1 .. m : q[k] \in S /\ r[k] \in S
    BY <1>1, <1>5
  <2>3. PICK u, v : u = SubSeq(q, 1, m) /\ v = SubSeq(r, 1, m)
    OBVIOUS
  <2>4. /\ u \in Seq(S) /\ Len(u) = m
        /\ \A k \in 1 .. m : u[k] = q[1 + k - 1]
    BY <2>1, <2>2, <2>3, SubSeqProperties
  <2>5. /\ v \in Seq(S) /\ Len(v) = m
        /\ \A k \in 1 .. m : v[k] = r[1 + k - 1]
    BY <2>1, <2>2, <2>3, SubSeqProperties
  <2>6. \A k \in 1 .. m : u[k] = v[k]
    <3> TAKE k \in 1 .. m
    <3>1. 1 + k - 1 = k
      OBVIOUS
    <3> QED
      BY <1>4, <2>4, <2>5, <3>1
  <2>7. u = v
    BY <2>4, <2>5, <2>6, SeqEqual
  <2> QED
    BY <2>3, <2>7
<1> QED
  BY <1>1, <1>2, <1>6, <1>7 DEF IsSuffix, IsPrefix

\* The variables of the cycle keep their shape: the list names commands of the
\* table, what is left of it is its rear, the array has bytes, and the cursor of the
\* display is at one half of a row.
THEOREM LoggerTyped == Spec => []LoggerTypeOK
<1>1. LoggerInv /\ DataInv => LoggerTypeOK
  <2> SUFFICES ASSUME LoggerInv, DataInv PROVE LoggerTypeOK
    OBVIOUS
  <2>1. IsSuffix(ptr, list)
    <3> DEFINE S == 1 .. 31
    <3>1. list \in Seq(S) /\ ptr \in Seq(S)
      BY DEF LoggerInv, ListInv
    <3> HIDE DEF S
    <3> QED
      BY <3>1, RearIsSuffix DEF DataInv
  <2> QED
    BY <2>1 DEF LoggerTypeOK, LoggerInv, ListInv, ScreenInv, IInv, DataInv
<1> QED
  BY <1>1, LoggerInvariance, DataInvariance, PTL

\* The cycle asks for what a complete answer announced, each PID of the table
\* once and no other (obd.c:23-313, 430-459, 612-629).
THEOREM AnnouncedIsPolled == Spec => []PolledIsAnnounced
<1>1. ASSUME LoggerInv, DataInv, announced # {0}, pc # "boot"
      PROVE  { Asked(k) : k \in DOMAIN list } = announced \cap 1 .. 31
  <2>1. \A k \in DOMAIN list : list[k] \in 1 .. 31
    <3> DEFINE S == 1 .. 31
    <3>1. list \in Seq(S)
      BY <1>1 DEF LoggerInv, ListInv
    <3> HIDE DEF S
    <3>2. \A k \in DOMAIN list : list[k] \in S
      BY <3>1
    <3> QED
      BY <3>2 DEF S
  <2>2. \A k \in DOMAIN list : Asked(k) = list[k]
    <3> TAKE k \in DOMAIN list
    <3>1. list[k] \in 0 .. 31
      BY <2>1
    <3> QED
      BY <3>1, TableFits DEF Asked
  <2>3. /\ \A k \in DOMAIN list : list[k] \in announced
        /\ \A i \in announced \cap 1 .. 31 : \E k \in DOMAIN list : list[k] = i
    BY <1>1 DEF DataInv
  <2>4. ASSUME NEW a \in { Asked(k) : k \in DOMAIN list }
        PROVE  a \in announced \cap 1 .. 31
    <3>1. PICK k \in DOMAIN list : a = Asked(k)
      BY <2>4
    <3> QED
      BY <2>1, <2>2, <2>3, <3>1
  <2>5. ASSUME NEW i \in announced \cap 1 .. 31
        PROVE  i \in { Asked(k) : k \in DOMAIN list }
    <3>1. PICK k \in DOMAIN list : list[k] = i
      BY <2>3
    <3> QED
      BY <2>2, <3>1
  <2> QED
    BY <2>4, <2>5
<1>2. AskedOnce /\ LoggerInv /\ DataInv => PolledIsAnnounced
  BY <1>1 DEF PolledIsAnnounced
<1> QED
  BY <1>2, NoneTwice, LoggerInvariance, DataInvariance, PTL

\* What is printed for a complete answer is the documented value, whatever the
\* array held before; overflowing sums and the oxygen sensors, which Deviates
\* names, are not covered (main.c:159-202, obd.h:44-67).
THEOREM PrintedIsDocumented == Spec => []Decodes
  BY DataInvariance, PTL
=============================================================================
