-------------------------- MODULE MCAmpdu_proofs --------------------------
(***************************************************************************)
(* Proofs about block acknowledgement, for any modulus, window, bounds and  *)
(* EAPOL frames: the ring that puts the frames of a session in order        *)
(* (Reorder), that it implements Delivery, and the life of the sessions     *)
(* (BaSession).                                                             *)
(*                                                                          *)
(* The loops of the ring run on a number of rounds: what every round keeps  *)
(* the loop keeps (RoundsKeep, by induction on the rounds).  A ring whose   *)
(* frames are in their slots and of one window (Good) stays one whatever is *)
(* released, and the list it fills is in order.  Two numbers of a window    *)
(* have two slots (OneSlot), which is where the sizes matter (Fits).        *)
(*                                                                          *)
(* A session is deleted by whom ba_lock let take it out of tid_rx (LockInv, *)
(* LifeInv); the timers are stopped before it is freed (TimerInv), and who  *)
(* reads it under rcu_read_lock holds the grace period back (ReaderInv).    *)
(***************************************************************************)
EXTENDS MCAmpdu, FiniteSetTheorems, SequenceTheorems, WellFoundedInduction, TLAPS

-----------------------------------------------------------------------------
(* The ring of a session.                                                  *)

\* The sizes for which the slots of two numbers of a window differ also where
\* the numbers go round.
Fits == SeqModulo % BufSize = 0

ReorderTypes ==
  /\ head \in Nat /\ buf \in [Slots -> got \cup {Empty}] /\ stored \in Nat
  /\ timer \in Slots \cup {Off} /\ last \in 0 .. SeqModulo - 1
  /\ list \in [{"rx", "timer"} -> Seq(got)] /\ delivered \in Seq(got)
  /\ window \in 0 .. MaxFrames /\ got \subseteq Frames /\ late \subseteq got
  /\ duplicates \in 0 .. MaxDuplicates

\* The peer is never further ahead than its window.
WindowInv == head <= window + BufSize /\ \A n \in got : n < window + BufSize

\* Frame b may be handed over behind frame a.
Follows(a, b) == a < b \/ (a = b /\ a \in Eapol)

Chained(s) == \A i \in 1 .. Len(s) - 1 : Follows(s[i], s[i + 1])

Ended(s) == s # <<>> => Follows(s[Len(s)], head)

\* What was handed over and what is on a list is in order, up to the head.
OrderedInv ==
  Cpus = 1 =>
    /\ list["rx"] = <<>> \/ list["timer"] = <<>>
    /\ LET s == delivered \o list["rx"] \o list["timer"] IN Chained(s) /\ Ended(s)

RingInv == StoredCount /\ RingOK

-----------------------------------------------------------------------------
(* Loops.                                                                  *)

\* A set of numbers has a least one: the induction of the lemmas about loops.
LEMMA LeastNumber ==
  ASSUME NEW S \in SUBSET Nat, S # {}
  PROVE  \E n \in S : \A m \in S : n <= m
<1> DEFINE R == OpToRel(<, Nat)
<1>1. IsWellFoundedOn(R, Nat)
  BY NatLessThanWellFounded, Zenon
<1>2. \A m \in Nat : \A n \in Nat : m < n => <<m, n>> \in R
  BY Zenon DEF OpToRel
<1> HIDE DEF R
<1>3. PICK n \in S : \A m \in S : <<m, n>> \notin R
  BY <1>1, WFMin
<1>4. ASSUME NEW m \in S PROVE n <= m
  <2>1. m \in Nat /\ n \in Nat /\ ~(m < n)
    BY <1>2, <1>3
  <2> QED BY <2>1
<1> QED BY <1>4

\* What holds in the beginning and is kept by each round holds after the last.
LEMMA RoundsKeep ==
  ASSUME NEW T, NEW body \in [T -> T], NEW state \in T, NEW n \in Nat,
         NEW I \in [0 .. n -> SUBSET T], state \in I[0],
         \A k \in 0 .. n - 1 : \A x \in I[k] : body[x] \in I[k + 1]
  PROVE  Rounds(body, state, n) \in I[n]
<1> DEFINE Runs(m) == {g \in [0 .. m -> T] : g[0] = state /\ \A k \in 1 .. m : g[k] = body[g[k - 1]]}
<1> DEFINE Bad == {m \in Nat : Runs(m) = {}}
<1>1. Bad = {}
  <2> SUFFICES ASSUME Bad # {} PROVE FALSE
    OBVIOUS
  <2>1. PICK m \in Bad : \A p \in Bad : m <= p
    BY LeastNumber
  <2>2. m \in Nat /\ Runs(m) = {}
    BY <2>1
  <2>3. CASE m = 0
    <3>1. [k \in 0 .. 0 |-> state] \in Runs(0)
      OBVIOUS
    <3> QED BY <2>2, <2>3, <3>1
  <2>4. CASE m # 0
    <3>1. m - 1 \in Nat /\ m - 1 \notin Bad
      <4> HIDE DEF Bad
      <4>1. m - 1 \in Nat /\ ~(m <= m - 1)
        BY <2>2, <2>4
      <4> QED BY <2>1, <4>1
    <3>2. PICK g : g \in Runs(m - 1)
      BY <3>1
    <3> DEFINE f == [k \in 0 .. m |-> IF k = m THEN body[g[m - 1]] ELSE g[k]]
    <3>3. g \in [0 .. m - 1 -> T] /\ g[0] = state /\ \A k \in 1 .. m - 1 : g[k] = body[g[k - 1]]
      BY <3>2
    <3>4. f \in [0 .. m -> T]
      BY <2>2, <2>4, <3>3
    <3>5. f[0] = state
      BY <2>2, <2>4, <3>3
    <3>6. ASSUME NEW k \in 1 .. m PROVE f[k] = body[f[k - 1]]
      BY <2>2, <2>4, <3>3
    <3>7. f \in Runs(m)
      BY <3>4, <3>5, <3>6
    <3> QED BY <2>2, <3>7
  <2> QED BY <2>3, <2>4
<1>2. PICK g : g \in Runs(n)
  BY <1>1
<1>3. g \in [0 .. n -> T] /\ g[0] = state /\ \A k \in 1 .. n : g[k] = body[g[k - 1]]
  BY <1>2
<1> DEFINE run == CHOOSE run : run = [k \in 0 .. n |-> IF k = 0 THEN state ELSE body[run[k - 1]]]
<1>4. g = [k \in 0 .. n |-> IF k = 0 THEN state ELSE body[g[k - 1]]]
  BY <1>3
<1>5. run = [k \in 0 .. n |-> IF k = 0 THEN state ELSE body[run[k - 1]]]
  <2>1. \E h : h = [k \in 0 .. n |-> IF k = 0 THEN state ELSE body[h[k - 1]]]
    BY <1>4
  <2> QED BY <2>1
<1>6. Rounds(body, state, n) = run[n]
  BY DEF Rounds
<1> HIDE DEF run
<1>7. run[0] = state /\ \A k \in 1 .. n : run[k] = body[run[k - 1]]
  BY <1>5
<1> DEFINE Ending == {k \in 0 .. n : run[k] \notin I[k]}
<1>8. Ending = {}
  <2> SUFFICES ASSUME Ending # {} PROVE FALSE
    OBVIOUS
  <2>1. PICK k \in Ending : \A p \in Ending : k <= p
    <3>1. Ending \in SUBSET Nat
      OBVIOUS
    <3> HIDE DEF Ending
    <3> QED BY <3>1, LeastNumber
  <2>2. k \in 0 .. n /\ run[k] \notin I[k]
    BY <2>1
  <2>3. k # 0
    BY <1>7, <2>2
  <2>4. k - 1 \in 0 .. n - 1 /\ k - 1 \notin Ending
    BY <2>1, <2>2, <2>3
  <2>5. run[k - 1] \in I[k - 1]
    BY <2>4
  <2>6. body[run[k - 1]] \in I[(k - 1) + 1]
    BY <2>4, <2>5
  <2>7. (k - 1) + 1 = k /\ run[k] = body[run[k - 1]]
    BY <1>7, <2>2, <2>3
  <2> QED BY <2>2, <2>6, <2>7
<1> QED BY <1>6, <1>8
-----------------------------------------------------------------------------
(* Numbers and slots.                                                      *)

\* A remainder is known by a quotient.
LEMMA RemainderIs ==
  ASSUME NEW m \in Nat \ {0}, NEW x \in Int, NEW q \in Int, NEW r \in 0 .. m - 1, x = q * m + r
  PROVE  x % m = r
<1> DEFINE p == x \div m
<1> DEFINE s == x % m
<1>1. p \in Int /\ s \in 0 .. m - 1 /\ x = p * m + s
  OBVIOUS
<1> HIDE DEF p, s
<1>2. (q - p) * m = s - r
  BY <1>1
<1>3. q - p = 0
  <2> DEFINE d == q - p
  <2>1. d \in Int /\ d * m = s - r /\ s - r < m /\ s - r > -m
    BY <1>1, <1>2
  <2> HIDE DEF d
  <2>2. ~(d >= 1)
    <3> SUFFICES ASSUME d >= 1 PROVE FALSE
      OBVIOUS
    <3>1. d * m >= m
      BY <2>1
    <3> QED BY <1>1, <2>1, <3>1
  <2>3. ~(d <= -1)
    <3> SUFFICES ASSUME d <= -1 PROVE FALSE
      OBVIOUS
    <3>1. d * m <= -m
      BY <2>1
    <3> QED BY <1>1, <2>1, <3>1
  <2>4. d = 0
    BY <2>1, <2>2, <2>3
  <2> QED BY <2>4 DEF d
<1>4. s = r
  BY <1>1, <1>2, <1>3
<1> QED BY <1>4 DEF s

LEMMA Divides ==
  ASSUME NEW m \in Nat \ {0}, NEW x \in Int
  PROVE  \E q \in Int : x = q * m + (x % m) /\ (x % m) \in 0 .. m - 1
<1>1. PICK q \in Int : x = q * m + (x % m) /\ (x % m) \in 0 .. m - 1
  <2> DEFINE p == x \div m
  <2> DEFINE s == (x % m)
  <2>1. p \in Int /\ s \in 0 .. m - 1 /\ x = p * m + s
    OBVIOUS
  <2> QED BY <2>1
<1> QED BY <1>1

LEMMA RemainderType ==
  ASSUME NEW m \in Nat \ {0}, NEW x \in Int PROVE (x % m) \in 0 .. m - 1
BY Divides

LEMMA RemainderMinus ==
  ASSUME NEW m \in Nat \ {0}, NEW x \in Int, NEW y \in Int
  PROVE  ((x % m) - y) % m = (x - y) % m
<1> DEFINE r == (x % m)
<1> DEFINE s == (x - y) % m
<1>1. PICK q \in Int : x = q * m + r /\ r \in 0 .. m - 1
  BY Divides
<1>2. PICK p \in Int : x - y = p * m + s /\ s \in 0 .. m - 1
  <2>1. PICK z \in Int : z = x - y
    OBVIOUS
  <2> QED BY <2>1, Divides
<1> HIDE DEF r, s
<1>3. (p - q) * m = p * m - q * m
  BY <1>1, <1>2
<1>4. r - y = (p - q) * m + s /\ p - q \in Int /\ r - y \in Int
  BY <1>1, <1>2, <1>3
<1>5. (r - y) % m = s
  BY <1>2, <1>4, RemainderIs
<1> QED BY <1>5 DEF r, s

LEMMA RemainderPlus ==
  ASSUME NEW m \in Nat \ {0}, NEW x \in Int
  PROVE  ((x % m) + 1) % m = (x + 1) % m
<1>1. PICK y \in Int : y = -1
  OBVIOUS
<1>2. ((x % m) - y) % m = (x - y) % m
  BY RemainderMinus
<1>3. (x % m) \in Int
  BY RemainderType
<1>4. (x % m) - y = (x % m) + 1 /\ x - y = x + 1
  BY <1>1, <1>3
<1> QED BY <1>2, <1>4

LEMMA RingSizes ==
  /\ SeqModulo \in Nat \ {0} /\ BufSize \in Nat \ {0} /\ 4 * BufSize <= SeqModulo
  /\ MaxFrames \in Nat /\ MaxDuplicates \in Nat /\ Start \in 0 .. MaxFrames
  /\ Cpus \in {1, 2}
BY ReorderAssumption

\* The difference of two numbers can be taken after they were reduced.
LEMMA RemainderDifference ==
  ASSUME NEW m \in Nat \ {0}, NEW x \in Int, NEW y \in Int
  PROVE  ((x % m) - (y % m)) % m = (x - y) % m
<1> DEFINE r == (x % m)
<1> DEFINE s == (y % m)
<1> DEFINE d == (x - y) % m
<1>1. PICK p \in Int : x = p * m + r /\ r \in 0 .. m - 1
  BY Divides
<1>2. PICK q \in Int : y = q * m + s /\ s \in 0 .. m - 1
  BY Divides
<1>3. PICK e \in Int : x - y = e * m + d /\ d \in 0 .. m - 1
  <2>1. PICK z \in Int : z = x - y
    OBVIOUS
  <2> QED BY <2>1, Divides
<1> HIDE DEF r, s, d
<1>4. ((e - p) + q) * m = (e * m - p * m) + q * m
  BY <1>1, <1>2, <1>3
<1>5. r - s = ((e - p) + q) * m + d /\ (e - p) + q \in Int /\ r - s \in Int
  BY <1>1, <1>2, <1>3, <1>4
<1>6. (r - s) % m = d
  BY <1>3, <1>5, RemainderIs
<1> QED BY <1>6 DEF r, s, d

\* seq_less tells which of two numbers is lower while they are not too far apart.
LEMMA SeqLessIs ==
  ASSUME NEW a \in Int, NEW b \in Int, 2 * (a - b) < SeqModulo, 2 * (b - a) < SeqModulo
  PROVE  SeqLess(SeqNo(a), SeqNo(b)) <=> a < b
<1>1. SeqModulo \in Nat \ {0}
  BY RingSizes
<1>2. ((a % SeqModulo) - (b % SeqModulo)) % SeqModulo = (a - b) % SeqModulo
  BY <1>1, RemainderDifference
<1>3. PICK d \in Int : d = a - b
  OBVIOUS
<1>4. PICK h \in Nat : h = SeqModulo \div 2 /\ 2 * h <= SeqModulo /\ SeqModulo < 2 * h + 2
  BY <1>1
<1>5. CASE d >= 0
  <2>1. d = 0 * SeqModulo + d /\ d \in 0 .. SeqModulo - 1
    BY <1>1, <1>3, <1>5
  <2>2. d % SeqModulo = d
    BY <1>1, <2>1, RemainderIs
  <2>3. d <= h
    BY <1>1, <1>3, <1>4
  <2> QED BY <1>2, <1>3, <1>4, <1>5, <2>2, <2>3 DEF SeqLess, SeqNo
<1>6. CASE d < 0
  <2>1. d = (-1) * SeqModulo + (SeqModulo + d) /\ SeqModulo + d \in 0 .. SeqModulo - 1
    BY <1>1, <1>3, <1>6
  <2>2. d % SeqModulo = SeqModulo + d
    BY <1>1, <2>1, RemainderIs
  <2>3. SeqModulo + d > h
    BY <1>1, <1>3, <1>4, <1>6
  <2> QED BY <1>2, <1>3, <1>4, <1>6, <2>2, <2>3 DEF SeqLess, SeqNo
<1> QED BY <1>3, <1>5, <1>6

\* The slot is the remainder by the size, where the size fits.
LEMMA IndexIs ==
  ASSUME Fits, NEW n \in Int PROVE Index(n) = n % BufSize
<1>1. SeqModulo \in Nat \ {0} /\ BufSize \in Nat \ {0}
  BY RingSizes
<1>2. PICK c \in Int : SeqModulo = c * BufSize
  <2>1. PICK c \in Int : SeqModulo = c * BufSize + (SeqModulo % BufSize)
    <3>1. SeqModulo \in Int /\ BufSize \in Nat \ {0}
      BY <1>1
    <3> QED BY <3>1, Divides, Zenon
  <2>2. SeqModulo % BufSize = 0
    BY DEF Fits
  <2> QED BY <1>1, <2>1, <2>2
<1> DEFINE r == n % SeqModulo
<1>3. PICK q \in Int : n = q * SeqModulo + r /\ r \in 0 .. SeqModulo - 1
  BY <1>1, Divides
<1> HIDE DEF r
<1> DEFINE s == r % BufSize
<1>4. PICK p \in Int : r = p * BufSize + s /\ s \in 0 .. BufSize - 1
  <2>1. r \in Int /\ BufSize \in Nat \ {0}
    BY <1>1, <1>3
  <2> QED BY <2>1, Divides, Zenon
<1> HIDE DEF s
<1>5. q * (c * BufSize) = (q * c) * BufSize /\ q * c \in Int
  BY <1>1, <1>2, <1>3
<1>6. PICK e \in Int : e = q * c
  BY <1>5
<1>7. (e + p) * BufSize = e * BufSize + p * BufSize
  BY <1>1, <1>4, <1>6
<1>8. n = (e + p) * BufSize + s /\ e + p \in Int
  BY <1>1, <1>2, <1>3, <1>4, <1>5, <1>6, <1>7
<1>9. n % BufSize = s
  BY <1>1, <1>4, <1>8, RemainderIs
<1> QED BY <1>9 DEF Index, SeqNo, r, s

LEMMA IndexType == ASSUME Fits, NEW n \in Int PROVE Index(n) \in Slots
BY IndexIs, RingSizes, RemainderType DEF Slots

LEMMA IndexNext == ASSUME Fits, NEW n \in Int PROVE Index(n + 1) = NextSlot(Index(n))
<1>1. BufSize \in Nat \ {0}
  BY RingSizes
<1>2. PICK m \in Int : m = n + 1
  OBVIOUS
<1>3. Index(m) = m % BufSize /\ Index(n) = n % BufSize
  BY IndexIs
<1>4. ((n % BufSize) + 1) % BufSize = (n + 1) % BufSize
  BY <1>1, RemainderPlus
<1> QED BY <1>2, <1>3, <1>4 DEF NextSlot

\* Two numbers of one window have different slots.
LEMMA OneSlot ==
  ASSUME Fits, NEW a \in Int, NEW b \in Int, a <= b, b < a + BufSize, Index(a) = Index(b)
  PROVE  a = b
<1>1. BufSize \in Nat \ {0}
  BY RingSizes
<1> DEFINE s == a % BufSize
<1>2. PICK p \in Int : a = p * BufSize + s /\ s \in 0 .. BufSize - 1
  BY <1>1, Divides
<1>3. PICK q \in Int : b = q * BufSize + (b % BufSize)
  BY <1>1, Divides
<1>4. b % BufSize = s
  BY IndexIs
<1> HIDE DEF s
<1>5. PICK d \in Int : d = q - p
  BY <1>2, <1>3
<1>6. d * BufSize = q * BufSize - p * BufSize
  BY <1>1, <1>2, <1>3, <1>5
<1>7. b - a = d * BufSize
  BY <1>1, <1>2, <1>3, <1>4, <1>6
<1>8. 0 <= d * BufSize /\ d * BufSize < BufSize
  BY <1>1, <1>7
<1>9. d = 0
  <2>1. ~(d >= 1)
    <3> SUFFICES ASSUME d >= 1 PROVE FALSE
      OBVIOUS
    <3>1. d * BufSize >= BufSize
      BY <1>1
    <3> QED BY <1>1, <1>8, <3>1
  <2>2. ~(d <= -1)
    <3> SUFFICES ASSUME d <= -1 PROVE FALSE
      OBVIOUS
    <3>1. d * BufSize <= -BufSize
      BY <1>1
    <3> QED BY <1>1, <1>8, <3>1
  <2> QED BY <2>1, <2>2
<1> QED BY <1>1, <1>7, <1>9

-----------------------------------------------------------------------------
(* Rings that frames are released from.                                    *)

StoredIn(b) == {b[i] : i \in Occupied(b)}

\* Each stored frame is in the window and in its slot.
InPlace(r, top) ==
  \A i \in Occupied(r.buf) :
    r.head <= r.buf[i] /\ r.buf[i] < r.head + BufSize /\ r.buf[i] < top /\ Index(r.buf[i]) = i

\* What was released is in order, below the head, and not below low.
Sorted(r, low) ==
  /\ \A i \in 1 .. Len(r.out) - 1 : r.out[i] < r.out[i + 1]
  /\ \A i \in 1 .. Len(r.out) : low <= r.out[i] /\ r.out[i] < r.head

\* A ring whose list and slots hold the count frames of all.
Good(r, low, all, count, top) ==
  /\ r \in Rings /\ low <= r.head /\ r.head <= top
  /\ InPlace(r, top) /\ Sorted(r, low)
  /\ ToSet(r.out) \cup StoredIn(r.buf) = all
  /\ Len(r.out) + Cardinality(Occupied(r.buf)) = count

LEMMA RingFields ==
  ASSUME NEW r \in Rings
  PROVE  /\ r.head \in Nat /\ r.buf \in [Slots -> Frames \cup {Empty}] /\ r.out \in Seq(Frames)
         /\ r = [head |-> r.head, buf |-> r.buf, out |-> r.out]
BY DEF Rings

LEMMA OccupiedFinite ==
  ASSUME NEW b PROVE IsFiniteSet(Occupied(b)) /\ Cardinality(Occupied(b)) \in Nat
<1>1. IsFiniteSet(Slots)
  BY FS_Interval, RingSizes DEF Slots
<1>2. Occupied(b) \subseteq Slots
  BY DEF Occupied
<1> QED BY <1>1, <1>2, FS_Subset, FS_CardinalityType

LEMMA AppendKeeps ==
  ASSUME NEW S, NEW s \in Seq(S), NEW e \in S PROVE ToSet(Append(s, e)) = ToSet(s) \cup {e}
<1> DEFINE t == Append(s, e)
<1>1. PICK n \in Nat : n = Len(s)
  OBVIOUS
<1>2. Len(t) = n + 1 /\ t[n + 1] = e /\ \A k \in 1 .. n : t[k] = s[k]
  BY <1>1
<1>3. 1 .. n + 1 = (1 .. n) \cup {n + 1}
  BY <1>1
<1> HIDE DEF t
<1>4. ToSet(t) = {t[k] : k \in 1 .. n + 1} /\ ToSet(s) = {s[k] : k \in 1 .. n}
  BY <1>1, <1>2 DEF ToSet
<1>5. ToSet(s) \cup {e} \subseteq ToSet(t)
  <2>1. \A k \in 1 .. n : s[k] \in ToSet(t)
    BY <1>2, <1>3, <1>4, Zenon
  <2>2. n + 1 \in 1 .. n + 1 /\ t[n + 1] = e
    BY <1>2, <1>3
  <2>3. e \in ToSet(t)
    BY <1>4, <2>2, Zenon
  <2> QED BY <1>4, <2>1, <2>3, Zenon
<1>6. ToSet(t) \subseteq ToSet(s) \cup {e}
  <2>1. ASSUME NEW k \in 1 .. n + 1 PROVE t[k] \in ToSet(s) \cup {e}
    <3>1. CASE k \in 1 .. n
      BY <1>2, <1>4, <3>1, Zenon
    <3>2. CASE k = n + 1
      BY <1>2, <3>2
    <3> QED BY <1>3, <3>1, <3>2
  <2> QED BY <1>4, <2>1, Zenon
<1> QED BY <1>5, <1>6 DEF t

Freed(r, i, gap) ==
  [head |-> r.head + 1 + gap, buf |-> [r.buf EXCEPT ![i] = Empty],
   out |-> IF r.buf[i] = Empty THEN r.out ELSE Append(r.out, r.buf[i])]

\* The slot gap behind the head is freed, and the head goes behind it.
LEMMA FreeKeeps ==
  ASSUME Fits, NEW low \in Int, NEW all, NEW count, NEW top \in Int, NEW r,
         Good(r, low, all, count, top),
         NEW gap \in Nat, NEW i \in Slots, i = Index(r.head + gap), r.head + gap < top,
         \A j \in Occupied(r.buf) : r.head + gap <= r.buf[j],
         NEW q, q = Freed(r, i, gap)
  PROVE  Good(q, low, all, count, top)
<1>1. /\ r.head \in Nat /\ r.buf \in [Slots -> Frames \cup {Empty}] /\ r.out \in Seq(Frames)
      /\ Frames \subseteq Int
  BY RingFields, RingSizes DEF Good, Frames
<1>2. /\ q.head = r.head + 1 + gap /\ q.buf = [r.buf EXCEPT ![i] = Empty]
      /\ q.out = IF r.buf[i] = Empty THEN r.out ELSE Append(r.out, r.buf[i])
      /\ q = [head |-> q.head, buf |-> q.buf, out |-> q.out]
  BY DEF Freed
<1>12. r.out \in Seq(Frames) /\ Frames \subseteq Int
  BY <1>1
<1>13. q.out = IF r.buf[i] = Empty THEN r.out ELSE Append(r.out, r.buf[i])
  BY <1>2
<1>3. PICK h \in Nat : h = r.head
  BY <1>1
<1>4. \A j \in Occupied(r.buf) : r.buf[j] \in Frames /\ r.buf[j] \in Int
  BY <1>1 DEF Occupied
<1>5. ASSUME NEW j \in Occupied(r.buf), j # i PROVE h + gap + 1 <= r.buf[j]
  <2>1. Index(r.buf[j]) = j
    BY DEF Good, InPlace
  <2>2. Index(h + gap) = i
    BY <1>3
  <2>3. PICK m \in Int : m = r.buf[j]
    BY <1>4
  <2>4. h + gap <= m
    BY <1>3, <2>3
  <2>5. m # h + gap
    BY <1>5, <2>1, <2>2, <2>3
  <2> QED BY <2>3, <2>4, <2>5
<1>6. ASSUME i \in Occupied(r.buf) PROVE r.buf[i] = h + gap
  <2>1. PICK m \in Int : m = r.buf[i]
    BY <1>4, <1>6
  <2>2. h + gap <= m /\ m < h + BufSize /\ Index(m) = i
    BY <1>3, <1>6, <2>1 DEF Good, InPlace
  <2>3. PICK a \in Int : a = h + gap
    OBVIOUS
  <2>4. a <= m /\ m < a + BufSize
    BY <2>2, <2>3, RingSizes
  <2>5. Index(a) = Index(m)
    BY <1>3, <2>2, <2>3
  <2> QED BY <2>1, <2>3, <2>4, <2>5, OneSlot
<1>7. Occupied(q.buf) = Occupied(r.buf) \ {i} /\ q.buf \in [Slots -> Frames \cup {Empty}]
      /\ \A j \in Slots \ {i} : q.buf[j] = r.buf[j]
  BY <1>1, <1>2 DEF Occupied
<1>8. low <= q.head /\ q.head <= top /\ q.head \in Nat /\ q.head = h + 1 + gap
  BY <1>2, <1>3 DEF Good
<1>9. InPlace(q, top)
  <2>1. ASSUME NEW j \in Occupied(q.buf)
        PROVE  q.head <= q.buf[j] /\ q.buf[j] < q.head + BufSize /\ q.buf[j] < top /\ Index(q.buf[j]) = j
    <3>1. j \in Occupied(r.buf) /\ j # i /\ j \in Slots /\ q.buf[j] = r.buf[j]
      BY <1>7 DEF Occupied
    <3>2. PICK m \in Int : m = r.buf[j]
      BY <1>4, <3>1
    <3>3. h + gap + 1 <= m
      BY <1>5, <3>1, <3>2
    <3>4. m < h + BufSize /\ m < top /\ Index(m) = j
      BY <1>3, <3>1, <3>2 DEF Good, InPlace
    <3> QED BY <1>8, <3>1, <3>2, <3>3, <3>4, RingSizes
  <2> QED BY <2>1 DEF InPlace
<1>10. CASE i \notin Occupied(r.buf)
  <2>1. r.buf[i] = Empty
    BY <1>10 DEF Occupied
  <2>2. q.out = r.out /\ Occupied(q.buf) = Occupied(r.buf)
    BY <1>7, <1>10, <1>13, <2>1
  <2>3. StoredIn(q.buf) = StoredIn(r.buf)
    BY <1>7, <1>10, <2>2 DEF StoredIn, Occupied
  <2>4. Sorted(q, low)
    <3>1. Sorted(r, low)
      BY DEF Good
    <3>2. \A k \in 1 .. Len(r.out) : r.out[k] < q.head
      <4>1. SUFFICES ASSUME NEW k \in 1 .. Len(r.out) PROVE r.out[k] < q.head
        OBVIOUS
      <4>0. r.out[k] \in Frames
        BY <1>1
      <4>2. PICK m \in Int : m = r.out[k]
        BY <1>1, <4>0
      <4>3. m < h
        BY <1>3, <3>1, <4>2 DEF Sorted
      <4> QED BY <1>8, <4>2, <4>3
    <3> QED BY <2>2, <3>1, <3>2 DEF Sorted
  <2>5. q \in Rings
    BY <1>1, <1>2, <1>7, <1>8, <2>2 DEF Rings
  <2> QED BY <1>8, <1>9, <2>2, <2>3, <2>4, <2>5 DEF Good
<1>11. CASE i \in Occupied(r.buf)
  <2>1. PICK m \in Frames : m = r.buf[i] /\ m = h + gap /\ m \in Int
    BY <1>4, <1>6, <1>11
  <2>2. r.buf[i] # Empty
    BY <1>11 DEF Occupied
  <2>3. q.out = Append(r.out, m)
    BY <1>13, <2>1, <2>2
  <2>4. PICK n \in Nat : n = Len(r.out)
    BY <1>1
  <2>5. /\ q.out \in Seq(Frames) /\ Len(q.out) = n + 1 /\ q.out[n + 1] = m
        /\ \A k \in 1 .. n : q.out[k] = r.out[k]
    <3>1. PICK s \in Seq(Frames) : s = r.out
      BY <1>12
    <3>2. q.out = Append(s, m) /\ Len(s) = n
      BY <2>3, <2>4, <3>1
    <3>3. PICK t \in Seq(Frames) : t = Append(s, m)
      <4>1. Append(s, m) \in Seq(Frames)
        BY AppendProperties, Zenon
      <4> QED BY <4>1
    <3>4. Len(t) = n + 1 /\ t[n + 1] = m /\ \A k \in 1 .. n : t[k] = s[k]
      BY <2>1, <3>2, <3>3
    <3> QED BY <3>1, <3>2, <3>3, <3>4
  <2>6. ToSet(q.out) = ToSet(r.out) \cup {m}
    <3>1. m \in Frames
      OBVIOUS
    <3>2. r.out \in Seq(Frames)
      BY <1>12
    <3>3. ToSet(Append(r.out, m)) = ToSet(r.out) \cup {m}
      BY <3>1, <3>2, AppendKeeps
    <3> QED BY <2>3, <3>3
  <2>7. StoredIn(r.buf) = StoredIn(q.buf) \cup {m}
    <3>1. \A j \in Occupied(q.buf) : j \in Occupied(r.buf) /\ q.buf[j] = r.buf[j]
      BY <1>7 DEF Occupied
    <3>2. \A j \in Occupied(r.buf) : j # i => j \in Occupied(q.buf) /\ q.buf[j] = r.buf[j]
      BY <1>7 DEF Occupied
    <3>3. StoredIn(q.buf) \cup {m} \subseteq StoredIn(r.buf)
      BY <1>11, <2>1, <3>1, Zenon DEF StoredIn
    <3>4. ASSUME NEW j \in Occupied(r.buf) PROVE r.buf[j] \in StoredIn(q.buf) \cup {m}
      <4>1. CASE j = i
        BY <2>1, <4>1
      <4>2. CASE j # i
        BY <3>2, <4>2, Zenon DEF StoredIn
      <4> QED BY <4>1, <4>2
    <3> QED BY <3>3, <3>4, Zenon DEF StoredIn
  <2>8. Cardinality(Occupied(q.buf)) = Cardinality(Occupied(r.buf)) - 1
    BY <1>7, <1>11, OccupiedFinite, FS_RemoveElement
  <2>9. Sorted(q, low)
    <3>0. Sorted(r, low)
      BY DEF Good
    <3>1. ASSUME NEW k \in 1 .. n PROVE low <= r.out[k] /\ r.out[k] < h /\ r.out[k] \in Int
      <4>1. k \in 1 .. Len(r.out) /\ r.out[k] \in Frames
        BY <1>12, <2>4
      <4> QED BY <1>3, <1>12, <3>0, <4>1 DEF Sorted
    <3>2. low <= h
      BY <1>3 DEF Good
    <3>3. ASSUME NEW k \in 1 .. n + 1 PROVE low <= q.out[k] /\ q.out[k] < q.head
      <4>1. CASE k \in 1 .. n
        <5>1. PICK o \in Int : o = r.out[k] /\ o = q.out[k]
          BY <2>5, <3>1, <4>1
        <5>2. low <= o /\ o < h
          BY <3>1, <4>1, <5>1
        <5> QED BY <1>3, <1>8, <5>1, <5>2
      <4>2. CASE k = n + 1
        <5>1. q.out[k] = m
          BY <2>5, <4>2
        <5> QED BY <1>3, <1>8, <2>1, <3>2, <5>1
      <4> QED BY <2>4, <4>1, <4>2
    <3>4. ASSUME NEW k \in 1 .. n PROVE q.out[k] < q.out[k + 1]
      <4>1. CASE k < n
        <5>1. k \in 1 .. Len(r.out) - 1 /\ k + 1 \in 1 .. n
          BY <2>4, <4>1
        <5>2. r.out[k] < r.out[k + 1]
          BY <3>0, <5>1 DEF Sorted
        <5> QED BY <2>5, <5>1, <5>2
      <4>2. CASE k = n
        <5>1. PICK o \in Int : o = r.out[k] /\ o = q.out[k]
          BY <2>5, <3>1
        <5>2. o < h
          BY <3>1, <5>1
        <5>3. q.out[k + 1] = m
          BY <2>5, <4>2
        <5> QED BY <2>1, <5>1, <5>2, <5>3
      <4> QED BY <2>4, <4>1, <4>2
    <3> QED BY <2>4, <2>5, <3>3, <3>4 DEF Sorted
  <2>10. q \in Rings
    BY <1>2, <1>7, <1>8, <2>5 DEF Rings
  <2>11. ToSet(q.out) \cup StoredIn(q.buf) = all
    BY <2>6, <2>7 DEF Good
  <2>12. Len(q.out) + Cardinality(Occupied(q.buf)) = count
    <3>1. PICK c \in Nat : c = Cardinality(Occupied(r.buf)) /\ n + c = count
      BY <2>4, OccupiedFinite DEF Good
    <3>2. Cardinality(Occupied(q.buf)) = c - 1 /\ Len(q.out) = n + 1
      BY <2>5, <2>8, <3>1
    <3> QED BY <3>1, <3>2
  <2> QED BY <1>8, <1>9, <2>9, <2>10, <2>11, <2>12 DEF Good
<1> QED BY <1>10, <1>11

-----------------------------------------------------------------------------
(* What the releasing loops return.                                        *)

LEMMA FreedIs ==
  ASSUME NEW r \in Rings, NEW i PROVE ReleaseFrame(r, i) = Freed(r, i, 0)
<1>1. r.head + 1 + 0 = r.head + 1
  BY RingFields
<1> QED BY <1>1 DEF ReleaseFrame, Freed

LEMMA FreedType ==
  ASSUME NEW r \in Rings, NEW i \in Slots, NEW gap \in Nat PROVE Freed(r, i, gap) \in Rings
<1>1. r.head \in Nat /\ r.buf \in [Slots -> Frames \cup {Empty}]
  BY RingFields
<1>2. r.head + 1 + gap \in Nat
  BY <1>1
<1>3. [r.buf EXCEPT ![i] = Empty] \in [Slots -> Frames \cup {Empty}]
  BY <1>1
<1>4. CASE r.buf[i] = Empty
  <2>1. r.out \in Seq(Frames)
    BY RingFields
  <2> QED BY <1>2, <1>3, <1>4, <2>1 DEF Freed, Rings
<1>5. CASE r.buf[i] # Empty
  <2>1. r.out \in Seq(Frames) /\ r.buf[i] \in Frames
    BY <1>1, <1>5, RingFields
  <2>2. Append(r.out, r.buf[i]) \in Seq(Frames)
    BY <2>1, AppendProperties, Zenon
  <2> QED BY <1>2, <1>3, <1>5, <2>2 DEF Freed, Rings
<1> QED BY <1>4, <1>5

\* The slot of a number holds that number or nothing.
LEMMA SlotHolds ==
  ASSUME Fits, NEW low, NEW all, NEW count, NEW top \in Int, NEW r,
         Good(r, low, all, count, top), NEW gap \in Nat,
         \A j \in Occupied(r.buf) : r.head + gap <= r.buf[j],
         r.buf[Index(r.head + gap)] # Empty
  PROVE  r.buf[Index(r.head + gap)] = r.head + gap /\ r.head + gap < top
<1>1. r.head \in Nat /\ r.buf \in [Slots -> Frames \cup {Empty}]
  BY RingFields DEF Good
<1>2. PICK a \in Int : a = r.head + gap /\ a >= r.head
  <2>1. r.head + gap \in Int /\ r.head + gap >= r.head
    BY <1>1
  <2> QED BY <2>1
<1>3. Index(a) \in Slots
  BY IndexType
<1>4. Index(a) \in Occupied(r.buf)
  BY <1>2, <1>3 DEF Occupied
<1>5. r.buf[Index(a)] \in Frames
  BY <1>1, <1>2, <1>3
<1>6. PICK m \in Int : m = r.buf[Index(a)]
  BY <1>5, RingSizes DEF Frames
<1>7. r.head <= m /\ m < r.head + BufSize /\ m < top /\ Index(m) = Index(a)
  BY <1>4, <1>6 DEF Good, InPlace
<1>8. a <= m
  BY <1>2, <1>4, <1>6
<1>9. m < a + BufSize
  BY <1>1, <1>2, <1>7, RingSizes
<1>10. a = m
  BY <1>7, <1>8, <1>9, OneSlot
<1> QED BY <1>2, <1>6, <1>7, <1>10

LEMMA ReleaseUpToKeeps ==
  ASSUME Fits, NEW low \in Int, NEW all, NEW count, NEW top \in Int, NEW r,
         Good(r, low, all, count, top),
         NEW newHead \in Nat, r.head <= newHead, newHead <= top,
         2 * (newHead - r.head) < SeqModulo
  PROVE  Good(ReleaseUpTo(r, newHead), low, all, count, top)
         /\ ReleaseUpTo(r, newHead).head = newHead
<1> DEFINE body == [acc \in Rings |->
                      IF SeqLess(SeqNo(acc.head), SeqNo(newHead))
                      THEN ReleaseFrame(acc, Index(acc.head)) ELSE acc]
<1> DEFINE P(x, k) == Good(x, low, all, count, top) /\ (x.head = newHead \/ x.head = r.head + k)
                      /\ x.head <= newHead
<1> DEFINE I == [k \in 0 .. SeqModulo |-> {x \in Rings : P(x, k)}]
<1>1. r \in Rings /\ r.head \in Nat /\ SeqModulo \in Nat \ {0}
  BY RingFields, RingSizes DEF Good
<1>2. body \in [Rings -> Rings]
  <2>1. ASSUME NEW acc \in Rings PROVE ReleaseFrame(acc, Index(acc.head)) \in Rings
    <3>1. Index(acc.head) \in Slots
      BY IndexType, RingFields
    <3> QED BY <3>1, FreedIs, FreedType
  <2> QED BY <2>1
<1>3. ASSUME NEW k \in 0 .. SeqModulo - 1, NEW x \in Rings, P(x, k)
      PROVE  body[x] \in Rings /\ P(body[x], k + 1)
  <2>1. PICK h \in Nat : h = x.head
    BY RingFields
  <2>2. PICK h0 \in Nat : h0 = r.head
    BY <1>1
  <2>3. h <= newHead /\ h0 <= h /\ (h = newHead \/ h = h0 + k)
    BY <1>3, <2>1, <2>2
  <2>4. SeqLess(SeqNo(h), SeqNo(newHead)) <=> h < newHead
    <3>1. 2 * (newHead - h) < SeqModulo /\ 2 * (h - newHead) < SeqModulo
      BY <1>1, <2>2, <2>3
    <3> QED BY <3>1, SeqLessIs
  <2>5. CASE h = newHead
    <3>1. ~(h < newHead)
      BY <2>5
    <3>2. ~SeqLess(SeqNo(x.head), SeqNo(newHead))
      BY <2>1, <2>4, <3>1
    <3>3. body[x] = x
      BY <3>2
    <3> QED BY <1>3, <2>1, <2>5, <3>3
  <2>6. CASE h < newHead
    <3>1. body[x] = Freed(x, Index(h), 0)
      BY <2>1, <2>4, <2>6, FreedIs
    <3>2. Index(h) \in Slots /\ h + 0 = h /\ h < top
      BY <2>6, IndexType
    <3>3. \A j \in Occupied(x.buf) : h <= x.buf[j]
      BY <1>3, <2>1 DEF Good, InPlace
    <3>4. Good(Freed(x, Index(h), 0), low, all, count, top)
      BY <1>3, <2>1, <3>2, <3>3, FreeKeeps
    <3>5. Freed(x, Index(h), 0).head = h + 1
      BY <2>1 DEF Freed
    <3>6. body[x] \in Rings
      BY <1>2
    <3> QED BY <2>2, <2>3, <2>6, <3>1, <3>4, <3>5, <3>6
  <2> QED BY <2>3, <2>5, <2>6
<1>4. P(r, 0)
  BY <1>1
<1>5. ReleaseUpTo(r, newHead) = Rounds(body, r, SeqModulo)
  BY DEF ReleaseUpTo
<1> HIDE DEF body, P
<1>6. I \in [0 .. SeqModulo -> SUBSET Rings] /\ r \in I[0]
  BY <1>1, <1>4
<1>7. \A k \in 0 .. SeqModulo - 1 : \A x \in I[k] : body[x] \in I[k + 1]
  BY <1>1, <1>3
<1>8. I[SeqModulo] = {x \in Rings : P(x, SeqModulo)}
  BY <1>1
<1> HIDE DEF I
<1>9. Rounds(body, r, SeqModulo) \in I[SeqModulo]
  BY <1>1, <1>2, <1>6, <1>7, RoundsKeep
<1>10. PICK x \in Rings : x = ReleaseUpTo(r, newHead) /\ P(x, SeqModulo)
  BY <1>5, <1>8, <1>9
<1>11. x.head = newHead
  <2>1. x.head \in Nat /\ (x.head = newHead \/ x.head = r.head + SeqModulo) /\ x.head <= newHead
    BY <1>10, RingFields DEF P
  <2> QED BY <1>1, <2>1
<1> QED BY <1>10, <1>11 DEF P

LEMMA ReleaseInOrderKeeps ==
  ASSUME Fits, NEW low \in Int, NEW all, NEW count, NEW top \in Int, NEW r,
         Good(r, low, all, count, top)
  PROVE  Good(ReleaseInOrder(r), low, all, count, top)
<1> DEFINE body == [acc \in Rings |->
                      IF acc.buf[Index(acc.head)] # Empty
                      THEN ReleaseFrame(acc, Index(acc.head)) ELSE acc]
<1> DEFINE S == {x \in Rings : Good(x, low, all, count, top)}
<1> DEFINE I == [k \in 0 .. BufSize |-> S]
<1>1. r \in Rings /\ BufSize \in Nat \ {0}
  BY RingSizes DEF Good
<1>2. body \in [Rings -> Rings]
  <2>1. ASSUME NEW acc \in Rings PROVE ReleaseFrame(acc, Index(acc.head)) \in Rings
    <3>1. Index(acc.head) \in Slots
      BY IndexType, RingFields
    <3> QED BY <3>1, FreedIs, FreedType
  <2> QED BY <2>1
<1>3. ASSUME NEW x \in S PROVE body[x] \in S
  <2>1. PICK h \in Nat : h = x.head
    BY RingFields
  <2>2. x \in Rings /\ Good(x, low, all, count, top) /\ body[x] \in Rings
    BY <1>2
  <2>3. CASE x.buf[Index(h)] = Empty
    <3>1. body[x] = x
      BY <2>1, <2>2, <2>3
    <3> QED BY <3>1
  <2>4. CASE x.buf[Index(h)] # Empty
    <3>1. body[x] = Freed(x, Index(h), 0)
      BY <2>1, <2>2, <2>4, FreedIs
    <3>2. Index(h) \in Slots /\ h + 0 = h
      BY IndexType
    <3>3. \A j \in Occupied(x.buf) : h <= x.buf[j]
      BY <2>1, <2>2 DEF Good, InPlace
    <3>4. h < top
      BY <2>1, <2>2, <2>4, <3>2, <3>3, SlotHolds
    <3>5. Good(Freed(x, Index(h), 0), low, all, count, top)
      BY <2>1, <2>2, <3>2, <3>3, <3>4, FreeKeeps
    <3> QED BY <2>2, <3>1, <3>5
  <2> QED BY <2>3, <2>4
<1>4. ReleaseInOrder(r) = Rounds(body, r, BufSize)
  BY DEF ReleaseInOrder
<1>5. r \in S /\ S \in SUBSET Rings
  BY <1>1
<1> HIDE DEF body, S
<1>6. I \in [0 .. BufSize -> SUBSET Rings] /\ r \in I[0] /\ I[BufSize] = S
  BY <1>1, <1>5
<1>7. \A k \in 0 .. BufSize - 1 : \A x \in I[k] : body[x] \in I[k + 1]
  BY <1>1, <1>3
<1> HIDE DEF I
<1>8. Rounds(body, r, BufSize) \in I[BufSize]
  BY <1>1, <1>2, <1>6, <1>7, RoundsKeep
<1> QED BY <1>4, <1>6, <1>8 DEF S

-----------------------------------------------------------------------------
(* The loop that looks for frames that waited for too long.                *)

LEMMA SearchFields ==
  ASSUME NEW x \in Searches
  PROVE  /\ x.ring \in Rings /\ x.skipped \in Nat /\ x.slot \in Slots /\ x.stop \in Slots \cup {Off}
         /\ x = [ring |-> x.ring, skipped |-> x.skipped, slot |-> x.slot, stop |-> x.stop]
BY DEF Searches

LEMMA NextSlotType == ASSUME NEW i \in Slots PROVE NextSlot(i) \in Slots
<1>1. BufSize \in Nat \ {0}
  BY RingSizes
<1>2. PICK j \in Int : j = i + 1
  BY <1>1 DEF Slots
<1>3. (j % BufSize) \in 0 .. BufSize - 1
  BY <1>1, RemainderType
<1> QED BY <1>2, <1>3 DEF NextSlot, Slots

\* Where the search is at the slot of a number, no frame before that one is left.
Searching(x, low, all, count, top) ==
  /\ Good(x.ring, low, all, count, top)
  /\ x.stop = Off =>
       /\ x.slot = Index(x.ring.head + x.skipped)
       /\ \A j \in Occupied(x.ring.buf) : x.ring.head + x.skipped <= x.ring.buf[j]

LEMMA ReleaseSkippedIs ==
  ASSUME NEW x \in Searches
  PROVE  ReleaseSkipped(x) = [ring |-> Freed(x.ring, x.slot, x.skipped), skipped |-> 0,
                              slot |-> NextSlot(x.slot), stop |-> Off]
<1>1. x.ring \in Rings /\ x.ring.head \in Nat /\ x.skipped \in Nat
  BY SearchFields, RingFields
<1>2. x.ring.head + 1 + x.skipped = (x.ring.head + 1) + x.skipped
  BY <1>1
<1> DEFINE ring == ReleaseFrame(x.ring, x.slot)
<1> DEFINE q == Freed(x.ring, x.slot, x.skipped)
<1>3. [ring EXCEPT !.head = ring.head + x.skipped] =
        [head |-> ring.head + x.skipped, buf |-> ring.buf, out |-> ring.out]
  BY DEF ReleaseFrame
<1>4. ring.head + x.skipped = q.head /\ ring.buf = q.buf /\ ring.out = q.out
  BY <1>2 DEF ReleaseFrame, Freed
<1>5. q = [head |-> q.head, buf |-> q.buf, out |-> q.out]
  BY DEF Freed
<1>6. ReleaseSkipped(x) = [ring |-> [ring EXCEPT !.head = ring.head + x.skipped], skipped |-> 0,
                           slot |-> NextSlot(x.slot), stop |-> Off]
  BY DEF ReleaseSkipped, Skipped
<1> HIDE DEF ring, q
<1>7. [ring EXCEPT !.head = ring.head + x.skipped] = q
  BY <1>3, <1>4, <1>5
<1> QED BY <1>6, <1>7 DEF q

LEMMA SearchType ==
  ASSUME NEW x \in Searches, NEW waited PROVE Search(x, waited) \in Searches
<1>1. /\ x.ring \in Rings /\ x.skipped \in Nat /\ x.slot \in Slots
      /\ x.stop \in Slots \cup {Off}
      /\ x = [ring |-> x.ring, skipped |-> x.skipped, slot |-> x.slot, stop |-> x.stop]
  BY SearchFields
<1>2. NextSlot(x.slot) \in Slots
  BY <1>1, NextSlotType
<1>3. ReleaseSkipped(x) \in Searches
  <2>1. Freed(x.ring, x.slot, x.skipped) \in Rings
    BY <1>1, FreedType
  <2> QED BY <1>2, <2>1, ReleaseSkippedIs DEF Searches
<1>4. [ring |-> x.ring, skipped |-> x.skipped + 1, slot |-> NextSlot(x.slot), stop |-> Off]
        \in Searches
  <2>1. x.skipped + 1 \in Nat
    BY <1>1
  <2> QED BY <1>1, <1>2, <2>1 DEF Searches
<1>5. [x EXCEPT !.stop = x.slot] \in Searches
  BY <1>1 DEF Searches
<1> QED BY <1>3, <1>4, <1>5 DEF Search

LEMMA SearchKeeps ==
  ASSUME Fits, NEW low \in Int, NEW all, NEW count, NEW top \in Int, NEW waited,
         NEW x \in Searches, x.stop = Off, Searching(x, low, all, count, top)
  PROVE  Searching(Search(x, waited), low, all, count, top)
<1>1. /\ x.ring \in Rings /\ x.skipped \in Nat /\ x.slot \in Slots
      /\ x = [ring |-> x.ring, skipped |-> x.skipped, slot |-> x.slot, stop |-> x.stop]
  BY SearchFields
<1>2. /\ x.ring.head \in Nat /\ x.ring.buf \in [Slots -> Frames \cup {Empty}]
  BY <1>1, RingFields
<1>3. PICK h \in Nat, k \in Nat : h = x.ring.head /\ k = x.skipped
  BY <1>1, <1>2
<1>4. PICK r \in Rings : r = x.ring
  BY <1>1
<1>5. Good(r, low, all, count, top) /\ x.slot = Index(h + k) /\ h = r.head
      /\ \A j \in Occupied(r.buf) : h + k <= r.buf[j]
  BY <1>3, <1>4 DEF Searching
<1>6. NextSlot(x.slot) = Index(h + k + 1)
  <2>1. PICK m \in Int : m = h + k
    OBVIOUS
  <2> QED BY <1>5, <2>1, IndexNext
<1>7. CASE r.buf[x.slot] = Empty
  <2> DEFINE y == [ring |-> x.ring, skipped |-> x.skipped + 1,
                   slot |-> NextSlot(x.slot), stop |-> Off]
  <2>1. Search(x, waited) = y
    BY <1>4, <1>7 DEF Search
  <2>2. y.ring = r /\ y.skipped = k + 1 /\ y.slot = NextSlot(x.slot) /\ y.stop = Off
    BY <1>1, <1>3, <1>4
  <2> HIDE DEF y
  <2>3. ASSUME NEW j \in Occupied(r.buf) PROVE h + (k + 1) <= r.buf[j]
    <3>1. j # x.slot /\ j \in Slots /\ r.buf[j] \in Frames
      BY <1>2, <1>4, <1>7 DEF Occupied
    <3>2. PICK m \in Int : m = r.buf[j]
      BY <3>1, RingSizes DEF Frames
    <3>3. Index(m) = j /\ h + k <= m
      BY <1>5, <3>2 DEF Good, InPlace
    <3>4. m # h + k
      BY <1>5, <3>1, <3>3
    <3> QED BY <3>2, <3>3, <3>4
  <2>4. h + (k + 1) = h + k + 1
    OBVIOUS
  <2> QED BY <1>5, <1>6, <2>1, <2>2, <2>3, <2>4 DEF Searching
<1>8. CASE r.buf[x.slot] # Empty /\ (x.skipped > 0 /\ x.slot \notin waited)
  <2> DEFINE y == [x EXCEPT !.stop = x.slot]
  <2>1. Search(x, waited) = y
    BY <1>4, <1>8 DEF Search
  <2>2. y.ring = r /\ y.stop = x.slot
    BY <1>1, <1>4
  <2> HIDE DEF y
  <2>3. x.slot # Off
    BY <1>1, RingSizes DEF Slots, Off
  <2> QED BY <1>5, <2>1, <2>2, <2>3 DEF Searching
<1>9. CASE r.buf[x.slot] # Empty /\ ~(x.skipped > 0 /\ x.slot \notin waited)
  <2>1. Search(x, waited) = ReleaseSkipped(x)
    BY <1>4, <1>9 DEF Search
  <2> DEFINE q == Freed(r, x.slot, k)
  <2>2. /\ Search(x, waited).ring = q /\ Search(x, waited).skipped = 0
        /\ Search(x, waited).slot = NextSlot(x.slot)
    BY <1>3, <1>4, <2>1, ReleaseSkippedIs
  <2>3. h + k < top
    BY <1>3, <1>5, <1>9, SlotHolds
  <2>4. Good(q, low, all, count, top)
    BY <1>1, <1>5, <2>3, FreeKeeps
  <2>5. q.head = h + 1 + k
    BY <1>5 DEF Freed
  <2> HIDE DEF q
  <2>6. q.head + 0 = h + k + 1 /\ q.head + 0 = q.head
    BY <2>5
  <2>7. \A j \in Occupied(q.buf) : q.head <= q.buf[j]
    BY <2>4 DEF Good, InPlace
  <2> QED BY <1>6, <2>2, <2>4, <2>6, <2>7 DEF Searching
<1> QED BY <1>7, <1>8, <1>9

LEMMA ReleaseLateKeeps ==
  ASSUME Fits, NEW low \in Int, NEW all, NEW count, NEW top \in Int, NEW r,
         Good(r, low, all, count, top), r.buf[Index(r.head)] = Empty, NEW waited
  PROVE  /\ Good(ReleaseLate(r, waited).ring, low, all, count, top)
         /\ ReleaseLate(r, waited).stop \in Slots \cup {Off}
<1> DEFINE body == [acc \in Searches |-> IF acc.stop # Off THEN acc ELSE Search(acc, waited)]
<1> DEFINE start == [ring |-> r, skipped |-> 1, slot |-> NextSlot(Index(r.head)), stop |-> Off]
<1> DEFINE S == {x \in Searches : Searching(x, low, all, count, top)}
<1> DEFINE I == [k \in 0 .. BufSize - 1 |-> S]
<1>1. /\ r \in Rings /\ BufSize \in Nat \ {0} /\ BufSize - 1 \in Nat
      /\ r.head \in Nat /\ r.buf \in [Slots -> Frames \cup {Empty}]
  BY RingSizes, RingFields DEF Good
<1>2. body \in [Searches -> Searches]
  BY SearchType
<1>3. ASSUME NEW x \in S PROVE body[x] \in S
  <2>1. x \in Searches /\ Searching(x, low, all, count, top) /\ body[x] \in Searches
    BY <1>2
  <2>2. CASE x.stop # Off
    BY <2>1, <2>2
  <2>3. CASE x.stop = Off
    <3>1. body[x] = Search(x, waited)
      BY <2>1, <2>3
    <3>2. Searching(Search(x, waited), low, all, count, top)
      BY <2>1, <2>3, SearchKeeps
    <3> QED BY <2>1, <3>1, <3>2
  <2> QED BY <2>2, <2>3
<1>4. start \in S
  <2>1. Index(r.head) \in Slots
    BY <1>1, IndexType
  <2>2. start \in Searches
    BY <1>1, <2>1, NextSlotType DEF Searches
  <2>3. NextSlot(Index(r.head)) = Index(r.head + 1)
    BY <1>1, IndexNext
  <2>4. ASSUME NEW j \in Occupied(r.buf) PROVE r.head + 1 <= r.buf[j]
    <3>1. j # Index(r.head) /\ r.buf[j] \in Frames
      BY <1>1 DEF Occupied
    <3>2. PICK m \in Int : m = r.buf[j]
      BY <3>1, RingSizes DEF Frames
    <3>3. Index(m) = j /\ r.head <= m
      BY <3>2 DEF Good, InPlace
    <3>4. m # r.head
      BY <3>1, <3>3
    <3> QED BY <1>1, <3>2, <3>3, <3>4
  <2>5. Searching(start, low, all, count, top)
    BY <2>3, <2>4 DEF Searching
  <2> QED BY <2>2, <2>5
<1>5. ReleaseLate(r, waited) = Rounds(body, start, BufSize - 1)
  BY DEF ReleaseLate
<1>6. S \in SUBSET Searches
  OBVIOUS
<1> HIDE DEF body, S, start
<1>7. /\ I \in [0 .. BufSize - 1 -> SUBSET Searches]
      /\ start \in I[0] /\ I[BufSize - 1] = S
  BY <1>1, <1>4, <1>6
<1>8. \A k \in 0 .. (BufSize - 1) - 1 : \A x \in I[k] : body[x] \in I[k + 1]
  BY <1>1, <1>3
<1> HIDE DEF I
<1>9. start \in Searches
  BY <1>4, <1>6
<1>10. Rounds(body, start, BufSize - 1) \in I[BufSize - 1]
  <2>1. PICK n \in Nat : n = BufSize - 1
    BY <1>1
  <2> QED BY <1>2, <1>7, <1>8, <1>9, <2>1, RoundsKeep
<1> QED BY <1>5, <1>7, <1>10, SearchFields DEF S, Searching

-----------------------------------------------------------------------------
(* One step of the ring.                                                   *)

\* A slot is found counting from any other.
LEMMA SlotReached ==
  ASSUME Fits, NEW n \in Int, NEW i \in Slots
  PROVE  \E k \in Slots : (Index(n) + k) % BufSize = i
<1>1. BufSize \in Nat \ {0}
  BY RingSizes
<1>2. PICK m \in Slots : m = Index(n)
  BY IndexType
<1>3. m \in Int /\ i \in Int /\ 0 <= i /\ i < BufSize /\ 0 <= m /\ m < BufSize
  BY <1>1 DEF Slots
<1>4. CASE m <= i
  <2>1. PICK k \in Int : k = i - m
    BY <1>3
  <2>2. k \in Slots /\ m + k = 0 * BufSize + i
    BY <1>1, <1>3, <1>4, <2>1 DEF Slots
  <2>3. (m + k) % BufSize = i
    <3>1. PICK x \in Int : x = m + k
      BY <1>3
    <3>2. i \in 0 .. BufSize - 1 /\ x = 0 * BufSize + i /\ 0 \in Int
      BY <1>1, <1>3, <2>2, <3>1
    <3> QED BY <1>1, <3>1, <3>2, RemainderIs
  <2> QED BY <1>2, <2>2, <2>3
<1>5. CASE i < m
  <2>1. PICK k \in Int : k = BufSize + i - m
    BY <1>1, <1>3
  <2>2. k \in Slots /\ m + k = 1 * BufSize + i
    BY <1>1, <1>3, <1>5, <2>1 DEF Slots
  <2>3. (m + k) % BufSize = i
    <3>1. PICK x \in Int : x = m + k
      BY <1>3
    <3>2. i \in 0 .. BufSize - 1 /\ x = 1 * BufSize + i /\ 1 \in Int
      BY <1>1, <1>3, <2>2, <3>1
    <3> QED BY <1>1, <3>1, <3>2, RemainderIs
  <2> QED BY <1>2, <2>2, <2>3
<1> QED BY <1>3, <1>4, <1>5

LEMMA FirstOccupiedType ==
  ASSUME Fits, NEW r \in Rings, Occupied(r.buf) # {} PROVE FirstOccupied(r) \in Slots
<1> DEFINE at(k) == (Index(r.head) + k) % BufSize
<1> DEFINE P(k) == at(k) \in Occupied(r.buf) /\ \A l \in 0 .. k - 1 : at(l) \notin Occupied(r.buf)
<1> DEFINE S == {k \in Slots : at(k) \in Occupied(r.buf)}
<1>1. r.head \in Int /\ BufSize \in Nat \ {0} /\ Slots \subseteq Nat
  BY RingFields, RingSizes DEF Slots
<1>2. PICK i \in Occupied(r.buf) : i \in Slots
  BY DEF Occupied
<1>3. S # {} /\ S \in SUBSET Nat
  <2>1. PICK k \in Slots : at(k) = i
    BY <1>1, <1>2, SlotReached
  <2> QED BY <1>1, <1>2, <2>1
<1>4. PICK k \in S : \A m \in S : k <= m
  BY <1>3, LeastNumber
<1>5. P(k)
  <2>1. ASSUME NEW l \in 0 .. k - 1, at(l) \in Occupied(r.buf) PROVE FALSE
    <3>1. k \in Slots /\ k \in Nat
      BY <1>1
    <3>2. l \in Slots /\ ~(k <= l)
      BY <1>1, <3>1 DEF Slots
    <3> QED BY <1>4, <2>1, <3>2
  <2> QED BY <2>1
<1>6. k \in Slots
  OBVIOUS
<1> HIDE DEF S
<1>7. P(CHOOSE m \in Slots : P(m)) /\ (CHOOSE m \in Slots : P(m)) \in Slots
  BY <1>5, <1>6, Zenon
<1>8. PICK c \in Slots : c = CHOOSE m \in Slots : P(m)
  BY <1>7
<1>9. FirstOccupied(r) = at(c)
  BY <1>8 DEF FirstOccupied
<1>10. at(c) \in Occupied(r.buf)
  BY <1>7, <1>8
<1> QED BY <1>9, <1>10 DEF Occupied

LEMMA TimerOfRuns ==
  ASSUME Fits, NEW r \in Rings, NEW stop \in Slots \cup {Off}
  PROVE  /\ TimerOf(r, stop) \in Slots \cup {Off}
         /\ Occupied(r.buf) # {} => TimerOf(r, stop) # Off
<1>1. Off \notin Slots
  BY RingSizes DEF Slots, Off
<1>2. CASE Occupied(r.buf) = {}
  BY <1>2 DEF TimerOf
<1>3. CASE Occupied(r.buf) # {} /\ stop # Off
  BY <1>3 DEF TimerOf
<1>4. CASE Occupied(r.buf) # {} /\ stop = Off
  BY <1>1, <1>4, FirstOccupiedType DEF TimerOf
<1> QED BY <1>2, <1>3, <1>4

LEMMA ReleaseSomeKeeps ==
  ASSUME Fits, NEW low \in Int, NEW all, NEW total, NEW top \in Int, NEW r,
         Good(r, low, all, total, top), NEW count, NEW waited
  PROVE  /\ Good(ReleaseSome(r, count, waited).ring, low, all, total, top)
         /\ ReleaseSome(r, count, waited).stop \in Slots \cup {Off}
<1>1. CASE r.buf[Index(r.head)] = Empty /\ count > 0
  BY <1>1, ReleaseLateKeeps DEF ReleaseSome
<1>2. CASE ~(r.buf[Index(r.head)] = Empty /\ count > 0)
  <2>1. ReleaseSome(r, count, waited) = [ring |-> ReleaseInOrder(r), stop |-> Off]
    BY <1>2 DEF ReleaseSome
  <2> QED BY <2>1, ReleaseInOrderKeeps
<1> QED BY <1>1, <1>2

-----------------------------------------------------------------------------
(* The list that a step puts together.                                     *)

\* In order, behind what was handed over, and not beyond the head.
Ordered(s, low, high) ==
  /\ Chained(s) /\ \A k \in 1 .. Len(s) : low <= s[k]
  /\ s # <<>> => Follows(s[Len(s)], high)

\* The frames of the ring and the ones of new go to the list s or stay.
Moves(c, new, s) ==
  /\ list' = [list EXCEPT ![c] = s] /\ s \in Seq(Frames) /\ Ordered(s, head, head')
  /\ head' \in Nat /\ head <= head' /\ head' <= window + BufSize
  /\ buf' \in [Slots -> Frames \cup {Empty}] /\ timer' \in Slots \cup {Off}
  /\ stored' = Cardinality(Occupied(buf')) /\ RingOK'
  /\ ToSet(s) \cup StoredIn(buf') = StoredIn(buf) \cup new

\* A list without repetitions.
LEMMA SortedIsOrdered ==
  ASSUME NEW q \in Rings, NEW low \in Int, Sorted(q, low) PROVE Ordered(q.out, low, q.head)
<1>1. PICK s \in Seq(Frames), h \in Nat : s = q.out /\ h = q.head
  BY RingFields
<1>2. PICK n \in Nat : n = Len(s)
  OBVIOUS
<1>3. \A k \in 1 .. n : s[k] \in Frames
  BY <1>2
<1>4. /\ \A k \in 1 .. n - 1 : s[k] < s[k + 1]
      /\ \A k \in 1 .. n : low <= s[k] /\ s[k] < h
  BY <1>1, <1>2 DEF Sorted
<1>5. s # <<>> => n \in 1 .. n
  BY <1>2
<1> QED BY <1>1, <1>2, <1>4, <1>5 DEF Ordered, Chained, Follows

\* A ring in place is what RingOK says.
LEMMA GoodIsRingOK ==
  ASSUME Fits, NEW q, NEW low, NEW all, NEW total, NEW top \in Int,
         Good(q, low, all, total, top), head' = q.head, buf' = q.buf,
         stored' = Cardinality(Occupied(q.buf)),
         Occupied(q.buf) # {} => timer' # Off
  PROVE  RingOK'
<1>1. q.head \in Nat /\ q.buf \in [Slots -> Frames \cup {Empty}] /\ BufSize \in Nat
  BY RingFields, RingSizes DEF Good
<1>2. ASSUME NEW i \in Occupied(q.buf)
      PROVE  q.buf[i] \in q.head .. q.head + BufSize - 1 /\ Index(q.buf[i]) = i
  <2>1. q.buf[i] \in Frames
    BY <1>1 DEF Occupied
  <2>2. PICK m \in Int : m = q.buf[i]
    BY <2>1, RingSizes DEF Frames
  <2>3. q.head <= m /\ m < q.head + BufSize /\ Index(m) = i
    BY <2>2 DEF Good, InPlace
  <2> QED BY <1>1, <2>2, <2>3
<1>3. stored' > 0 => timer' # Off
  <2>1. CASE Occupied(q.buf) = {}
    BY <2>1, FS_EmptySet
  <2>2. CASE Occupied(q.buf) # {}
    BY <2>2
  <2> QED BY <2>1, <2>2
<1>4. (Occupied(buf))' = Occupied(q.buf)
  BY DEF Occupied, Slots, Empty
<1>5. \A i \in Int : (Index(i))' = Index(i)
  BY DEF Index, SeqNo
<1> QED BY <1>2, <1>3, <1>4 DEF RingOK, Index, SeqNo

\* What the steps of the ring start from.
RingTypes ==
  /\ head \in Nat /\ window \in Nat /\ stored \in Nat
  /\ buf \in [Slots -> Frames \cup {Empty}] /\ timer \in Slots \cup {Off}
  /\ head <= window + BufSize
  /\ \A i \in Occupied(buf) : buf[i] < window + BufSize

LEMMA TopType == ASSUME RingTypes PROVE window + BufSize \in Int
BY RingSizes DEF RingTypes

LEMMA RingGood ==
  ASSUME Fits, RingTypes, RingInv
  PROVE  Good(Ring, head, StoredIn(buf), stored, window + BufSize)
<1>1. head \in Nat /\ buf \in [Slots -> Frames \cup {Empty}] /\ BufSize \in Nat
  BY RingSizes DEF RingTypes
<1>2. Ring.head = head /\ Ring.buf = buf /\ Ring.out = <<>> /\ Ring \in Rings
  BY <1>1 DEF Ring, Rings
<1>3. InPlace(Ring, window + BufSize)
  <2>1. ASSUME NEW i \in Occupied(buf)
        PROVE  head <= buf[i] /\ buf[i] < head + BufSize /\ buf[i] < window + BufSize
               /\ Index(buf[i]) = i
    <3>1. buf[i] \in head .. head + BufSize - 1 /\ Index(buf[i]) = i /\ buf[i] < window + BufSize
      BY DEF RingInv, RingOK, RingTypes
    <3> QED BY <1>1, <3>1
  <2> QED BY <1>2, <2>1 DEF InPlace
<1>4. Sorted(Ring, head)
  BY <1>2 DEF Sorted
<1>5. ToSet(Ring.out) = {} /\ Len(Ring.out) = 0
  BY <1>2 DEF ToSet
<1>6. stored = Cardinality(Occupied(buf)) /\ stored \in Nat
  BY DEF RingInv, StoredCount, RingTypes
<1> QED BY <1>1, <1>2, <1>3, <1>4, <1>5, <1>6 DEF Good, RingTypes

LEMMA ReleaseMoves ==
  ASSUME Fits, RingTypes, NEW c, NEW new, NEW r, NEW count \in Int, NEW waited,
         Good(r, head, StoredIn(buf) \cup new, count + Len(r.out), window + BufSize),
         ReorderRelease(c, r, count, waited)
  PROVE  \E s : Moves(c, new, s)
<1>1. PICK after \in {ReleaseSome(r, count, waited)} :
        /\ head' = after.ring.head /\ buf' = after.ring.buf
        /\ stored' = count - (Len(after.ring.out) - Len(r.out))
        /\ timer' = TimerOf(after.ring, after.stop)
        /\ list' = [list EXCEPT ![c] = after.ring.out]
  BY DEF ReorderRelease
<1>2. PICK top \in Int : top = window + BufSize
  BY TopType
<1>3. PICK total \in Int : total = count + Len(r.out)
  <2>1. r.out \in Seq(Frames)
    BY RingFields DEF Good
  <2> QED BY <2>1
<1>4. head \in Int /\ Good(r, head, StoredIn(buf) \cup new, total, top)
  BY <1>2, <1>3 DEF RingTypes
<1>5. PICK q, stop : q = after.ring /\ stop = after.stop
  OBVIOUS
<1>6. Good(q, head, StoredIn(buf) \cup new, total, top) /\ stop \in Slots \cup {Off}
  BY <1>1, <1>4, <1>5, ReleaseSomeKeeps
<1>7. q \in Rings /\ q.head \in Nat /\ q.buf \in [Slots -> Frames \cup {Empty}] /\ q.out \in Seq(Frames)
  BY <1>6, RingFields DEF Good
<1>8. stored' = Cardinality(Occupied(q.buf))
  <2>1. PICK k \in Nat, l \in Nat, m \in Nat :
          k = Cardinality(Occupied(q.buf)) /\ l = Len(q.out) /\ m = Len(r.out)
    <3>1. r.out \in Seq(Frames)
      BY RingFields DEF Good
    <3> QED BY <1>7, <3>1, OccupiedFinite
  <2>2. l + k = total /\ total = count + m
    BY <1>3, <1>6, <2>1 DEF Good
  <2>3. stored' = count - (l - m)
    BY <1>1, <1>5, <2>1
  <2>4. count - (l - m) = k
    BY <2>2
  <2> QED BY <2>1, <2>3, <2>4
<1>9. timer' \in Slots \cup {Off} /\ (Occupied(q.buf) # {} => timer' # Off)
  BY <1>1, <1>5, <1>6, <1>7, TimerOfRuns
<1>10. head' = q.head /\ buf' = q.buf /\ list' = [list EXCEPT ![c] = q.out]
  BY <1>1, <1>5
<1>11. RingOK'
  BY <1>6, <1>8, <1>9, <1>10, GoodIsRingOK
<1>12. Ordered(q.out, head, head') /\ head <= head' /\ head' <= top
  BY <1>4, <1>6, <1>7, <1>10, SortedIsOrdered DEF Good
<1>13. ToSet(q.out) \cup StoredIn(buf') = StoredIn(buf) \cup new
  BY <1>6, <1>10 DEF Good
<1> QED BY <1>2, <1>7, <1>8, <1>9, <1>10, <1>11, <1>12, <1>13 DEF Moves

\* A frame of the peer's window that is not half the numbers ahead.
Near(n) ==
  /\ n \in Frames /\ window <= n /\ n < window + BufSize /\ n - head < SeqModulo \div 2

LEMMA NearIs ==
  ASSUME RingTypes, NEW n, Near(n)
  PROVE  /\ n \in Nat /\ head - n <= BufSize /\ 2 * (n - head) < SeqModulo
         /\ 2 * (head - n) < SeqModulo
         /\ OutOfDate(n) <=> n < head
         /\ n >= head => (BeyondWindow(n) <=> n >= head + BufSize)
<1>1. /\ n \in Nat /\ head \in Nat /\ window \in Nat
      /\ SeqModulo \in Nat \ {0} /\ BufSize \in Nat \ {0} /\ 4 * BufSize <= SeqModulo
  BY RingSizes DEF RingTypes, Near, Frames
<1>2. head - n <= BufSize
  BY <1>1 DEF RingTypes, Near
<1>3. 2 * (head - n) < SeqModulo
  BY <1>1, <1>2
<1>4. 2 * (n - head) < SeqModulo
  <2>1. PICK h \in Nat : h = SeqModulo \div 2 /\ 2 * h <= SeqModulo
    BY <1>1
  <2> QED BY <1>1, <2>1 DEF Near
<1>5. OutOfDate(n) <=> n < head
  BY <1>1, <1>3, <1>4, SeqLessIs DEF OutOfDate
<1>6. ASSUME n >= head PROVE BeyondWindow(n) <=> n >= head + BufSize
  <2>1. PICK e \in Int : e = head + BufSize
    BY <1>1
  <2>2. 2 * (n - e) < SeqModulo /\ 2 * (e - n) < SeqModulo
    BY <1>1, <1>4, <1>6, <2>1
  <2>3. SeqLess(SeqNo(n), SeqNo(e)) <=> n < e
    BY <1>1, <2>2, SeqLessIs
  <2> QED BY <1>1, <2>1, <2>3 DEF BeyondWindow
<1> QED BY <1>1, <1>2, <1>3, <1>4, <1>5, <1>6

LEMMA MakeRoomKeeps ==
  ASSUME Fits, RingTypes, RingInv, NEW n, Near(n), ~OutOfDate(n)
  PROVE  /\ Good(MakeRoom(n), head, StoredIn(buf), stored, window + BufSize)
         /\ MakeRoom(n).head <= n /\ n < MakeRoom(n).head + BufSize
<1>1. /\ n \in Nat /\ head \in Nat /\ window \in Nat /\ head <= n
      /\ SeqModulo \in Nat \ {0} /\ BufSize \in Nat \ {0} /\ 4 * BufSize <= SeqModulo
      /\ 2 * (n - head) < SeqModulo
  BY RingSizes, NearIs DEF RingTypes
<1>2. PICK top \in Int : top = window + BufSize /\ n < top
  BY <1>1 DEF Near
<1>3. Good(Ring, head, StoredIn(buf), stored, top) /\ Ring.head = head
  BY <1>2, RingGood DEF Ring
<1>4. CASE n < head + BufSize
  <2>1. MakeRoom(n) = Ring
    BY <1>1, <1>4, NearIs DEF MakeRoom
  <2> QED BY <1>1, <1>2, <1>3, <1>4, <2>1
<1>5. CASE n >= head + BufSize
  <2>1. PICK e \in Nat : e = n - BufSize + 1
    BY <1>1, <1>5
  <2>2. MakeRoom(n) = ReleaseUpTo(Ring, e)
    BY <1>1, <1>5, <2>1, NearIs DEF MakeRoom
  <2>3. head <= e /\ e <= top /\ 2 * (e - head) < SeqModulo /\ e <= n /\ n < e + BufSize
    BY <1>1, <1>2, <1>5, <2>1
  <2>4. Good(ReleaseUpTo(Ring, e), head, StoredIn(buf), stored, top)
        /\ ReleaseUpTo(Ring, e).head = e
    BY <1>1, <1>3, <2>3, ReleaseUpToKeeps
  <2> QED BY <1>2, <2>2, <2>3, <2>4
<1> QED BY <1>1, <1>4, <1>5

\* Reduced numbers of one window are equal when the numbers are.
LEMMA SameNumber ==
  ASSUME NEW a \in Int, NEW b \in Int, SeqNo(a) = SeqNo(b),
         a - b < SeqModulo, b - a < SeqModulo
  PROVE  a = b
<1>1. SeqModulo \in Nat \ {0}
  BY RingSizes
<1>2. PICK p \in Int : a = p * SeqModulo + (a % SeqModulo)
  BY <1>1, Divides
<1>3. PICK q \in Int : b = q * SeqModulo + (b % SeqModulo)
  BY <1>1, Divides
<1>4. PICK s \in Int : s = (a % SeqModulo) /\ s = (b % SeqModulo)
  <2>1. (a % SeqModulo) \in 0 .. SeqModulo - 1
    BY <1>1, RemainderType
  <2> QED BY <1>1, <2>1 DEF SeqNo
<1>5. PICK d \in Int : d = p - q
  OBVIOUS
<1>6. a - b = d * SeqModulo
  <2>1. p * SeqModulo - q * SeqModulo = (p - q) * SeqModulo
    BY <1>1
  <2> QED BY <1>1, <1>2, <1>3, <1>4, <1>5, <2>1
<1>7. d = 0
  <2>1. CASE d >= 1
    <3>1. d * SeqModulo >= SeqModulo
      BY <1>1, <2>1
    <3> QED BY <1>1, <1>6, <3>1
  <2>2. CASE d <= -1
    <3>1. d * SeqModulo <= -SeqModulo
      BY <1>1, <2>2
    <3> QED BY <1>1, <1>6, <3>1
  <2> QED BY <2>1, <2>2
<1> QED BY <1>1, <1>6, <1>7

LEMMA ReducedNext ==
  ASSUME NEW a \in Int, NEW b \in Int, SeqNo(a) = SeqNo(b) + 1 PROVE SeqNo(a) = SeqNo(b + 1)
<1>1. SeqModulo \in Nat \ {0}
  BY RingSizes
<1>2. PICK s \in Int : s = (a % SeqModulo) /\ s \in 0 .. SeqModulo - 1
  BY <1>1, RemainderType
<1>3. PICK t \in Int : t = (b % SeqModulo)
  <2>1. (b % SeqModulo) \in 0 .. SeqModulo - 1
    BY <1>1, RemainderType
  <2> QED BY <1>1, <2>1
<1>4. ((b % SeqModulo) + 1) % SeqModulo = (b + 1) % SeqModulo
  BY <1>1, RemainderPlus
<1>5. s = t + 1
  BY <1>2, <1>3 DEF SeqNo
<1>6. s % SeqModulo = s
  BY <1>1, <1>2
<1> QED BY <1>2, <1>3, <1>4, <1>5, <1>6 DEF SeqNo

\* What a frame finds after room was made.
Roomy(r, n, top) ==
  /\ Good(r, head, StoredIn(buf), stored, top)
  /\ r.head <= n /\ n < r.head + BufSize /\ n < top

LEMMA AlreadyStoredMoves ==
  ASSUME Fits, RingTypes, RingInv, NEW n \in Frames, NEW r, Roomy(r, n, window + BufSize),
         AlreadyStored(n, r, stored - Len(r.out))
  PROVE  \E s : Moves("rx", {n}, s)
<1>1. /\ r.head \in Nat /\ r.buf \in [Slots -> Frames \cup {Empty}] /\ r.out \in Seq(Frames)
      /\ r \in Rings /\ n \in Nat /\ BufSize \in Nat /\ head \in Int
  BY RingFields, RingSizes DEF Roomy, Good, RingTypes, Frames
<1>2. PICK top \in Int : top = window + BufSize
  BY TopType
<1>3. Good(r, head, StoredIn(buf), stored, top)
  BY <1>2 DEF Roomy
<1>4. Index(n) \in Slots /\ Index(n) \in Occupied(r.buf)
  BY <1>1, IndexType DEF AlreadyStored, Occupied
<1>5. r.buf[Index(n)] = n
  <2>1. r.buf[Index(n)] \in Frames
    BY <1>1, <1>4 DEF Occupied
  <2>2. PICK m \in Int : m = r.buf[Index(n)]
    BY <2>1, RingSizes DEF Frames
  <2>3. r.head <= m /\ m < r.head + BufSize /\ Index(m) = Index(n)
    BY <1>3, <1>4, <2>2 DEF Good, InPlace
  <2>4. CASE m <= n
    <3>1. n < m + BufSize
      BY <1>1, <2>3 DEF Roomy
    <3> QED BY <1>1, <2>2, <2>3, <2>4, <3>1, OneSlot
  <2>5. CASE n <= m
    <3>1. m < n + BufSize
      BY <1>1, <2>3 DEF Roomy
    <3> QED BY <1>1, <2>2, <2>3, <2>5, <3>1, OneSlot
  <2> QED BY <1>1, <2>4, <2>5
<1>6. ToSet(r.out) \cup StoredIn(r.buf) = StoredIn(buf) \cup {n}
  <2>1. n \in StoredIn(r.buf)
    BY <1>4, <1>5, Zenon DEF StoredIn
  <2> QED BY <1>3, <2>1 DEF Good
<1>7. /\ head' = r.head /\ buf' = r.buf /\ timer' = timer
      /\ list' = [list EXCEPT !["rx"] = r.out] /\ stored' = stored - Len(r.out)
  BY DEF AlreadyStored
<1>8. stored' = Cardinality(Occupied(r.buf))
  <2>1. PICK k \in Nat, l \in Nat : k = Cardinality(Occupied(r.buf)) /\ l = Len(r.out)
    BY <1>1, OccupiedFinite
  <2>2. l + k = stored /\ stored' = stored - l
    BY <1>3, <1>7, <2>1 DEF Good
  <2> QED BY <2>1, <2>2
<1>9. timer' # Off
  <2>1. PICK k \in Nat, l \in Nat : k = Cardinality(Occupied(r.buf)) /\ l = Len(r.out)
    BY <1>1, OccupiedFinite
  <2>2. k # 0
    BY <1>4, <2>1, OccupiedFinite, FS_EmptySet
  <2>3. l + k = stored
    BY <1>3, <2>1 DEF Good
  <2> QED BY <1>7, <2>2, <2>3 DEF RingInv, RingOK
<1>10. RingOK'
  BY <1>2, <1>3, <1>7, <1>8, <1>9, GoodIsRingOK
<1>11. Ordered(r.out, head, head') /\ head <= head' /\ head' <= top
  BY <1>1, <1>3, <1>7, SortedIsOrdered DEF Good
<1> QED BY <1>1, <1>2, <1>6, <1>7, <1>8, <1>10, <1>11 DEF Moves, RingTypes

LEMMA StoreMoves ==
  ASSUME Fits, RingTypes, NEW n \in Frames, NEW r, Roomy(r, n, window + BufSize),
         Store(n, r, stored - Len(r.out))
  PROVE  \E s : Moves("rx", {n}, s)
<1>1. /\ r.head \in Nat /\ r.buf \in [Slots -> Frames \cup {Empty}] /\ r.out \in Seq(Frames)
      /\ r \in Rings /\ n \in Nat /\ BufSize \in Nat /\ head \in Int
  BY RingFields, RingSizes DEF Roomy, Good, RingTypes, Frames
<1>2. PICK top \in Int : top = window + BufSize
  BY TopType
<1>3. Good(r, head, StoredIn(buf), stored, top)
  BY <1>2 DEF Roomy
<1>4. PICK i \in Slots : i = Index(n)
  BY <1>1, IndexType
<1>5. r.buf[i] = Empty
  BY <1>4 DEF Store
<1>6. PICK q : q = [r EXCEPT !.buf[i] = n]
  OBVIOUS
<1>7. /\ q.head = r.head /\ q.out = r.out /\ q.buf = [r.buf EXCEPT ![i] = n]
      /\ q = [head |-> r.head, buf |-> q.buf, out |-> r.out]
  <2>1. r = [head |-> r.head, buf |-> r.buf, out |-> r.out]
    BY <1>1, RingFields
  <2> QED BY <1>6, <2>1
<1>8. /\ q.buf \in [Slots -> Frames \cup {Empty}] /\ q.buf[i] = n
      /\ \A j \in Slots \ {i} : q.buf[j] = r.buf[j]
  BY <1>1, <1>7
<1>9. n # Empty
  BY <1>1 DEF Empty
<1>10. Occupied(q.buf) = Occupied(r.buf) \cup {i} /\ i \notin Occupied(r.buf)
  BY <1>5, <1>8, <1>9 DEF Occupied
<1>11. q \in Rings
  BY <1>1, <1>7, <1>8 DEF Rings
<1>12. InPlace(q, top)
  <2>1. ASSUME NEW j \in Occupied(q.buf)
        PROVE  q.head <= q.buf[j] /\ q.buf[j] < q.head + BufSize /\ q.buf[j] < top
               /\ Index(q.buf[j]) = j
    <3>1. CASE j = i
      BY <1>2, <1>4, <1>7, <1>8, <3>1 DEF Roomy
    <3>2. CASE j # i
      <4>1. j \in Occupied(r.buf) /\ q.buf[j] = r.buf[j]
        BY <1>8, <1>10, <3>2 DEF Occupied
      <4> QED BY <1>3, <1>7, <4>1 DEF Good, InPlace
    <3> QED BY <3>1, <3>2
  <2> QED BY <2>1 DEF InPlace
<1>13. StoredIn(q.buf) = StoredIn(r.buf) \cup {n}
  <2>1. \A j \in Occupied(r.buf) : j \in Occupied(q.buf) /\ q.buf[j] = r.buf[j]
    BY <1>8, <1>10 DEF Occupied
  <2>2. StoredIn(r.buf) \cup {n} \subseteq StoredIn(q.buf)
    BY <1>8, <1>10, <2>1, Zenon DEF StoredIn
  <2>3. ASSUME NEW j \in Occupied(q.buf) PROVE q.buf[j] \in StoredIn(r.buf) \cup {n}
    <3>1. CASE j = i
      BY <1>8, <3>1
    <3>2. CASE j # i
      <4>1. j \in Occupied(r.buf)
        BY <1>10, <3>2
      <4> QED BY <2>1, <4>1, Zenon DEF StoredIn
    <3> QED BY <3>1, <3>2
  <2> QED BY <2>2, <2>3, Zenon DEF StoredIn
<1>14. PICK count \in Int, l \in Nat : l = Len(r.out) /\ count = stored - l + 1
  BY <1>1 DEF RingTypes
<1>15. Len(q.out) + Cardinality(Occupied(q.buf)) = count + Len(q.out)
  <2>1. PICK k \in Nat : k = Cardinality(Occupied(r.buf))
    BY OccupiedFinite
  <2>2. Cardinality(Occupied(q.buf)) = k + 1
    BY <1>10, <2>1, OccupiedFinite, FS_AddElement
  <2>3. l + k = stored
    BY <1>3, <1>14, <2>1 DEF Good
  <2> QED BY <1>7, <1>14, <2>2, <2>3
<1>16. Sorted(q, head) /\ head <= q.head /\ q.head <= top
  BY <1>3, <1>7 DEF Good, Sorted
<1>17. ToSet(q.out) \cup StoredIn(q.buf) = StoredIn(buf) \cup {n}
  BY <1>3, <1>7, <1>13 DEF Good
<1>18. Good(q, head, StoredIn(buf) \cup {n}, count + Len(q.out), window + BufSize)
  BY <1>2, <1>11, <1>12, <1>15, <1>16, <1>17 DEF Good
<1>19. PICK waited : ReorderRelease("rx", q, count, waited)
  BY <1>4, <1>6, <1>14 DEF Store
<1> QED BY <1>18, <1>19, ReleaseMoves

LEMMA HandOverMoves ==
  ASSUME Fits, RingTypes, NEW n \in Frames, NEW r, Roomy(r, n, window + BufSize),
         HandOver(n, r, stored - Len(r.out))
  PROVE  \E s : Moves("rx", {n}, s)
<1>1. /\ r.head \in Nat /\ r.buf \in [Slots -> Frames \cup {Empty}] /\ r.out \in Seq(Frames)
      /\ r \in Rings /\ n \in Nat /\ head \in Int
      /\ BufSize \in Nat \ {0} /\ SeqModulo \in Nat /\ 4 * BufSize <= SeqModulo
  BY RingFields, RingSizes DEF Roomy, Good, RingTypes, Frames
<1>2. PICK top \in Int : top = window + BufSize
  BY TopType
<1>3. Good(r, head, StoredIn(buf), stored, top)
  BY <1>2 DEF Roomy
<1>4. PICK h \in Nat : h = r.head /\ h <= n /\ n < h + BufSize /\ n < top
  BY <1>1, <1>2 DEF Roomy
<1>5. PICK l \in Nat : l = Len(r.out)
  BY <1>1
<1>6. stored - l = 0
  BY <1>5 DEF HandOver, IsDirect
<1>7. Occupied(r.buf) = {}
  <2>1. PICK k \in Nat : k = Cardinality(Occupied(r.buf))
    BY OccupiedFinite
  <2>2. l + k = stored
    BY <1>3, <1>5, <2>1 DEF Good
  <2>3. k = 0
    BY <1>6, <2>2 DEF RingTypes
  <2> QED BY <2>1, <2>3, OccupiedFinite, FS_EmptySet
<1>8. n = h \/ (n = h + 1 /\ n \in Eapol)
  <2>1. CASE SeqNo(n) = SeqNo(h)
    <3>1. n - h < SeqModulo /\ h - n < SeqModulo
      BY <1>1, <1>4
    <3> QED BY <1>1, <2>1, <3>1, SameNumber
  <2>2. CASE n \in Eapol /\ SeqNo(n) = SeqNo(h) + 1
    <3>1. PICK m \in Int : m = h + 1
      OBVIOUS
    <3>2. SeqNo(n) = SeqNo(m)
      BY <1>1, <2>2, <3>1, ReducedNext
    <3>3. n - m < SeqModulo /\ m - n < SeqModulo
      BY <1>1, <1>4, <3>1
    <3>4. n = m
      BY <1>1, <3>2, <3>3, SameNumber
    <3> QED BY <2>2, <3>1, <3>4
  <2> QED BY <1>4, <2>1, <2>2 DEF HandOver, IsDirect
<1>9. PICK s : s = Append(r.out, n)
  OBVIOUS
<1>10. /\ s \in Seq(Frames) /\ Len(s) = l + 1 /\ s[l + 1] = n
       /\ \A k \in 1 .. l : s[k] = r.out[k]
  BY <1>1, <1>5, <1>9, AppendProperties
<1>11. /\ head' = h + 1 /\ buf' = r.buf /\ timer' = timer
       /\ list' = [list EXCEPT !["rx"] = s] /\ stored' = 0
  BY <1>4, <1>5, <1>6, <1>9 DEF HandOver, DirectHead
<1>12. \A k \in 1 .. l : s[k] \in Int /\ head <= s[k] /\ s[k] < h
  <2>1. ASSUME NEW k \in 1 .. l PROVE s[k] \in Int /\ head <= s[k] /\ s[k] < h
    <3>1. k \in 1 .. Len(r.out) /\ r.out[k] \in Frames /\ s[k] = r.out[k]
      BY <1>1, <1>5, <1>10
    <3>2. head <= r.out[k] /\ r.out[k] < h
      BY <1>3, <1>4, <3>1 DEF Good, Sorted
    <3> QED BY <3>1, <3>2, RingSizes DEF Frames
  <2> QED BY <2>1
<1>13. head <= h
  BY <1>3, <1>4 DEF Good
<1>14. \A k \in 1 .. Len(s) : head <= s[k]
  <2>1. ASSUME NEW k \in 1 .. l + 1 PROVE head <= s[k]
    <3>1. CASE k \in 1 .. l
      BY <1>12, <3>1
    <3>2. CASE k = l + 1
      BY <1>1, <1>4, <1>10, <1>13, <3>2
    <3> QED BY <3>1, <3>2
  <2> QED BY <1>10, <2>1
<1>15. Chained(s)
  <2>1. ASSUME NEW k \in 1 .. l PROVE s[k] < s[k + 1]
    <3>1. CASE k < l
      <4>1. k \in 1 .. Len(r.out) - 1 /\ k + 1 \in 1 .. l
        BY <1>5, <3>1
      <4>2. r.out[k] < r.out[k + 1]
        BY <1>3, <4>1 DEF Good, Sorted
      <4> QED BY <1>10, <4>1, <4>2
    <3>2. CASE k = l
      <4>1. PICK m \in Int : m = s[k] /\ m < h
        BY <1>12
      <4>2. s[k + 1] = n
        BY <1>10, <3>2
      <4> QED BY <1>1, <1>4, <4>1, <4>2
    <3> QED BY <3>1, <3>2
  <2> QED BY <1>10, <2>1 DEF Chained, Follows
<1>16. Follows(n, head')
  BY <1>1, <1>8, <1>11 DEF Follows
<1>17. Ordered(s, head, head')
  BY <1>10, <1>14, <1>15, <1>16 DEF Ordered
<1>18. head' \in Nat /\ head <= head' /\ head' <= window + BufSize
  BY <1>1, <1>2, <1>4, <1>11, <1>13
<1>19. stored' = Cardinality(Occupied(buf')) /\ RingOK'
  <2>1. (Occupied(buf))' = {}
    BY <1>7, <1>11 DEF Occupied, Slots, Empty
  <2>2. stored' = Cardinality(Occupied(buf'))
    BY <1>7, <1>11, FS_EmptySet
  <2> QED BY <1>11, <2>1, <2>2 DEF RingOK
<1>20. ToSet(s) \cup StoredIn(buf') = StoredIn(buf) \cup {n}
  <2>1. ToSet(s) = ToSet(r.out) \cup {n}
    BY <1>1, <1>9, AppendKeeps
  <2>2. StoredIn(buf') = {} /\ StoredIn(r.buf) = {}
    BY <1>7, <1>11 DEF StoredIn
  <2> QED BY <1>3, <2>1, <2>2 DEF Good
<1> QED BY <1>1, <1>10, <1>11, <1>17, <1>18, <1>19, <1>20 DEF Moves, RingTypes

LEMMA PlaceMoves ==
  ASSUME Fits, RingTypes, RingInv, NEW n, Near(n), Place(n)
  PROVE  \E s : Moves("rx", {n}, s)
<1>1. n \in Frames /\ n < window + BufSize
  BY DEF Near
<1>2. ~OutOfDate(n)
  BY DEF Place
<1>3. PICK r : r = MakeRoom(n)
  OBVIOUS
<1>4. Roomy(r, n, window + BufSize)
  BY <1>1, <1>2, <1>3, MakeRoomKeeps DEF Roomy
<1>5. \/ AlreadyStored(n, r, stored - Len(r.out)) \/ HandOver(n, r, stored - Len(r.out))
      \/ Store(n, r, stored - Len(r.out))
  BY <1>3 DEF Place
<1> QED BY <1>1, <1>4, <1>5, AlreadyStoredMoves, HandOverMoves, StoreMoves

LEMMA FireMoves ==
  ASSUME Fits, RingTypes, RingInv, NEW found, Fire(found)
  PROVE  \E s : Moves("timer", {}, s)
<1>1. Good(Ring, head, StoredIn(buf), stored, window + BufSize)
  BY RingGood
<1>2. Len(Ring.out) = 0 /\ stored \in Int
  BY DEF Ring, RingTypes
<1>3. Good(Ring, head, StoredIn(buf) \cup {}, stored + Len(Ring.out), window + BufSize)
  BY <1>1, <1>2
<1>4. PICK waited : ReorderRelease("timer", Ring, stored, waited)
  BY DEF Fire
<1> QED BY <1>2, <1>3, <1>4, ReleaseMoves

-----------------------------------------------------------------------------
(* Lists and what was handed over.                                         *)

LEMMA FollowsOn ==
  ASSUME NEW a \in Int, NEW b \in Int, NEW c \in Int, Follows(a, b), b <= c PROVE Follows(a, c)
BY DEF Follows

LEMMA ConcatFields ==
  ASSUME NEW S, NEW a \in Seq(S), NEW b \in Seq(S)
  PROVE  /\ a \o b \in Seq(S) /\ Len(a \o b) = Len(a) + Len(b)
         /\ \A k \in 1 .. Len(a) : (a \o b)[k] = a[k]
         /\ \A k \in 1 .. Len(b) : (a \o b)[Len(a) + k] = b[k]
OBVIOUS

LEMMA ConcatKeeps ==
  ASSUME NEW S, NEW a \in Seq(S), NEW b \in Seq(S)
  PROVE  ToSet(a \o b) = ToSet(a) \cup ToSet(b)
<1>1. PICK t \in Seq(S), m \in Nat, n \in Nat : t = a \o b /\ m = Len(a) /\ n = Len(b)
  <2>1. Len(a) \in Nat /\ Len(b) \in Nat /\ a \o b \in Seq(S)
    OBVIOUS
  <2> QED BY <2>1, Zenon
<1>2. /\ Len(t) = m + n /\ \A k \in 1 .. m : t[k] = a[k]
      /\ \A k \in 1 .. n : t[m + k] = b[k]
  BY <1>1, ConcatFields
<1>3. /\ ToSet(t) = {t[k] : k \in 1 .. m + n} /\ ToSet(a) = {a[k] : k \in 1 .. m}
      /\ ToSet(b) = {b[k] : k \in 1 .. n}
  <2>1. ToSet(t) = {t[k] : k \in 1 .. m + n}
    <3>1. DOMAIN t = 1 .. m + n
      BY <1>2
    <3> QED BY <3>1, Zenon DEF ToSet
  <2>2. ToSet(a) = {a[k] : k \in 1 .. m}
    <3>1. DOMAIN a = 1 .. m
      BY <1>1
    <3> QED BY <3>1, Zenon DEF ToSet
  <2>3. ToSet(b) = {b[k] : k \in 1 .. n}
    <3>1. DOMAIN b = 1 .. n
      BY <1>1
    <3> QED BY <3>1, Zenon DEF ToSet
  <2> QED BY <2>1, <2>2, <2>3
<1>4. ASSUME NEW k \in 1 .. m + n PROVE t[k] \in ToSet(a) \cup ToSet(b)
  <2>1. CASE k \in 1 .. m
    BY <1>2, <1>3, <2>1, Zenon
  <2>2. CASE k \notin 1 .. m
    <3>1. PICK l \in 1 .. n : k = m + l
      <4>1. k - m \in 1 .. n /\ k = m + (k - m)
        BY <2>2
      <4> QED BY <4>1
    <3> QED BY <1>2, <1>3, <3>1, Zenon
  <2> QED BY <2>1, <2>2
<1>5. ToSet(a) \subseteq ToSet(t)
  <2>1. \A k \in 1 .. m : k \in 1 .. m + n
    OBVIOUS
  <2> QED BY <1>2, <1>3, <2>1, Zenon
<1>6. ToSet(b) \subseteq ToSet(t)
  <2>1. \A k \in 1 .. n : m + k \in 1 .. m + n
    OBVIOUS
  <2> QED BY <1>2, <1>3, <2>1, Zenon
<1>7. ToSet(t) \subseteq ToSet(a) \cup ToSet(b)
  BY <1>3, <1>4, Zenon
<1> QED BY <1>1, <1>5, <1>6, <1>7

LEMMA ChainedConcat ==
  ASSUME NEW S, NEW a \in Seq(S), NEW b \in Seq(S), Chained(a), Chained(b),
         a # <<>> /\ b # <<>> => Follows(a[Len(a)], b[1])
  PROVE  Chained(a \o b)
<1>1. PICK t \in Seq(S), m \in Nat, n \in Nat : t = a \o b /\ m = Len(a) /\ n = Len(b)
  <2>1. Len(a) \in Nat /\ Len(b) \in Nat /\ a \o b \in Seq(S)
    OBVIOUS
  <2> QED BY <2>1, Zenon
<1>2. /\ Len(t) = m + n /\ \A k \in 1 .. m : t[k] = a[k]
      /\ \A k \in 1 .. n : t[m + k] = b[k]
  BY <1>1, ConcatFields
<1>3. ASSUME NEW k \in 1 .. m + n - 1 PROVE Follows(t[k], t[k + 1])
  <2>1. CASE k < m
    <3>1. k \in 1 .. Len(a) - 1 /\ k \in 1 .. m /\ k + 1 \in 1 .. m
      BY <1>1, <2>1
    <3>2. Follows(a[k], a[k + 1])
      BY <3>1 DEF Chained
    <3> QED BY <1>2, <3>1, <3>2
  <2>2. CASE k = m
    <3>1. a # <<>> /\ b # <<>> /\ 1 \in 1 .. n /\ m \in 1 .. m
      BY <1>1, <2>2
    <3>2. t[k] = a[Len(a)] /\ t[k + 1] = b[1]
      BY <1>1, <1>2, <2>2, <3>1
    <3> QED BY <3>1, <3>2
  <2>3. CASE k > m
    <3>1. PICK l \in 1 .. n - 1 : k = m + l
      <4>1. k - m \in 1 .. n - 1 /\ k = m + (k - m)
        BY <2>3
      <4> QED BY <4>1
    <3>2. l \in 1 .. Len(b) - 1 /\ l \in 1 .. n /\ l + 1 \in 1 .. n /\ m + (l + 1) = k + 1
      BY <1>1, <3>1
    <3>3. Follows(b[l], b[l + 1])
      BY <3>2 DEF Chained
    <3>4. t[m + l] = b[l] /\ t[m + (l + 1)] = b[l + 1]
      BY <1>2, <3>2
    <3> QED BY <3>1, <3>2, <3>3, <3>4
  <2> QED BY <2>1, <2>2, <2>3
<1> QED BY <1>1, <1>2, <1>3 DEF Chained

LEMMA SeqOfMembers ==
  ASSUME NEW S, NEW s \in Seq(S), NEW G, ToSet(s) \subseteq G PROVE s \in Seq(G)
<1>1. PICK n \in Nat : n = Len(s)
  OBVIOUS
<1>2. \A k \in 1 .. n : s[k] \in G
  BY <1>1 DEF ToSet
<1> QED BY <1>1, <1>2

LEMMA EmptyConcat ==
  ASSUME NEW S, NEW a \in Seq(S) PROVE a \o <<>> = a /\ <<>> \o a = a
OBVIOUS

-----------------------------------------------------------------------------
(* The state of the session.                                               *)

ReorderInv == ReorderTypes /\ WindowInv /\ RingInv /\ NothingLost /\ OrderedInv

LEMMA ReorderRing == ASSUME ReorderInv PROVE RingTypes /\ RingInv /\ StoredIn(buf) \subseteq got
<1>1. /\ head \in Nat /\ stored \in Nat /\ window \in 0 .. MaxFrames /\ got \subseteq Frames
      /\ buf \in [Slots -> got \cup {Empty}] /\ timer \in Slots \cup {Off}
  BY DEF ReorderInv, ReorderTypes
<1>2. window \in Nat
  BY <1>1, RingSizes
<1>3. buf \in [Slots -> Frames \cup {Empty}]
  BY <1>1
<1>4. \A i \in Occupied(buf) : buf[i] \in got
  BY <1>1 DEF Occupied
<1>5. head <= window + BufSize /\ \A n \in got : n < window + BufSize
  BY DEF ReorderInv, WindowInv
<1>6. StoredIn(buf) \subseteq got
  BY <1>4 DEF StoredIn
<1> QED BY <1>1, <1>2, <1>3, <1>4, <1>5, <1>6 DEF ReorderInv, RingTypes

\* Who takes frames from the ring has no list, and with one processor nobody has.
Free(c) == c \in {"rx", "timer"} /\ list[c] = <<>>
           /\ (Cpus = 1 => list["rx"] = <<>> /\ list["timer"] = <<>>)

\* The rest of the state, when the frames of new are received.
Received(new) ==
  /\ got' = got \cup new /\ new \subseteq Frames /\ \A n \in new : n < window + BufSize
  /\ last' \in 0 .. SeqModulo - 1 /\ duplicates' \in 0 .. MaxDuplicates
  /\ UNCHANGED <<window, late, delivered>>

LEMMA MovesTypes ==
  ASSUME ReorderInv, NEW c, NEW new, NEW s, Free(c), Received(new), Moves(c, new, s)
  PROVE  ReorderTypes' /\ WindowInv' /\ RingInv' /\ s \in Seq(got')
<1>1. /\ head' \in Nat /\ head' <= window + BufSize /\ s \in Seq(Frames)
      /\ buf' \in [Slots -> Frames \cup {Empty}] /\ timer' \in Slots \cup {Off}
      /\ stored' = Cardinality(Occupied(buf')) /\ RingOK' /\ list' = [list EXCEPT ![c] = s]
      /\ ToSet(s) \cup StoredIn(buf') = StoredIn(buf) \cup new
  BY DEF Moves
<1>2. /\ got' = got \cup new /\ new \subseteq Frames /\ \A n \in new : n < window + BufSize
      /\ last' \in 0 .. SeqModulo - 1 /\ duplicates' \in 0 .. MaxDuplicates
      /\ window' = window /\ late' = late /\ delivered' = delivered
  BY DEF Received
<1>3. /\ got \subseteq Frames /\ late \subseteq got /\ delivered \in Seq(got)
      /\ list \in [{"rx", "timer"} -> Seq(got)] /\ window \in 0 .. MaxFrames
  BY DEF ReorderInv, ReorderTypes
<1>4. ToSet(s) \subseteq got' /\ StoredIn(buf') \subseteq got'
  BY <1>1, <1>2, ReorderRing
<1>5. s \in Seq(got')
  BY <1>1, <1>4, SeqOfMembers
<1>6. buf' \in [Slots -> got' \cup {Empty}]
  <2>1. \A i \in Slots : buf'[i] # Empty => buf'[i] \in StoredIn(buf')
    BY DEF StoredIn, Occupied
  <2>2. \A i \in Slots : buf'[i] \in got' \cup {Empty}
    BY <1>4, <2>1
  <2> QED BY <1>1, <2>2
<1>7. delivered' \in Seq(got') /\ \A d \in {"rx", "timer"} : list[d] \in Seq(got')
  <2>1. \A t : t \in Seq(got) => t \in Seq(got')
    BY <1>2
  <2> QED BY <1>2, <1>3, <2>1
<1>8. list' \in [{"rx", "timer"} -> Seq(got')]
  BY <1>1, <1>3, <1>5, <1>7
<1>9. stored' \in Nat
  BY <1>1, OccupiedFinite
<1>10. ReorderTypes'
  <2>1. window' \in 0 .. MaxFrames /\ got' \subseteq Frames /\ late' \subseteq got'
    BY <1>2, <1>3
  <2> QED BY <1>1, <1>2, <1>6, <1>7, <1>8, <1>9, <2>1 DEF ReorderTypes, Slots, Frames, Off, Empty
<1>11. WindowInv'
  <2>1. \A n \in got : n < window + BufSize
    BY DEF ReorderInv, WindowInv
  <2> QED BY <1>1, <1>2, <2>1 DEF WindowInv
<1>12. RingInv'
  <2>1. (Occupied(buf))' = Occupied(buf')
    BY DEF Occupied, Slots, Empty
  <2> QED BY <1>1, <2>1 DEF RingInv, StoredCount
<1> QED BY <1>5, <1>10, <1>11, <1>12

LEMMA MovesNothingLost ==
  ASSUME ReorderInv, NEW c, NEW new, NEW s, Free(c), Received(new), Moves(c, new, s)
  PROVE  NothingLost'
<1>1. /\ list' = [list EXCEPT ![c] = s]
      /\ ToSet(s) \cup StoredIn(buf') = StoredIn(buf) \cup new
      /\ got' = got \cup new /\ late' = late /\ delivered' = delivered
  BY DEF Moves, Received
<1>2. list \in [{"rx", "timer"} -> Seq(got)] /\ c \in {"rx", "timer"} /\ list[c] = <<>>
  BY DEF ReorderInv, ReorderTypes, Free
<1>3. ToSet(list[c]) = {}
  BY <1>2 DEF ToSet
<1>4. ToSet(list'["rx"]) \cup ToSet(list'["timer"]) = ToSet(s) \cup ToSet(list["rx"]) \cup ToSet(list["timer"])
  <2>1. CASE c = "rx"
    <3>1. list'["rx"] = s /\ list'["timer"] = list["timer"]
      BY <1>1, <1>2, <2>1
    <3> QED BY <1>3, <2>1, <3>1
  <2>2. CASE c = "timer"
    <3>1. list'["timer"] = s /\ list'["rx"] = list["rx"]
      BY <1>1, <1>2, <2>2
    <3> QED BY <1>3, <2>2, <3>1
  <2> QED BY <1>2, <2>1, <2>2
<1>5. Held = StoredIn(buf) \cup ToSet(list["rx"]) \cup ToSet(list["timer"])
  BY DEF Held, StoredIn
<1>6. Held' = StoredIn(buf') \cup ToSet(list'["rx"]) \cup ToSet(list'["timer"])
  <2>1. {buf'[i] : i \in (Occupied(buf))'} = StoredIn(buf')
    BY DEF StoredIn, Occupied, Slots, Empty
  <2>2. (ToSet(list["rx"]))' = ToSet(list'["rx"]) /\ (ToSet(list["timer"]))' = ToSet(list'["timer"])
    BY DEF ToSet
  <2> QED BY <2>1, <2>2 DEF Held
<1>7. got \subseteq ToSet(delivered) \cup Held \cup late
  BY DEF ReorderInv, NothingLost
<1>8. got' \subseteq ToSet(delivered') \cup Held' \cup late'
  BY <1>1, <1>4, <1>5, <1>6, <1>7
<1>9. (ToSet(delivered))' = ToSet(delivered')
  BY DEF ToSet
<1> QED BY <1>8, <1>9 DEF NothingLost

LEMMA MovesOrdered ==
  ASSUME ReorderInv, NEW c, NEW new, NEW s, Free(c), Received(new), Moves(c, new, s)
  PROVE  OrderedInv'
<1> SUFFICES ASSUME Cpus = 1
             PROVE  /\ list'["rx"] = <<>> \/ list'["timer"] = <<>>
                    /\ Chained(delivered' \o list'["rx"] \o list'["timer"])
                    /\ (Ended(delivered \o list["rx"] \o list["timer"]))'
  BY DEF OrderedInv, Chained, Follows
<1>1. /\ list' = [list EXCEPT ![c] = s] /\ s \in Seq(Frames) /\ Ordered(s, head, head')
      /\ head' \in Nat /\ head <= head' /\ delivered' = delivered
  BY DEF Moves, Received
<1>2. /\ list \in [{"rx", "timer"} -> Seq(got)] /\ c \in {"rx", "timer"}
      /\ list["rx"] = <<>> /\ list["timer"] = <<>> /\ delivered \in Seq(got)
      /\ got \subseteq Frames /\ head \in Nat
  BY DEF ReorderInv, ReorderTypes, Free
<1>3. delivered \in Seq(Frames)
  BY <1>2
<1>4. delivered \o list["rx"] \o list["timer"] = delivered
  BY <1>2, <1>3, EmptyConcat
<1>5. Chained(delivered) /\ (delivered # <<>> => Follows(delivered[Len(delivered)], head))
  BY <1>4 DEF ReorderInv, OrderedInv, Ended
<1>6. delivered' \o list'["rx"] \o list'["timer"] = delivered \o s
  <2>1. CASE c = "rx"
    <3>1. list'["rx"] = s /\ list'["timer"] = <<>>
      BY <1>1, <1>2, <2>1
    <3>2. delivered \o s \in Seq(Frames)
      BY <1>1, <1>3
    <3> QED BY <1>1, <3>1, <3>2, EmptyConcat
  <2>2. CASE c = "timer"
    <3>1. list'["timer"] = s /\ list'["rx"] = <<>>
      BY <1>1, <1>2, <2>2
    <3>2. delivered \o <<>> = delivered
      BY <1>3, EmptyConcat
    <3> QED BY <1>1, <3>1, <3>2
  <2> QED BY <1>2, <2>1, <2>2
<1>7. list'["rx"] = <<>> \/ list'["timer"] = <<>>
  BY <1>1, <1>2
<1>8. ASSUME delivered # <<>>
      PROVE  /\ delivered[Len(delivered)] \in Int /\ Len(delivered) \in 1 .. Len(delivered)
             /\ \A e \in Int : head <= e => Follows(delivered[Len(delivered)], e)
  <2>1. Len(delivered) \in 1 .. Len(delivered)
    BY <1>3, <1>8
  <2>2. delivered[Len(delivered)] \in Frames
    BY <1>3, <2>1
  <2>3. PICK m \in Int : m = delivered[Len(delivered)]
    BY <2>2, RingSizes DEF Frames
  <2>4. Follows(m, head)
    BY <1>5, <1>8, <2>3
  <2> QED BY <1>2, <2>1, <2>3, <2>4, FollowsOn
<1>9. Chained(delivered \o s)
  <2>1. ASSUME delivered # <<>>, s # <<>> PROVE Follows(delivered[Len(delivered)], s[1])
    <3>1. 1 \in 1 .. Len(s) /\ s[1] \in Frames
      BY <1>1, <2>1
    <3>2. s[1] \in Int /\ head <= s[1]
      BY <1>1, <3>1, RingSizes DEF Frames, Ordered
    <3> QED BY <1>8, <2>1, <3>2
  <2> QED BY <1>1, <1>3, <1>5, <2>1, ChainedConcat DEF Ordered
<1>10. ASSUME delivered \o s # <<>>
       PROVE  Follows((delivered \o s)[Len(delivered \o s)], head')
  <2>1. CASE s = <<>>
    <3>1. delivered \o s = delivered
      BY <1>3, <2>1, EmptyConcat
    <3> QED BY <1>1, <1>8, <1>10, <3>1
  <2>2. CASE s # <<>>
    <3>1. PICK n \in Nat, m \in Nat : n = Len(s) /\ m = Len(delivered) /\ n \in 1 .. Len(s)
      <4>1. Len(s) \in 1 .. Len(s) /\ Len(s) \in Nat
        BY <1>1, <2>2
      <4>2. Len(delivered) \in Nat
        BY <1>3
      <4> QED BY <4>1, <4>2
    <3>2. Len(delivered \o s) = m + n /\ (delivered \o s)[m + n] = s[n]
      BY <1>1, <1>3, <3>1, ConcatFields
    <3>3. Follows(s[n], head')
      BY <1>1, <2>2, <3>1 DEF Ordered
    <3> QED BY <3>2, <3>3
  <2> QED BY <2>1, <2>2
<1>11. (Ended(delivered \o list["rx"] \o list["timer"]))'
  <2>1. (delivered \o list["rx"] \o list["timer"])' = delivered \o s
    BY <1>6
  <2> QED BY <1>10, <2>1 DEF Ended, Follows
<1> QED BY <1>6, <1>7, <1>9, <1>11

\* Steps that leave the ring and the lists alone.
Quiet(new) ==
  /\ got' = got \cup new /\ new \subseteq Frames /\ \A n \in new : n < window + BufSize
  /\ late \subseteq late' /\ late' \subseteq got' /\ new \subseteq got \cup late'
  /\ window <= window' /\ window' \in 0 .. MaxFrames
  /\ last' \in 0 .. SeqModulo - 1 /\ duplicates' \in 0 .. MaxDuplicates
  /\ UNCHANGED <<ringVars, list, delivered>>

LEMMA QuietKeeps == ASSUME ReorderInv, NEW new, Quiet(new) PROVE ReorderInv'
<1>1. /\ got' = got \cup new /\ new \subseteq Frames /\ \A n \in new : n < window + BufSize
      /\ late \subseteq late' /\ late' \subseteq got' /\ new \subseteq got \cup late'
      /\ window <= window' /\ window' \in 0 .. MaxFrames
      /\ last' \in 0 .. SeqModulo - 1 /\ duplicates' \in 0 .. MaxDuplicates
      /\ head' = head /\ buf' = buf /\ stored' = stored /\ timer' = timer
      /\ list' = list /\ delivered' = delivered
  BY DEF Quiet, ringVars
<1>2. /\ head \in Nat /\ buf \in [Slots -> got \cup {Empty}] /\ stored \in Nat
      /\ timer \in Slots \cup {Off} /\ window \in 0 .. MaxFrames /\ got \subseteq Frames
      /\ list \in [{"rx", "timer"} -> Seq(got)] /\ delivered \in Seq(got)
  BY DEF ReorderInv, ReorderTypes
<1>3. ReorderTypes'
  <2>1. \A t : t \in Seq(got) => t \in Seq(got')
    BY <1>1
  <2>2. list' \in [{"rx", "timer"} -> Seq(got')] /\ delivered' \in Seq(got')
    BY <1>1, <1>2, <2>1
  <2>3. buf' \in [Slots -> got' \cup {Empty}] /\ got' \subseteq Frames
    BY <1>1, <1>2
  <2> QED BY <1>1, <1>2, <2>2, <2>3 DEF ReorderTypes, Slots, Frames, Off, Empty
<1>4. WindowInv'
  <2>1. head <= window + BufSize /\ \A n \in got : n < window + BufSize
    BY DEF ReorderInv, WindowInv
  <2>2. PICK w \in Int, w1 \in Int, b \in Int : w = window /\ w1 = window' /\ b = BufSize /\ w <= w1
    BY <1>1, <1>2, RingSizes
  <2>5. w <= w1 /\ w1 + b = window' + BufSize
    BY <2>2
  <2>3. ASSUME NEW n \in got' PROVE n < window' + BufSize
    <3>1. n < w + b /\ n \in Int
      BY <1>1, <1>2, <2>1, <2>2, RingSizes DEF Frames
    <3>2. n < w1 + b
      BY <2>5, <3>1
    <3> QED BY <2>5, <3>2
  <2>4. head' <= window' + BufSize
    <3>1. head \in Int /\ head <= w + b
      BY <1>2, <2>1, <2>2
    <3>2. head <= w1 + b
      BY <2>5, <3>1
    <3> QED BY <1>1, <2>5, <3>2
  <2> QED BY <2>3, <2>4 DEF WindowInv
<1>5. RingInv'
  <2>1. RingInv
    BY DEF ReorderInv
  <2> QED BY <1>1, <2>1 DEF RingInv, StoredCount, RingOK, Occupied, Slots, Empty, Off, Index, SeqNo
<1>6. NothingLost'
  <2>1. got \subseteq ToSet(delivered) \cup Held \cup late
    BY DEF ReorderInv, NothingLost
  <2>2. Held' = Held /\ (ToSet(delivered))' = ToSet(delivered)
    BY <1>1 DEF Held, ToSet, Occupied, Slots, Empty
  <2> QED BY <1>1, <2>1, <2>2 DEF NothingLost
<1>7. OrderedInv'
  <2>1. OrderedInv
    BY DEF ReorderInv
  <2> QED BY <1>1, <2>1 DEF OrderedInv, Chained, Ended, Follows
<1> QED BY <1>3, <1>4, <1>5, <1>6, <1>7 DEF ReorderInv

LEMMA HandleKeeps == ASSUME ReorderInv, NEW c \in {"rx", "timer"}, Handle(c) PROVE ReorderInv'
<1>1. /\ delivered' = delivered \o list[c] /\ list' = [list EXCEPT ![c] = <<>>]
      /\ head' = head /\ buf' = buf /\ stored' = stored /\ timer' = timer /\ last' = last
      /\ window' = window /\ got' = got /\ duplicates' = duplicates /\ late' = late
      /\ list[c] # <<>>
  BY DEF Handle, ringVars, peerVars
<1>2. list \in [{"rx", "timer"} -> Seq(got)] /\ delivered \in Seq(got) /\ list[c] \in Seq(got)
  BY DEF ReorderInv, ReorderTypes
<1>3. list' \in [{"rx", "timer"} -> Seq(got)] /\ delivered' \in Seq(got)
  BY <1>1, <1>2
<1>4. ReorderTypes'
  BY <1>1, <1>3 DEF ReorderInv, ReorderTypes, Slots, Frames, Off, Empty
<1>5. WindowInv'
  BY <1>1 DEF ReorderInv, WindowInv
<1>6. RingInv'
  <2>1. RingInv
    BY DEF ReorderInv
  <2> QED BY <1>1, <2>1 DEF RingInv, StoredCount, RingOK, Occupied, Slots, Empty, Off, Index, SeqNo
<1>7. NothingLost'
  <2>1. got \subseteq ToSet(delivered) \cup Held \cup late
    BY DEF ReorderInv, NothingLost
  <2>2. ToSet(delivered') = ToSet(delivered) \cup ToSet(list[c])
    BY <1>1, <1>2, ConcatKeeps
  <2>3. Held \subseteq Held' \cup ToSet(list[c])
    <3>1. CASE c = "rx"
      <4>1. (list["timer"])' = list["timer"]
        BY <1>1, <1>2, <3>1
      <4> QED BY <1>1, <3>1, <4>1 DEF Held, Occupied, Slots, Empty, ToSet
    <3>2. CASE c = "timer"
      <4>1. (list["rx"])' = list["rx"]
        BY <1>1, <1>2, <3>2
      <4> QED BY <1>1, <3>2, <4>1 DEF Held, Occupied, Slots, Empty, ToSet
    <3> QED BY <3>1, <3>2
  <2>4. (ToSet(delivered))' = ToSet(delivered')
    BY DEF ToSet
  <2> QED BY <1>1, <2>1, <2>2, <2>3, <2>4 DEF NothingLost
<1>8. OrderedInv'
  <2> SUFFICES ASSUME Cpus = 1
               PROVE  /\ list'["rx"] = <<>> \/ list'["timer"] = <<>>
                      /\ Chained(delivered' \o list'["rx"] \o list'["timer"])
                      /\ (Ended(delivered \o list["rx"] \o list["timer"]))'
    BY DEF OrderedInv, Chained, Follows
  <2>1. /\ list["rx"] = <<>> \/ list["timer"] = <<>>
        /\ Chained(delivered \o list["rx"] \o list["timer"])
        /\ Ended(delivered \o list["rx"] \o list["timer"])
    BY DEF ReorderInv, OrderedInv
  <2>2. list'["rx"] = <<>> /\ list'["timer"] = <<>>
    BY <1>1, <1>2, <2>1
  <2>3. delivered \o list["rx"] \o list["timer"] = delivered \o list[c]
    <3>1. CASE c = "rx"
      <4>1. list["timer"] = <<>> /\ delivered \o list["rx"] \in Seq(got)
        BY <1>1, <1>2, <2>1, <3>1
      <4> QED BY <3>1, <4>1, EmptyConcat
    <3>2. CASE c = "timer"
      <4>1. list["rx"] = <<>>
        BY <1>1, <2>1, <3>2
      <4>2. delivered \o <<>> = delivered
        BY <1>2, EmptyConcat
      <4> QED BY <3>2, <4>1, <4>2
    <3> QED BY <3>1, <3>2
  <2>4. (delivered \o list["rx"] \o list["timer"])' = delivered \o list["rx"] \o list["timer"]
    <3>1. (delivered') \o <<>> = delivered'
      BY <1>3, EmptyConcat
    <3> QED BY <1>1, <2>2, <2>3, <3>1
  <2>5. (Ended(delivered \o list["rx"] \o list["timer"]))'
    BY <1>1, <2>1, <2>4 DEF Ended, Follows
  <2> QED BY <2>1, <2>2, <2>4, <2>5
<1> QED BY <1>4, <1>5, <1>6, <1>7, <1>8 DEF ReorderInv

LEMMA ReorderFirst == ASSUME Init PROVE ReorderInv
<1>1. /\ head = Start /\ buf = [i \in Slots |-> Empty] /\ stored = 0 /\ timer = Off
      /\ list = [c \in {"rx", "timer"} |-> <<>>] /\ last = (Start - 1) % SeqModulo
      /\ window = Start /\ got = {} /\ duplicates = 0 /\ late = {} /\ delivered = <<>>
  BY DEF Init
<1>2. Start \in Nat /\ Start \in 0 .. MaxFrames /\ BufSize \in Nat /\ MaxDuplicates \in Nat
  BY RingSizes
<1>3. last \in 0 .. SeqModulo - 1
  <2>1. PICK n \in Int : n = Start - 1
    BY <1>2
  <2> QED BY <1>1, <2>1, RingSizes, RemainderType
<1>4. Occupied(buf) = {}
  BY <1>1 DEF Occupied
<1>5. ReorderTypes
  BY <1>1, <1>2, <1>3 DEF ReorderTypes
<1>6. WindowInv
  BY <1>1, <1>2 DEF WindowInv
<1>7. RingInv
  <2>1. stored = Cardinality(Occupied(buf))
    BY <1>1, <1>4, FS_EmptySet
  <2>2. ~(stored > 0)
    BY <1>1
  <2> QED BY <1>4, <2>1, <2>2 DEF RingInv, StoredCount, RingOK
<1>8. NothingLost
  BY <1>1 DEF NothingLost
<1>9. OrderedInv
  <2>1. delivered \o list["rx"] \o list["timer"] = <<>>
    BY <1>1
  <2> QED BY <1>1, <2>1 DEF OrderedInv, Chained, Ended
<1> QED BY <1>5, <1>6, <1>7, <1>8, <1>9 DEF ReorderInv

LEMMA MovesKeep ==
  ASSUME ReorderInv, NEW c, NEW new, NEW s, Free(c), Received(new), Moves(c, new, s)
  PROVE  ReorderInv'
<1>1. ReorderTypes' /\ WindowInv' /\ RingInv'
  BY MovesTypes
<1>2. NothingLost' /\ OrderedInv'
  BY MovesNothingLost, MovesOrdered
<1> QED BY <1>1, <1>2 DEF ReorderInv

\* What ieee80211_rx does with a frame that came now (new) or before.
LEMMA ArrivesKeeps ==
  ASSUME Fits, ReorderInv, NEW n \in Frames, NEW retry, NEW new,
         window <= n, n < window + BufSize, n \in got \cup new, new \subseteq {n},
         retry => n \in got,
         got' = got \cup new, window' = window, duplicates' \in 0 .. MaxDuplicates,
         Arrives(n, retry)
  PROVE  ReorderInv'
<1>1. /\ RingTypes /\ RingInv /\ StoredIn(buf) \subseteq got
  BY ReorderRing
<1>2. Near(n)
  BY DEF Near, Arrives
<1>3. SeqNo(n) \in 0 .. SeqModulo - 1
  BY RingSizes, RemainderType DEF SeqNo, Frames
<1>4. /\ last \in 0 .. SeqModulo - 1 /\ window \in 0 .. MaxFrames /\ window <= window
      /\ late \subseteq got /\ got' = got \cup {n}
  BY RingSizes DEF ReorderInv, ReorderTypes
<1>5. delivered' = delivered
  BY DEF Arrives
<1>6. CASE RetryOfLast(n, retry) /\ UNCHANGED <<ringVars, list, late, last>>
  <2>1. n \in got /\ got' = got \cup {}
    BY <1>4, <1>6 DEF RetryOfLast
  <2>2. Quiet({})
    BY <1>4, <1>5, <1>6, <2>1 DEF Quiet
  <2> QED BY <2>2, QuietKeeps
<1>7. CASE last' = SeqNo(n) /\ DropOld(n)
  <2>1. late' = late \cup {n} /\ UNCHANGED <<ringVars, list>>
    BY <1>7 DEF DropOld
  <2>2. Quiet({n})
    BY <1>3, <1>4, <1>5, <1>7, <2>1 DEF Quiet
  <2> QED BY <2>2, QuietKeeps
<1>8. CASE last' = SeqNo(n) /\ Place(n)
  <2>1. PICK s : Moves("rx", {n}, s)
    BY <1>1, <1>2, <1>8, PlaceMoves
  <2>2. Free("rx")
    BY DEF Arrives, Free
  <2>3. Received({n})
    BY <1>3, <1>4, <1>5, <1>8 DEF Received, Place
  <2> QED BY <2>1, <2>2, <2>3, MovesKeep
<1> QED BY <1>6, <1>7, <1>8 DEF Arrives

LEMMA ReorderStep == ASSUME Fits, ReorderInv, [Next]_vars PROVE ReorderInv'
<1>1. CASE UNCHANGED vars
  <2>1. Quiet({})
    <3>1. late \subseteq got /\ window <= window /\ window \in 0 .. MaxFrames
          /\ last \in 0 .. SeqModulo - 1 /\ duplicates \in 0 .. MaxDuplicates
      BY RingSizes DEF ReorderInv, ReorderTypes
    <3> QED BY <1>1, <3>1 DEF Quiet, vars, peerVars
  <2> QED BY <2>1, QuietKeeps
<1>2. ASSUME NEW n \in Start .. MaxFrames - 1, Receive(n) PROVE ReorderInv'
  <2>1. n \in Frames /\ window <= n /\ n < window + BufSize
    <3>1. window \in 0 .. MaxFrames
      BY DEF ReorderInv, ReorderTypes
    <3> QED BY <1>2, <3>1, RingSizes DEF Receive, Frames
  <2>2. /\ got' = got \cup {n} /\ Arrives(n, FALSE) /\ window' = window /\ duplicates' = duplicates
    BY <1>2 DEF Receive
  <2>3. duplicates' \in 0 .. MaxDuplicates
    BY <2>2 DEF ReorderInv, ReorderTypes
  <2> QED BY <2>1, <2>2, <2>3, ArrivesKeeps
<1>3. ASSUME NEW n \in Start .. MaxFrames - 1, ReceiveAgain(n) PROVE ReorderInv'
  <2>1. n \in Frames /\ window <= n /\ n < window + BufSize
    <3>1. window \in 0 .. MaxFrames
      BY DEF ReorderInv, ReorderTypes
    <3> QED BY <1>3, <3>1, RingSizes DEF ReceiveAgain, Frames
  <2>2. /\ got' = got /\ n \in got /\ Arrives(n, TRUE) /\ window' = window
        /\ duplicates < MaxDuplicates /\ duplicates' = duplicates + 1
    BY <1>3 DEF ReceiveAgain
  <2>3. duplicates' \in 0 .. MaxDuplicates
    <3>1. duplicates \in 0 .. MaxDuplicates
      BY DEF ReorderInv, ReorderTypes
    <3> QED BY <2>2, <3>1, RingSizes
  <2>4. got' = got \cup {}
    BY <2>2
  <2> QED BY <2>1, <2>2, <2>3, <2>4, ArrivesKeeps
<1>4. CASE Advance
  <2>1. Quiet({})
    <3>1. late \subseteq got /\ window \in 0 .. MaxFrames
          /\ last \in 0 .. SeqModulo - 1 /\ duplicates \in 0 .. MaxDuplicates
      BY DEF ReorderInv, ReorderTypes
    <3>2. window <= window' /\ window' \in 0 .. MaxFrames
      BY <1>4, <3>1, RingSizes DEF Advance
    <3> QED BY <1>4, <3>1, <3>2 DEF Quiet, Advance
  <2> QED BY <2>1, QuietKeeps
<1>5. ASSUME NEW found, Fire(found) PROVE ReorderInv'
  <2>1. PICK s : Moves("timer", {}, s)
    BY <1>5, ReorderRing, FireMoves
  <2>2. Free("timer")
    BY <1>5 DEF Fire, Free
  <2>3. Received({})
    BY <1>5 DEF Fire, peerVars, Received, ReorderInv, ReorderTypes
  <2> QED BY <2>1, <2>2, <2>3, MovesKeep
<1>6. ASSUME NEW c \in {"rx", "timer"}, Handle(c) PROVE ReorderInv'
  BY <1>6, HandleKeeps
<1> QED BY <1>1, <1>2, <1>3, <1>4, <1>5, <1>6 DEF Next, TimerFires, TimerFiresEarly

LEMMA ReorderMeans == ASSUME ReorderInv PROVE TypeOK /\ StoredCount /\ RingOK /\ NothingLost
<1>1. TypeOK
  <2>1. /\ head \in Nat /\ buf \in [Slots -> got \cup {Empty}] /\ got \subseteq 0 .. MaxFrames - 1
        /\ timer \in Slots \cup {Off} /\ last \in 0 .. SeqModulo - 1
        /\ window \in 0 .. MaxFrames /\ duplicates \in 0 .. MaxDuplicates
        /\ late \subseteq got /\ delivered \in Seq(got)
    BY DEF ReorderInv, ReorderTypes, Frames
  <2>2. list \in [{"rx", "timer"} -> Seq(0 .. MaxFrames - 1)]
    <3>1. list \in [{"rx", "timer"} -> Seq(got)]
      BY DEF ReorderInv, ReorderTypes
    <3>2. PICK F : F = 0 .. MaxFrames - 1
      OBVIOUS
    <3>3. got \subseteq F
      BY <2>1, <3>2
    <3>4. \A t : t \in Seq(got) => t \in Seq(F)
      BY <3>3
    <3> QED BY <3>1, <3>2, <3>4
  <2>3. buf \in [Slots -> 0 .. MaxFrames - 1 \cup {Empty}]
    BY <2>1
  <2> QED BY <2>1, <2>2, <2>3 DEF TypeOK
<1> QED BY <1>1 DEF ReorderInv, RingInv

-----------------------------------------------------------------------------
(* What the ring does, as Delivery sees it.                                *)

LEMMA HandleDelivers ==
  ASSUME ReorderInv, Cpus = 1, NEW c \in {"rx", "timer"}, Handle(c) PROVE D!Deliver
<1>1. /\ delivered' = delivered \o list[c] /\ got' = got /\ list[c] # <<>>
  BY DEF Handle, peerVars
<1>2. list \in [{"rx", "timer"} -> Seq(got)] /\ delivered \in Seq(got) /\ list[c] \in Seq(got)
      /\ got \subseteq Int
  BY RingSizes DEF ReorderInv, ReorderTypes, Frames
<1>3. /\ list["rx"] = <<>> \/ list["timer"] = <<>>
      /\ Chained(delivered \o list["rx"] \o list["timer"])
  BY DEF ReorderInv, OrderedInv
<1>4. delivered' = delivered \o list["rx"] \o list["timer"]
  <2>1. CASE c = "rx"
    <3>1. list["timer"] = <<>> /\ delivered \o list["rx"] \in Seq(got)
      BY <1>1, <1>2, <1>3, <2>1
    <3> QED BY <1>1, <2>1, <3>1, EmptyConcat
  <2>2. CASE c = "timer"
    <3>1. list["rx"] = <<>>
      BY <1>1, <1>3, <2>2
    <3>2. delivered \o <<>> = delivered
      BY <1>2, EmptyConcat
    <3> QED BY <1>1, <2>2, <3>1, <3>2
  <2> QED BY <2>1, <2>2
<1>5. PICK t \in Seq(got), m \in Nat, n \in Nat :
        t = delivered' /\ m = Len(delivered) /\ n = Len(list[c])
  <2>1. delivered' \in Seq(got) /\ Len(delivered) \in Nat /\ Len(list[c]) \in Nat
    BY <1>1, <1>2
  <2> QED BY <2>1, Zenon
<1>6. Len(t) = m + n /\ n > 0 /\ \A k \in 1 .. m : t[k] = delivered[k]
  <2>1. n > 0
    BY <1>1, <1>2, <1>5
  <2> QED BY <1>1, <1>2, <1>5, <2>1, ConcatFields
<1>7. SubSeq(t, 1, m) = delivered
  <2>1. SubSeq(t, 1, m) \in Seq(got) /\ Len(SubSeq(t, 1, m)) = m
        /\ \A k \in 1 .. m : SubSeq(t, 1, m)[k] = t[k]
    BY <1>6
  <2> QED BY <1>2, <1>5, <1>6, <2>1, SeqEqual
<1>8. D!Extends(delivered, delivered')
  BY <1>5, <1>6, <1>7 DEF D!Extends
<1>9. ASSUME NEW i \in m + 1 .. m + n
      PROVE  /\ t[i] \in got
             /\ i > 1 => t[i - 1] < t[i] \/ (t[i - 1] = t[i] /\ t[i] \in Eapol)
  <2>1. i \in 1 .. Len(t)
    BY <1>6
  <2>2. t[i] \in got
    BY <2>1
  <2>3. ASSUME i > 1 PROVE t[i - 1] < t[i] \/ (t[i - 1] = t[i] /\ t[i] \in Eapol)
    <3>1. PICK k \in 1 .. Len(t) - 1 : k = i - 1 /\ k + 1 = i
      BY <2>1, <2>3
    <3>2. Follows(t[k], t[k + 1])
      BY <1>3, <1>4, <1>5, <3>1 DEF Chained
    <3> QED BY <3>1, <3>2 DEF Follows
  <2> QED BY <2>2, <2>3
<1> QED BY <1>1, <1>5, <1>6, <1>8, <1>9 DEF D!Deliver

LEMMA RingDelivers ==
  ASSUME ReorderInv, Cpus = 1, [Next]_vars PROVE [D!Next]_<<got, delivered>>
<1>1. ASSUME NEW n \in Start .. MaxFrames - 1, Receive(n) PROVE D!Next
  BY <1>1 DEF Receive, Arrives, D!Next, D!Receive
<1>2. ASSUME NEW n \in Start .. MaxFrames - 1, ReceiveAgain(n) PROVE UNCHANGED <<got, delivered>>
  BY <1>2 DEF ReceiveAgain, Arrives
<1>3. CASE Advance
  BY <1>3 DEF Advance
<1>4. ASSUME NEW found, Fire(found) PROVE UNCHANGED <<got, delivered>>
  BY <1>4 DEF Fire, peerVars
<1>5. ASSUME NEW c \in {"rx", "timer"}, Handle(c) PROVE D!Next
  BY <1>5, HandleDelivers DEF D!Next
<1>6. CASE UNCHANGED vars
  BY <1>6 DEF vars, peerVars
<1> QED BY <1>1, <1>2, <1>3, <1>4, <1>5, <1>6 DEF Next, TimerFires, TimerFiresEarly

-----------------------------------------------------------------------------
(* The sessions of a station.                                              *)

BaFlags ==
  /\ {expired, work, blocked} \subseteq BOOLEAN
  /\ {timeout, sessionTimer, reorderTimer} \subseteq [Sessions -> BOOLEAN]

BaRanges ==
  /\ cpus \in BaCpus /\ tidRx \in Sessions \cup {None} /\ frames \in 0 .. MaxPeerFrames
  /\ life \in [Sessions -> {"unused", "live", "retired", "freed"}]
  /\ grace \in [Sessions -> SUBSET Readers]
  /\ sta \in {"hashed", "unhashed", "freed"} /\ staGrace \subseteq Readers
  /\ staMtx \in Tasks \cup {Nobody} /\ mtx \in Tasks \cup {Nobody}
  /\ pc \in [Tasks -> Steps] /\ resume \in [Tasks -> Steps]
  /\ stopping \in [Tasks -> Sessions \cup {None}]
  /\ rx \in [at : {"out", "session", "reorder"}, has : Sessions \cup {None}]
  /\ handler \in [of : Sessions \cup {None}, has : Sessions \cup {None}]

Deletes == {"session", "reorder", "retire"}
Holding == Deletes \cup {"stop", "install", "unhash"}

\* What task t is about to do, while it stops a session as well.
Installs(t) == pc[t] = "install" \/ (pc[t] \in Deletes \cup {"stop"} /\ resume[t] = "install")
Destroys(t) ==
  \/ pc[t] \in {"cancel", "tear_down", "unhash", "free"}
  \/ pc[t] \in Deletes \cup {"stop"} /\ resume[t] = "unhash"

\* Who holds which mutex.  The task that destroys the station is alone after
\* it has waited for the work.
LockInv ==
  /\ \A t \in Tasks :
       /\ pc[t] \in Holding => mtx = t
       /\ pc[t] = "done" => mtx = t \/ sta = "freed"
       /\ pc[t] \in Deletes \cup {"stop"} => resume[t] \in {"install", "done", "unhash"}
       /\ Installs(t) => staMtx = t /\ ~blocked /\ sta = "hashed"
       /\ Destroys(t) =>
            /\ staMtx = t /\ blocked
            /\ sta = IF pc[t] = "free" THEN "unhashed" ELSE "hashed"
            /\ pc[t] # "cancel" => \A u \in Tasks \ {t} : pc[u] = "idle"
       /\ sta = "freed" => pc[t] \in {"idle", "done"}
  /\ pc["ndo_stop"] \notin {"ba", "install"}
  /\ pc["ndo_stop"] \in Deletes \cup {"stop"} => resume["ndo_stop"] = "unhash"
  /\ pc["ndo_stop"] = "done" => sta = "freed"
  /\ sta # "hashed" => blocked

\* A live session is the one of the station or is being stopped.
LifeInv ==
  /\ tidRx # None => life[tidRx] = "live"
  /\ \A s \in Sessions : life[s] = "live" => tidRx = s \/ \E t \in Tasks : stopping[t] = s
  /\ \A t \in Tasks :
       /\ (stopping[t] # None) <=> (pc[t] \in Deletes)
       /\ stopping[t] # None => life[stopping[t]] = "live"
       /\ pc[t] \in Deletes \cup {"install", "unhash", "free"} => tidRx = None
  /\ sta = "freed" => tidRx = None

\* What reader r fetched lives, or waits for it.
Kept(r, s) == s # None => life[s] = "live" \/ (life[s] = "retired" /\ r \in grace[s])

ReaderInv ==
  /\ rx.at = "out" => rx.has = None
  /\ handler.of = None => handler.has = None
  /\ Kept("sdio_rx", rx.has) /\ Kept("timer", handler.has)
  /\ rx.at # "out" => sta = "hashed" \/ (sta = "unhashed" /\ "sdio_rx" \in staGrace)

\* With one processor no task runs while a reader is inside, so what was
\* fetched stays the session of the station.
TimerInv ==
  /\ \A s \in Sessions : (sessionTimer[s] => timeout[s]) /\ (life[s] = "unused" => ~timeout[s])
  /\ work => \E s \in Sessions : timeout[s]
  /\ cpus = 1 =>
       /\ rx.at # "out" => rx.has = tidRx
       /\ handler.of # None => handler.has = tidRx
       /\ \A s \in Sessions : reorderTimer[s] =>
            \/ s = tidRx
            \/ \E t \in Tasks : stopping[t] = s /\ pc[t] \in {"session", "reorder"}

BaInv == BaFlags /\ BaRanges /\ LockInv /\ LifeInv /\ ReaderInv /\ TimerInv

LEMMA RearmType ==
  ASSUME NEW h, Rearm(h), reorderTimer \in [Sessions -> BOOLEAN]
  PROVE  reorderTimer' \in [Sessions -> BOOLEAN]
BY Zenon DEF Rearm

LEMMA InsideReaders == Inside \subseteq Readers
BY DEF Inside

LEMMA BaFlagsStep == ASSUME BaFlags, BaRanges, [BaNext]_baVars PROVE BaFlags'
<1>1. ASSUME NEW t \in Tasks, StopClear(t) PROVE BaFlags'
  BY <1>1 DEF StopClear, ClearedPointer, Goto, sessionVars, workVars, staVars, taskVars, readerVars, BaFlags, BaRanges
<1>2. ASSUME NEW t \in Tasks, StopSessionTimer(t) PROVE BaFlags'
  BY <1>2 DEF StopSessionTimer, Goto, sessionVars, workVars, staVars, taskVars, readerVars, BaFlags, BaRanges
<1>3. ASSUME NEW t \in Tasks, StopReorderTimer(t) PROVE BaFlags'
  BY <1>3 DEF StopReorderTimer, Goto, sessionVars, workVars, staVars, taskVars, readerVars, BaFlags, BaRanges
<1>4. ASSUME NEW t \in Tasks, StopRetire(t) PROVE BaFlags'
  BY <1>4 DEF StopRetire, Goto, sessionVars, workVars, staVars, taskVars, readerVars, BaFlags, BaRanges
<1>5. ASSUME NEW t \in Tasks, Done(t) PROVE BaFlags'
  BY <1>5 DEF Done, Unlocked, Goto, sessionVars, workVars, staVars, taskVars, readerVars, BaFlags, BaRanges
<1>6. ASSUME NEW t \in Tasks, CancelWork(t) PROVE BaFlags'
  BY <1>6 DEF CancelWork, WorkRuns, Goto, sessionVars, workVars, staVars, taskVars, readerVars, BaFlags, BaRanges
<1>7. ASSUME NEW t \in Tasks, TearDown(t) PROVE BaFlags'
  BY <1>7 DEF TearDown, BeginStop, Goto, sessionVars, workVars, staVars, taskVars, readerVars, BaFlags, BaRanges
<1>8. ASSUME NEW t \in Tasks, Unhash(t) PROVE BaFlags'
  BY <1>8 DEF Unhash, Goto, sessionVars, workVars, staVars, taskVars, readerVars, BaFlags, BaRanges
<1>9. ASSUME NEW t \in Tasks, FreeStation(t) PROVE BaFlags'
  BY <1>9 DEF FreeStation, GraceOver, Goto, sessionVars, workVars, staVars, taskVars, readerVars, BaFlags, BaRanges
<1>10. ASSUME NEW t \in Tasks, Destroy(t) PROVE BaFlags'
  BY <1>10 DEF Destroy, Goto, sessionVars, workVars, staVars, taskVars, readerVars, BaFlags, BaRanges
<1>11. CASE BaWork
  BY <1>11 DEF BaWork, Goto, sessionVars, workVars, staVars, taskVars, readerVars, BaFlags, BaRanges
<1>12. CASE BaWorkTest
  BY <1>12 DEF BaWorkTest, BeginStop, Goto, sessionVars, workVars, staVars, taskVars, readerVars, BaFlags, BaRanges
<1>13. CASE Addba
  BY <1>13 DEF Addba, Action, BeginStop, Goto, sessionVars, workVars, staVars, taskVars, readerVars, BaFlags, BaRanges
<1>14. CASE Delba
  BY <1>14 DEF Delba, Action, BeginStop, Goto, sessionVars, workVars, staVars, taskVars, readerVars, BaFlags, BaRanges
<1>15. CASE RxFetch
  BY <1>15 DEF RxFetch, NoSoftirq, sessionVars, workVars, staVars, taskVars, readerVars, BaFlags, BaRanges
<1>16. CASE RxSessionTimer
  BY <1>16 DEF RxSessionTimer, NoSoftirq, sessionVars, workVars, staVars, taskVars, readerVars, BaFlags, BaRanges
<1>17. CASE RxEnd
  <2>1. reorderTimer' \in [Sessions -> BOOLEAN]
    BY <1>17, RearmType, Zenon DEF RxEnd, BaFlags
  <2> QED BY <1>17, <2>1, Zenon DEF RxEnd, sessionVars, workVars, BaFlags
<1>18. CASE ReorderTimerEnd
  <2>1. reorderTimer' \in [Sessions -> BOOLEAN]
    BY <1>18, RearmType, Zenon DEF ReorderTimerEnd, BaFlags
  <2> QED BY <1>18, <2>1, Zenon DEF ReorderTimerEnd, sessionVars, workVars, BaFlags
<1>19. ASSUME NEW asked \in Timeouts, Install(asked) PROVE BaFlags'
  <2>1. timeout' \in [Sessions -> BOOLEAN] /\ sessionTimer' \in [Sessions -> BOOLEAN]
    <3>1. asked \in BOOLEAN
      BY BaSessionAssumption
    <3>2. CASE UNCHANGED <<tidRx, timeout, sessionTimer>>
      BY <3>2 DEF BaFlags
    <3>3. CASE \E q \in Sessions : timeout' = [timeout EXCEPT ![q] = asked]
                                 /\ sessionTimer' = [sessionTimer EXCEPT ![q] = asked]
      BY <3>1, <3>3 DEF BaFlags
    <3> QED BY <1>19, <3>2, <3>3 DEF Install, Armed
  <2> QED BY <1>19, <2>1, Zenon DEF Install, workVars, staVars, BaFlags
<1>20. ASSUME NEW s \in Sessions, FreeSession(s) PROVE BaFlags'
  BY <1>20 DEF FreeSession, sessionVars, workVars, staVars, taskVars, readerVars, BaFlags, BaRanges
<1>21. ASSUME NEW s \in Sessions, SessionTimer(s) PROVE BaFlags'
  BY <1>21 DEF SessionTimer, NoSoftirq, sessionVars, workVars, staVars, taskVars, readerVars, BaFlags, BaRanges
<1>22. ASSUME NEW s \in Sessions, ReorderTimer(s) PROVE BaFlags'
  BY <1>22 DEF ReorderTimer, NoHandler, sessionVars, workVars, staVars, taskVars, readerVars, BaFlags, BaRanges
<1>23. CASE UNCHANGED baVars
  BY <1>23 DEF baVars, sessionVars, workVars, staVars, taskVars, readerVars, BaFlags, BaRanges
<1> QED
  BY <1>1, <1>2, <1>3, <1>4, <1>5, <1>6, <1>7, <1>8, <1>9, <1>10, <1>11, <1>12, <1>13, <1>14, <1>15, <1>16, <1>17, <1>18, <1>19, <1>20, <1>21, <1>22, <1>23
     DEF BaNext, TaskStep, Stop, WorkStep

LEMMA BaRangesStep == ASSUME BaRanges, [BaNext]_baVars PROVE BaRanges'
<1> USE BaSessionAssumption DEF Tasks, Steps, Readers, Nobody, None, Out, NoHandler, Inside
<1>1. ASSUME NEW t \in Tasks, StopClear(t) PROVE BaRanges'
  BY <1>1 DEF StopClear, ClearedPointer, Goto, sessionVars, workVars, staVars, taskVars, readerVars, BaRanges
<1>2. ASSUME NEW t \in Tasks, StopSessionTimer(t) PROVE BaRanges'
  BY <1>2 DEF StopSessionTimer, Goto, sessionVars, workVars, staVars, taskVars, readerVars, BaRanges
<1>3. ASSUME NEW t \in Tasks, StopReorderTimer(t) PROVE BaRanges'
  BY <1>3 DEF StopReorderTimer, Goto, sessionVars, workVars, staVars, taskVars, readerVars, BaRanges
<1>4. ASSUME NEW t \in Tasks, StopRetire(t) PROVE BaRanges'
  <2> HIDE DEF Inside, Readers
  <2>1. grace' \in [Sessions -> SUBSET Readers]
    BY <1>4, InsideReaders, Zenon DEF StopRetire, BaRanges
  <2> QED BY <1>4, <2>1 DEF StopRetire, Goto, workVars, staVars, readerVars, BaRanges
<1>5. ASSUME NEW t \in Tasks, Done(t) PROVE BaRanges'
  BY <1>5 DEF Done, Unlocked, Goto, sessionVars, workVars, staVars, taskVars, readerVars, BaRanges
<1>6. ASSUME NEW t \in Tasks, CancelWork(t) PROVE BaRanges'
  BY <1>6 DEF CancelWork, WorkRuns, Goto, sessionVars, workVars, staVars, taskVars, readerVars, BaRanges
<1>7. ASSUME NEW t \in Tasks, TearDown(t) PROVE BaRanges'
  BY <1>7 DEF TearDown, BeginStop, Goto, sessionVars, workVars, staVars, taskVars, readerVars, BaRanges
<1>8. ASSUME NEW t \in Tasks, Unhash(t) PROVE BaRanges'
  BY <1>8 DEF Unhash, Goto, sessionVars, workVars, staVars, taskVars, readerVars, BaRanges
<1>9. ASSUME NEW t \in Tasks, FreeStation(t) PROVE BaRanges'
  BY <1>9 DEF FreeStation, GraceOver, Goto, sessionVars, workVars, staVars, taskVars, readerVars, BaRanges
<1>10. ASSUME NEW t \in Tasks, Destroy(t) PROVE BaRanges'
  BY <1>10 DEF Destroy, Goto, sessionVars, workVars, staVars, taskVars, readerVars, BaRanges
<1>11. CASE BaWork
  BY <1>11 DEF BaWork, Goto, sessionVars, workVars, staVars, taskVars, readerVars, BaRanges
<1>12. CASE BaWorkTest
  BY <1>12 DEF BaWorkTest, BeginStop, Goto, sessionVars, workVars, staVars, taskVars, readerVars, BaRanges
<1>13. CASE Addba
  BY <1>13 DEF Addba, Action, BeginStop, Goto, sessionVars, workVars, staVars, taskVars, readerVars, BaRanges
<1>14. CASE Delba
  BY <1>14 DEF Delba, Action, BeginStop, Goto, sessionVars, workVars, staVars, taskVars, readerVars, BaRanges
<1>15. CASE RxFetch
  BY <1>15 DEF RxFetch, NoSoftirq, sessionVars, workVars, staVars, taskVars, readerVars, BaRanges
<1>16. CASE RxSessionTimer
  BY <1>16 DEF RxSessionTimer, NoSoftirq, sessionVars, workVars, staVars, taskVars, readerVars, BaRanges
<1>17. CASE RxEnd
  BY <1>17 DEF RxEnd, NoSoftirq, Rearm, Leave, sessionVars, workVars, staVars, taskVars, readerVars, BaRanges
<1>18. CASE ReorderTimerEnd
  BY <1>18 DEF ReorderTimerEnd, Rearm, Leave, sessionVars, workVars, staVars, taskVars, readerVars, BaRanges
<1>19. ASSUME NEW asked \in Timeouts, Install(asked) PROVE BaRanges'
  BY <1>19 DEF Install, Armed, Goto, sessionVars, workVars, staVars, taskVars, readerVars, BaRanges
<1>20. ASSUME NEW s \in Sessions, FreeSession(s) PROVE BaRanges'
  BY <1>20 DEF FreeSession, sessionVars, workVars, staVars, taskVars, readerVars, BaRanges
<1>21. ASSUME NEW s \in Sessions, SessionTimer(s) PROVE BaRanges'
  BY <1>21 DEF SessionTimer, NoSoftirq, sessionVars, workVars, staVars, taskVars, readerVars, BaRanges
<1>22. ASSUME NEW s \in Sessions, ReorderTimer(s) PROVE BaRanges'
  BY <1>22 DEF ReorderTimer, NoHandler, sessionVars, workVars, staVars, taskVars, readerVars, BaRanges
<1>23. CASE UNCHANGED baVars
  BY <1>23 DEF baVars, sessionVars, workVars, staVars, taskVars, readerVars, BaRanges
<1> QED
  BY <1>1, <1>2, <1>3, <1>4, <1>5, <1>6, <1>7, <1>8, <1>9, <1>10, <1>11, <1>12, <1>13, <1>14, <1>15, <1>16, <1>17, <1>18, <1>19, <1>20, <1>21, <1>22, <1>23
     DEF BaNext, TaskStep, Stop, WorkStep

LEMMA LockStep == ASSUME BaRanges, LockInv, [BaNext]_baVars PROVE LockInv'
<1> USE DEF Tasks, Nobody, None, Holding, Deletes, Installs, Destroys
<1>1. ASSUME NEW t \in Tasks, StopClear(t) PROVE LockInv'
  BY <1>1 DEF StopClear, ClearedPointer, Goto, sessionVars, workVars, staVars, taskVars, readerVars, LockInv, BaRanges
<1>2. ASSUME NEW t \in Tasks, StopSessionTimer(t) PROVE LockInv'
  BY <1>2 DEF StopSessionTimer, Goto, sessionVars, workVars, staVars, taskVars, readerVars, LockInv, BaRanges
<1>3. ASSUME NEW t \in Tasks, StopReorderTimer(t) PROVE LockInv'
  BY <1>3 DEF StopReorderTimer, Goto, sessionVars, workVars, staVars, taskVars, readerVars, LockInv, BaRanges
<1>4. ASSUME NEW t \in Tasks, StopRetire(t) PROVE LockInv'
  BY <1>4 DEF StopRetire, Goto, sessionVars, workVars, staVars, taskVars, readerVars, LockInv, BaRanges
<1>5. ASSUME NEW t \in Tasks, Done(t) PROVE LockInv'
  BY <1>5 DEF Done, Unlocked, Goto, sessionVars, workVars, staVars, taskVars, readerVars, LockInv, BaRanges
<1>6. ASSUME NEW t \in Tasks, CancelWork(t) PROVE LockInv'
  <2>1. CASE t = "atbm_wq"
    <3>1. pc["ndo_stop"] = "idle"
      BY <1>6, <2>1 DEF CancelWork, Goto, LockInv, BaRanges, Steps
    <3> QED BY <1>6, <2>1, <3>1 DEF CancelWork, Goto, sessionVars, staVars, readerVars, LockInv, BaRanges
  <2>2. CASE t = "ndo_stop"
    <3>1. pc["atbm_wq"] = "idle"
      BY <1>6, <2>2 DEF CancelWork, WorkRuns, Goto, LockInv, BaRanges, Steps
    <3> QED BY <1>6, <2>2, <3>1 DEF CancelWork, Goto, sessionVars, staVars, readerVars, LockInv, BaRanges
  <2> QED BY <2>1, <2>2
<1>7. ASSUME NEW t \in Tasks, TearDown(t) PROVE LockInv'
  BY <1>7 DEF TearDown, BeginStop, Goto, sessionVars, workVars, staVars, taskVars, readerVars, LockInv, BaRanges
<1>8. ASSUME NEW t \in Tasks, Unhash(t) PROVE LockInv'
  BY <1>8 DEF Unhash, Goto, sessionVars, workVars, staVars, taskVars, readerVars, LockInv, BaRanges
<1>9. ASSUME NEW t \in Tasks, FreeStation(t) PROVE LockInv'
  BY <1>9 DEF FreeStation, GraceOver, Goto, sessionVars, workVars, staVars, taskVars, readerVars, LockInv, BaRanges
<1>10. ASSUME NEW t \in Tasks, Destroy(t) PROVE LockInv'
  BY <1>10 DEF Destroy, Goto, sessionVars, workVars, staVars, taskVars, readerVars, LockInv, BaRanges
<1>11. CASE BaWork
  BY <1>11 DEF BaWork, Goto, sessionVars, workVars, staVars, taskVars, readerVars, LockInv, BaRanges
<1>12. CASE BaWorkTest
  BY <1>12 DEF BaWorkTest, BeginStop, Goto, sessionVars, workVars, staVars, taskVars, readerVars, LockInv, BaRanges
<1>13. CASE Addba
  BY <1>13 DEF Addba, Action, BeginStop, Goto, sessionVars, workVars, staVars, taskVars, readerVars, LockInv, BaRanges
<1>14. CASE Delba
  BY <1>14 DEF Delba, Action, BeginStop, Goto, sessionVars, workVars, staVars, taskVars, readerVars, LockInv, BaRanges
<1>15. CASE RxFetch
  BY <1>15 DEF RxFetch, NoSoftirq, sessionVars, workVars, staVars, taskVars, readerVars, LockInv, BaRanges
<1>16. CASE RxSessionTimer
  BY <1>16 DEF RxSessionTimer, NoSoftirq, sessionVars, workVars, staVars, taskVars, readerVars, LockInv, BaRanges
<1>17. CASE RxEnd
  BY <1>17 DEF RxEnd, NoSoftirq, Rearm, Leave, sessionVars, workVars, staVars, taskVars, readerVars, LockInv, BaRanges
<1>18. CASE ReorderTimerEnd
  BY <1>18 DEF ReorderTimerEnd, Rearm, Leave, sessionVars, workVars, staVars, taskVars, readerVars, LockInv, BaRanges
<1>19. ASSUME NEW asked \in Timeouts, Install(asked) PROVE LockInv'
  BY <1>19 DEF Install, Armed, Goto, sessionVars, workVars, staVars, taskVars, readerVars, LockInv, BaRanges
<1>20. ASSUME NEW s \in Sessions, FreeSession(s) PROVE LockInv'
  BY <1>20 DEF FreeSession, sessionVars, workVars, staVars, taskVars, readerVars, LockInv, BaRanges
<1>21. ASSUME NEW s \in Sessions, SessionTimer(s) PROVE LockInv'
  BY <1>21 DEF SessionTimer, NoSoftirq, sessionVars, workVars, staVars, taskVars, readerVars, LockInv, BaRanges
<1>22. ASSUME NEW s \in Sessions, ReorderTimer(s) PROVE LockInv'
  BY <1>22 DEF ReorderTimer, NoHandler, sessionVars, workVars, staVars, taskVars, readerVars, LockInv, BaRanges
<1>23. CASE UNCHANGED baVars
  BY <1>23 DEF baVars, sessionVars, workVars, staVars, taskVars, readerVars, LockInv, BaRanges
<1> QED
  BY <1>1, <1>2, <1>3, <1>4, <1>5, <1>6, <1>7, <1>8, <1>9, <1>10, <1>11, <1>12, <1>13, <1>14, <1>15, <1>16, <1>17, <1>18, <1>19, <1>20, <1>21, <1>22, <1>23
     DEF BaNext, TaskStep, Stop, WorkStep

LEMMA LifeStep == ASSUME BaRanges, LockInv, LifeInv, [BaNext]_baVars PROVE LifeInv'
<1> USE DEF Tasks, None, Holding, Deletes
<1>1. ASSUME NEW t \in Tasks, StopClear(t) PROVE LifeInv'
  BY <1>1 DEF StopClear, ClearedPointer, Goto, sessionVars, workVars, staVars, taskVars, readerVars, LifeInv, BaRanges, LockInv
<1>2. ASSUME NEW t \in Tasks, StopSessionTimer(t) PROVE LifeInv'
  BY <1>2 DEF StopSessionTimer, Goto, sessionVars, workVars, staVars, taskVars, readerVars, LifeInv, BaRanges, LockInv
<1>3. ASSUME NEW t \in Tasks, StopReorderTimer(t) PROVE LifeInv'
  BY <1>3 DEF StopReorderTimer, Goto, sessionVars, workVars, staVars, taskVars, readerVars, LifeInv, BaRanges, LockInv
<1>4. ASSUME NEW t \in Tasks, StopRetire(t) PROVE LifeInv'
  BY <1>4 DEF StopRetire, Goto, sessionVars, workVars, staVars, taskVars, readerVars, LifeInv, BaRanges, LockInv
<1>5. ASSUME NEW t \in Tasks, Done(t) PROVE LifeInv'
  BY <1>5 DEF Done, Unlocked, Goto, sessionVars, workVars, staVars, taskVars, readerVars, LifeInv, BaRanges, LockInv
<1>6. ASSUME NEW t \in Tasks, CancelWork(t) PROVE LifeInv'
  BY <1>6 DEF CancelWork, WorkRuns, Goto, sessionVars, workVars, staVars, taskVars, readerVars, LifeInv, BaRanges, LockInv
<1>7. ASSUME NEW t \in Tasks, TearDown(t) PROVE LifeInv'
  BY <1>7 DEF TearDown, BeginStop, Goto, sessionVars, workVars, staVars, taskVars, readerVars, LifeInv, BaRanges, LockInv
<1>8. ASSUME NEW t \in Tasks, Unhash(t) PROVE LifeInv'
  BY <1>8 DEF Unhash, Goto, sessionVars, workVars, staVars, taskVars, readerVars, LifeInv, BaRanges, LockInv
<1>9. ASSUME NEW t \in Tasks, FreeStation(t) PROVE LifeInv'
  BY <1>9 DEF FreeStation, GraceOver, Goto, sessionVars, workVars, staVars, taskVars, readerVars, LifeInv, BaRanges, LockInv
<1>10. ASSUME NEW t \in Tasks, Destroy(t) PROVE LifeInv'
  BY <1>10 DEF Destroy, Goto, sessionVars, workVars, staVars, taskVars, readerVars, LifeInv, BaRanges, LockInv
<1>11. CASE BaWork
  BY <1>11 DEF BaWork, Goto, sessionVars, workVars, staVars, taskVars, readerVars, LifeInv, BaRanges, LockInv
<1>12. CASE BaWorkTest
  BY <1>12 DEF BaWorkTest, BeginStop, Goto, sessionVars, workVars, staVars, taskVars, readerVars, LifeInv, BaRanges, LockInv
<1>13. CASE Addba
  BY <1>13 DEF Addba, Action, BeginStop, Goto, sessionVars, workVars, staVars, taskVars, readerVars, LifeInv, BaRanges, LockInv
<1>14. CASE Delba
  BY <1>14 DEF Delba, Action, BeginStop, Goto, sessionVars, workVars, staVars, taskVars, readerVars, LifeInv, BaRanges, LockInv
<1>15. CASE RxFetch
  BY <1>15 DEF RxFetch, NoSoftirq, sessionVars, workVars, staVars, taskVars, readerVars, LifeInv, BaRanges, LockInv
<1>16. CASE RxSessionTimer
  BY <1>16 DEF RxSessionTimer, NoSoftirq, sessionVars, workVars, staVars, taskVars, readerVars, LifeInv, BaRanges, LockInv
<1>17. CASE RxEnd
  BY <1>17 DEF RxEnd, NoSoftirq, Rearm, Leave, sessionVars, workVars, staVars, taskVars, readerVars, LifeInv, BaRanges, LockInv
<1>18. CASE ReorderTimerEnd
  BY <1>18 DEF ReorderTimerEnd, Rearm, Leave, sessionVars, workVars, staVars, taskVars, readerVars, LifeInv, BaRanges, LockInv
<1>19. ASSUME NEW asked \in Timeouts, Install(asked) PROVE LifeInv'
  <2>1. /\ pc["atbm_wq"] = "install" /\ pc' = [pc EXCEPT !["atbm_wq"] = "done"]
        /\ UNCHANGED <<stopping, sta>>
    BY <1>19 DEF Install, Goto, staVars
  <2>2. sta = "hashed" /\ tidRx = None /\ stopping["atbm_wq"] = None
    BY <2>1 DEF LockInv, Installs, LifeInv
  <2>3. pc["ndo_stop"] \notin Deletes \cup {"install", "unhash", "free"}
    BY <2>1 DEF LockInv, Installs, Destroys
  <2>4. stopping["ndo_stop"] = None
    BY <2>3 DEF LifeInv
  <2>5. PICK s \in Sessions :
          /\ life[s] = "unused"
          /\ \/ life' = [life EXCEPT ![s] = "live"] /\ tidRx' = s
             \/ life' = [life EXCEPT ![s] = "freed"] /\ UNCHANGED tidRx
    BY <1>19 DEF Install
  <2>6. \A u \in Tasks : stopping'[u] = None /\ pc'[u] \notin Deletes \cup {"install", "unhash", "free"}
    BY <2>1, <2>2, <2>3, <2>4 DEF BaRanges
  <2>7. \A q \in Sessions : life[q] # "live"
    BY <2>2, <2>4 DEF LifeInv, Sessions
  <2>8. CASE life' = [life EXCEPT ![s] = "live"] /\ tidRx' = s
    BY <2>1, <2>2, <2>5, <2>6, <2>7, <2>8 DEF LifeInv, BaRanges
  <2>9. CASE life' = [life EXCEPT ![s] = "freed"] /\ UNCHANGED tidRx
    BY <2>1, <2>2, <2>5, <2>6, <2>7, <2>9 DEF LifeInv, BaRanges
  <2> QED BY <2>5, <2>8, <2>9
<1>20. ASSUME NEW s \in Sessions, FreeSession(s) PROVE LifeInv'
  BY <1>20 DEF FreeSession, sessionVars, workVars, staVars, taskVars, readerVars, LifeInv, BaRanges, LockInv
<1>21. ASSUME NEW s \in Sessions, SessionTimer(s) PROVE LifeInv'
  BY <1>21 DEF SessionTimer, NoSoftirq, sessionVars, workVars, staVars, taskVars, readerVars, LifeInv, BaRanges, LockInv
<1>22. ASSUME NEW s \in Sessions, ReorderTimer(s) PROVE LifeInv'
  BY <1>22 DEF ReorderTimer, NoHandler, sessionVars, workVars, staVars, taskVars, readerVars, LifeInv, BaRanges, LockInv
<1>23. CASE UNCHANGED baVars
  BY <1>23 DEF baVars, sessionVars, workVars, staVars, taskVars, readerVars, LifeInv, BaRanges, LockInv
<1> QED
  BY <1>1, <1>2, <1>3, <1>4, <1>5, <1>6, <1>7, <1>8, <1>9, <1>10, <1>11, <1>12, <1>13, <1>14, <1>15, <1>16, <1>17, <1>18, <1>19, <1>20, <1>21, <1>22, <1>23
     DEF BaNext, TaskStep, Stop, WorkStep

LEMMA ReaderStep == ASSUME BaRanges, LockInv, LifeInv, ReaderInv, [BaNext]_baVars PROVE ReaderInv'
<1> USE DEF Tasks, None, Out, NoHandler, Readers, Kept
<1>1. ASSUME NEW t \in Tasks, StopClear(t) PROVE ReaderInv'
  BY <1>1 DEF StopClear, ClearedPointer, Goto, sessionVars, workVars, staVars, taskVars, readerVars, ReaderInv, BaRanges, Inside
<1>2. ASSUME NEW t \in Tasks, StopSessionTimer(t) PROVE ReaderInv'
  BY <1>2 DEF StopSessionTimer, Goto, sessionVars, workVars, staVars, taskVars, readerVars, ReaderInv, BaRanges, Inside
<1>3. ASSUME NEW t \in Tasks, StopReorderTimer(t) PROVE ReaderInv'
  BY <1>3 DEF StopReorderTimer, Goto, sessionVars, workVars, staVars, taskVars, readerVars, ReaderInv, BaRanges, Inside
<1>4. ASSUME NEW t \in Tasks, StopRetire(t) PROVE ReaderInv'
  BY <1>4 DEF StopRetire, Goto, sessionVars, workVars, staVars, taskVars, readerVars, ReaderInv, BaRanges, Inside
<1>5. ASSUME NEW t \in Tasks, Done(t) PROVE ReaderInv'
  BY <1>5 DEF Done, Unlocked, Goto, sessionVars, workVars, staVars, taskVars, readerVars, ReaderInv, BaRanges, Inside
<1>6. ASSUME NEW t \in Tasks, CancelWork(t) PROVE ReaderInv'
  BY <1>6 DEF CancelWork, WorkRuns, Goto, sessionVars, workVars, staVars, taskVars, readerVars, ReaderInv, BaRanges, Inside
<1>7. ASSUME NEW t \in Tasks, TearDown(t) PROVE ReaderInv'
  BY <1>7 DEF TearDown, BeginStop, Goto, sessionVars, workVars, staVars, taskVars, readerVars, ReaderInv, BaRanges, Inside
<1>8. ASSUME NEW t \in Tasks, Unhash(t) PROVE ReaderInv'
  BY <1>8 DEF Unhash, Goto, sessionVars, workVars, staVars, taskVars, readerVars, ReaderInv, BaRanges, Inside
<1>9. ASSUME NEW t \in Tasks, FreeStation(t) PROVE ReaderInv'
  <2>1. sta = "unhashed" /\ sta' = "freed" /\ staGrace = {}
    BY <1>9 DEF FreeStation, GraceOver, Goto, LockInv, Destroys
  <2>2. rx.at = "out"
    BY <2>1 DEF ReaderInv
  <2> QED BY <1>9, <2>1, <2>2 DEF FreeStation, sessionVars, readerVars, ReaderInv
<1>10. ASSUME NEW t \in Tasks, Destroy(t) PROVE ReaderInv'
  BY <1>10 DEF Destroy, Goto, sessionVars, workVars, staVars, taskVars, readerVars, ReaderInv, BaRanges, Inside
<1>11. CASE BaWork
  BY <1>11 DEF BaWork, Goto, sessionVars, workVars, staVars, taskVars, readerVars, ReaderInv, BaRanges, Inside
<1>12. CASE BaWorkTest
  BY <1>12 DEF BaWorkTest, BeginStop, Goto, sessionVars, workVars, staVars, taskVars, readerVars, ReaderInv, BaRanges, Inside
<1>13. CASE Addba
  BY <1>13 DEF Addba, Action, BeginStop, Goto, sessionVars, workVars, staVars, taskVars, readerVars, ReaderInv, BaRanges, Inside
<1>14. CASE Delba
  BY <1>14 DEF Delba, Action, BeginStop, Goto, sessionVars, workVars, staVars, taskVars, readerVars, ReaderInv, BaRanges, Inside
<1>15. CASE RxFetch
  <2>1. Kept("sdio_rx", tidRx)
    BY DEF LifeInv
  <2> QED BY <1>15, <2>1 DEF RxFetch, sessionVars, workVars, staVars, taskVars, readerVars, ReaderInv
<1>16. CASE RxSessionTimer
  BY <1>16 DEF RxSessionTimer, NoSoftirq, sessionVars, workVars, staVars, taskVars, readerVars, ReaderInv, BaRanges, Inside
<1>17. CASE RxEnd
  BY <1>17 DEF RxEnd, NoSoftirq, Rearm, Leave, sessionVars, workVars, staVars, taskVars, readerVars, ReaderInv, BaRanges, Inside
<1>18. CASE ReorderTimerEnd
  BY <1>18 DEF ReorderTimerEnd, Rearm, Leave, sessionVars, workVars, staVars, taskVars, readerVars, ReaderInv, BaRanges, Inside
<1>19. ASSUME NEW asked \in Timeouts, Install(asked) PROVE ReaderInv'
  BY <1>19 DEF Install, Armed, Goto, sessionVars, workVars, staVars, taskVars, readerVars, ReaderInv, BaRanges, Inside
<1>20. ASSUME NEW s \in Sessions, FreeSession(s) PROVE ReaderInv'
  BY <1>20 DEF FreeSession, sessionVars, workVars, staVars, taskVars, readerVars, ReaderInv, BaRanges, Inside
<1>21. ASSUME NEW s \in Sessions, SessionTimer(s) PROVE ReaderInv'
  BY <1>21 DEF SessionTimer, NoSoftirq, sessionVars, workVars, staVars, taskVars, readerVars, ReaderInv, BaRanges, Inside
<1>22. ASSUME NEW s \in Sessions, ReorderTimer(s) PROVE ReaderInv'
  <2>1. Kept("timer", tidRx) /\ s # None
    BY DEF LifeInv, Sessions
  <2> QED BY <1>22, <2>1 DEF ReorderTimer, staVars, ReaderInv
<1>23. CASE UNCHANGED baVars
  BY <1>23 DEF baVars, sessionVars, workVars, staVars, taskVars, readerVars, ReaderInv, BaRanges, Inside
<1> QED
  BY <1>1, <1>2, <1>3, <1>4, <1>5, <1>6, <1>7, <1>8, <1>9, <1>10, <1>11, <1>12, <1>13, <1>14, <1>15, <1>16, <1>17, <1>18, <1>19, <1>20, <1>21, <1>22, <1>23
     DEF BaNext, TaskStep, Stop, WorkStep

LEMMA TimerStep == ASSUME BaFlags, BaRanges, LockInv, LifeInv, ReaderInv, TimerInv, [BaNext]_baVars PROVE TimerInv'
<1> USE DEF Tasks, None, Out, NoHandler, Readers
<1>1. ASSUME NEW t \in Tasks, StopClear(t) PROVE TimerInv'
  BY <1>1 DEF StopClear, ClearedPointer, Goto, sessionVars, workVars, staVars, taskVars, readerVars, TimerInv, BaRanges, TaskRuns, Inside
<1>2. ASSUME NEW t \in Tasks, StopSessionTimer(t) PROVE TimerInv'
  BY <1>2 DEF StopSessionTimer, Goto, sessionVars, workVars, staVars, taskVars, readerVars, TimerInv, BaRanges, TaskRuns, Inside
<1>3. ASSUME NEW t \in Tasks, StopReorderTimer(t) PROVE TimerInv'
  <2>1. /\ cpus' = cpus /\ work' = work /\ sessionTimer' = sessionTimer /\ timeout' = timeout
        /\ tidRx' = tidRx /\ stopping' = stopping /\ life' = life /\ rx' = rx /\ handler' = handler
    BY <1>3 DEF StopReorderTimer, workVars, staVars, readerVars
  <2>2. /\ pc' = [pc EXCEPT ![t] = "retire"]
        /\ reorderTimer' = [reorderTimer EXCEPT ![stopping[t]] = FALSE]
    BY <1>3 DEF StopReorderTimer, Goto
  <2>3. ASSUME cpus = 1, NEW q \in Sessions, reorderTimer'[q], q # tidRx
        PROVE  \E u \in Tasks : stopping'[u] = q /\ pc'[u] \in {"session", "reorder"}
    <3>1. reorderTimer[q] /\ q # stopping[t]
      BY <2>2, <2>3, Zenon DEF BaFlags
    <3>2. PICK u \in Tasks : stopping[u] = q /\ pc[u] \in {"session", "reorder"}
      BY <2>3, <3>1 DEF TimerInv
    <3>3. u # t
      BY <3>1, <3>2
    <3>4. stopping'[u] = q /\ pc'[u] \in {"session", "reorder"}
      BY <2>1, <2>2, <3>2, <3>3 DEF BaRanges
    <3> QED BY <3>4
  <2> QED BY <2>1, <2>3 DEF TimerInv
<1>4. ASSUME NEW t \in Tasks, StopRetire(t) PROVE TimerInv'
  BY <1>4 DEF StopRetire, Goto, sessionVars, workVars, staVars, taskVars, readerVars, TimerInv, BaRanges, TaskRuns, Inside
<1>5. ASSUME NEW t \in Tasks, Done(t) PROVE TimerInv'
  BY <1>5 DEF Done, Unlocked, Goto, sessionVars, workVars, staVars, taskVars, readerVars, TimerInv, BaRanges, TaskRuns, Inside
<1>6. ASSUME NEW t \in Tasks, CancelWork(t) PROVE TimerInv'
  BY <1>6 DEF CancelWork, WorkRuns, Goto, sessionVars, workVars, staVars, taskVars, readerVars, TimerInv, BaRanges, TaskRuns, Inside
<1>7. ASSUME NEW t \in Tasks, TearDown(t) PROVE TimerInv'
  BY <1>7 DEF TearDown, BeginStop, Goto, sessionVars, workVars, staVars, taskVars, readerVars, TimerInv, BaRanges, TaskRuns, Inside
<1>8. ASSUME NEW t \in Tasks, Unhash(t) PROVE TimerInv'
  BY <1>8 DEF Unhash, Goto, sessionVars, workVars, staVars, taskVars, readerVars, TimerInv, BaRanges, TaskRuns, Inside
<1>9. ASSUME NEW t \in Tasks, FreeStation(t) PROVE TimerInv'
  BY <1>9 DEF FreeStation, GraceOver, Goto, sessionVars, workVars, staVars, taskVars, readerVars, TimerInv, BaRanges, TaskRuns, Inside
<1>10. ASSUME NEW t \in Tasks, Destroy(t) PROVE TimerInv'
  BY <1>10 DEF Destroy, Goto, sessionVars, workVars, staVars, taskVars, readerVars, TimerInv, BaRanges, TaskRuns, Inside
<1>11. CASE BaWork
  BY <1>11 DEF BaWork, Goto, sessionVars, workVars, staVars, taskVars, readerVars, TimerInv, BaRanges, TaskRuns, Inside
<1>12. CASE BaWorkTest
  BY <1>12 DEF BaWorkTest, BeginStop, Goto, sessionVars, workVars, staVars, taskVars, readerVars, TimerInv, BaRanges, TaskRuns, Inside
<1>13. CASE Addba
  BY <1>13 DEF Addba, Action, BeginStop, Goto, sessionVars, workVars, staVars, taskVars, readerVars, TimerInv, BaRanges, TaskRuns, Inside
<1>14. CASE Delba
  BY <1>14 DEF Delba, Action, BeginStop, Goto, sessionVars, workVars, staVars, taskVars, readerVars, TimerInv, BaRanges, TaskRuns, Inside
<1>15. CASE RxFetch
  BY <1>15 DEF RxFetch, NoSoftirq, sessionVars, workVars, staVars, taskVars, readerVars, TimerInv, BaRanges, TaskRuns, Inside
<1>16. CASE RxSessionTimer
  BY <1>16 DEF RxSessionTimer, NoSoftirq, sessionVars, workVars, staVars, taskVars, readerVars, TimerInv, BaRanges, TaskRuns, Inside
<1>17. CASE RxEnd
  <2>1. /\ cpus' = cpus /\ work' = work /\ sessionTimer' = sessionTimer /\ timeout' = timeout
        /\ tidRx' = tidRx /\ stopping' = stopping /\ life' = life /\ pc' = pc
    BY <1>17 DEF RxEnd, workVars, taskVars
  <2>2. rx.at # "out"
    BY <1>17 DEF RxEnd, ReaderInv, BaRanges
  <2>3. cpus = 1 => rx.has = tidRx
    BY <2>2 DEF TimerInv
  <2>4. \A q \in Sessions : reorderTimer'[q] => reorderTimer[q] \/ q = rx.has
    BY <1>17, Zenon DEF RxEnd, Rearm, BaFlags
  <2>5. (rx'.at # "out" => rx' = rx) /\ (handler'.of # None => handler' = handler)
    BY <1>17 DEF RxEnd
  <2>6. ASSUME cpus = 1, NEW q \in Sessions, reorderTimer'[q], q # tidRx
        PROVE  \E u \in Tasks : stopping[u] = q /\ pc[u] \in {"session", "reorder"}
    BY <2>3, <2>4, <2>6 DEF TimerInv
  <2> QED BY <2>1, <2>5, <2>6 DEF TimerInv
<1>18. CASE ReorderTimerEnd
  <2>1. /\ cpus' = cpus /\ work' = work /\ sessionTimer' = sessionTimer /\ timeout' = timeout
        /\ tidRx' = tidRx /\ stopping' = stopping /\ life' = life /\ pc' = pc
    BY <1>18 DEF ReorderTimerEnd, workVars, taskVars
  <2>2. handler.of # None
    BY <1>18 DEF ReorderTimerEnd, ReaderInv, BaRanges
  <2>3. cpus = 1 => handler.has = tidRx
    BY <2>2 DEF TimerInv
  <2>4. \A q \in Sessions : reorderTimer'[q] => reorderTimer[q] \/ q = handler.has
    BY <1>18, Zenon DEF ReorderTimerEnd, Rearm, BaFlags
  <2>5. (rx'.at # "out" => rx' = rx) /\ (handler'.of # None => handler' = handler)
    BY <1>18 DEF ReorderTimerEnd
  <2>6. ASSUME cpus = 1, NEW q \in Sessions, reorderTimer'[q], q # tidRx
        PROVE  \E u \in Tasks : stopping[u] = q /\ pc[u] \in {"session", "reorder"}
    BY <2>3, <2>4, <2>6 DEF TimerInv
  <2> QED BY <2>1, <2>5, <2>6 DEF TimerInv
<1>19. ASSUME NEW asked \in Timeouts, Install(asked) PROVE TimerInv'
  <2>1. /\ pc["atbm_wq"] = "install" /\ pc' = [pc EXCEPT !["atbm_wq"] = "done"] /\ TaskRuns
        /\ UNCHANGED <<stopping, reorderTimer, work, rx, handler, cpus>>
    BY <1>19 DEF Install, Goto, workVars, staVars, readerVars
  <2>2. tidRx = None /\ life[tidRx] = life[None]
    BY <2>1 DEF LifeInv
  <2>3. cpus = 1 => rx.at = "out" /\ handler.of = None
    BY <2>1 DEF TaskRuns, Inside
  <2>4. cpus = 1 => \A q \in Sessions : reorderTimer[q] =>
           \E u \in Tasks : stopping'[u] = q /\ pc'[u] \in {"session", "reorder"}
    BY <2>1, <2>2 DEF TimerInv, BaRanges, Sessions
  <2>5. /\ \A q \in Sessions : (sessionTimer'[q] => timeout'[q]) /\ (life'[q] = "unused" => ~timeout'[q])
        /\ \A q \in Sessions : timeout[q] => timeout'[q]
    <3>1. PICK q \in Sessions :
            /\ life[q] = "unused"
            /\ \/ /\ life' = [life EXCEPT ![q] = "live"]
                  /\ timeout' = [timeout EXCEPT ![q] = asked]
                  /\ sessionTimer' = [sessionTimer EXCEPT ![q] = asked]
               \/ life' = [life EXCEPT ![q] = "freed"] /\ UNCHANGED <<timeout, sessionTimer>>
      BY <1>19 DEF Install, Armed
    <3>2. CASE life' = [life EXCEPT ![q] = "freed"] /\ UNCHANGED <<timeout, sessionTimer>>
      BY <3>2 DEF TimerInv, BaRanges
    <3>3. CASE /\ life' = [life EXCEPT ![q] = "live"]
               /\ timeout' = [timeout EXCEPT ![q] = asked]
               /\ sessionTimer' = [sessionTimer EXCEPT ![q] = asked]
      <4>1. ~timeout[q] /\ life'[q] = "live" /\ timeout'[q] = asked /\ sessionTimer'[q] = asked
        BY <3>1, <3>3 DEF TimerInv, BaRanges, BaFlags
      <4>2. ASSUME NEW p \in Sessions, p # q
            PROVE  life'[p] = life[p] /\ timeout'[p] = timeout[p] /\ sessionTimer'[p] = sessionTimer[p]
        BY <3>3, <4>2 DEF BaRanges, BaFlags
      <4> QED BY <4>1, <4>2 DEF TimerInv
    <3> QED BY <3>1, <3>2, <3>3
  <2> QED BY <2>1, <2>3, <2>4, <2>5 DEF TimerInv
<1>20. ASSUME NEW s \in Sessions, FreeSession(s) PROVE TimerInv'
  BY <1>20 DEF FreeSession, sessionVars, workVars, staVars, taskVars, readerVars, TimerInv, BaRanges, TaskRuns, Inside
<1>21. ASSUME NEW s \in Sessions, SessionTimer(s) PROVE TimerInv'
  BY <1>21 DEF SessionTimer, NoSoftirq, sessionVars, workVars, staVars, taskVars, readerVars, TimerInv, BaRanges, TaskRuns, Inside
<1>22. ASSUME NEW s \in Sessions, ReorderTimer(s) PROVE TimerInv'
  BY <1>22 DEF ReorderTimer, NoHandler, sessionVars, workVars, staVars, taskVars, readerVars, TimerInv, BaRanges, TaskRuns, Inside
<1>23. CASE UNCHANGED baVars
  BY <1>23 DEF baVars, sessionVars, workVars, staVars, taskVars, readerVars, TimerInv, BaRanges, TaskRuns, Inside
<1> QED
  BY <1>1, <1>2, <1>3, <1>4, <1>5, <1>6, <1>7, <1>8, <1>9, <1>10, <1>11, <1>12, <1>13, <1>14, <1>15, <1>16, <1>17, <1>18, <1>19, <1>20, <1>21, <1>22, <1>23
     DEF BaNext, TaskStep, Stop, WorkStep

LEMMA BaFirst == BaInit => BaInv
<1> SUFFICES ASSUME BaInit PROVE BaInv
  OBVIOUS
<1>1. BaFlags
  BY Zenon DEF BaInit, BaFlags
<1>2. BaRanges
  BY BaSessionAssumption DEF BaInit, BaRanges, Tasks, Steps, Readers, Nobody, None, Out, NoHandler
<1>3. LockInv
  BY DEF BaInit, LockInv, Tasks, Holding, Deletes, Installs, Destroys
<1>4. LifeInv
  BY DEF BaInit, LifeInv, Deletes
<1>5. ReaderInv
  BY DEF BaInit, ReaderInv, Kept, Out, NoHandler
<1>6. TimerInv
  BY DEF BaInit, TimerInv, Out, NoHandler
<1> QED BY <1>1, <1>2, <1>3, <1>4, <1>5, <1>6 DEF BaInv

LEMMA BaStep == BaInv /\ [BaNext]_baVars => BaInv'
BY BaFlagsStep, BaRangesStep, LockStep, LifeStep, ReaderStep, TimerStep DEF BaInv

\* While the last clause holds: no timer of a session that is freed.
LEMMA BaMeans == BaInv => BaTypeOK /\ FetchedAlive /\ StationAlive /\ NothingLeft
<1> SUFFICES ASSUME BaInv PROVE BaTypeOK /\ FetchedAlive /\ StationAlive /\ NothingLeft
  OBVIOUS
<1> USE DEF BaInv
<1>1. BaTypeOK
  <2>1. \A t \in Tasks : pc[t] \in {"session", "reorder", "retire"} => stopping[t] # None /\ mtx = t
    BY DEF LockInv, LifeInv, Holding, Deletes
  <2>2. {expired, work, blocked} \subseteq BOOLEAN
    BY Zenon DEF BaFlags
  <2>3. {pc["atbm_wq"], pc["ndo_stop"], resume["atbm_wq"], resume["ndo_stop"]} \subseteq Steps
    BY DEF BaRanges, Tasks
  <2>4. rx.has \in Sessions \cup {None} /\ handler.has \in Sessions \cup {None}
    BY DEF BaRanges
  <2>5. {staMtx, mtx} \subseteq Tasks \cup {Nobody}
    BY DEF BaRanges
  <2>6. {timeout, sessionTimer, reorderTimer} \subseteq [Sessions -> BOOLEAN]
    BY Zenon DEF BaFlags
  <2> QED BY <2>1, <2>2, <2>3, <2>4, <2>5, <2>6, Zenon DEF BaRanges, BaTypeOK
<1>2. FetchedAlive
  BY DEF ReaderInv, Kept, FetchedAlive
<1>3. StationAlive
  BY DEF ReaderInv, StationAlive
<1>4. NothingLeft
  <2> SUFFICES ASSUME cpus = 1, \A s \in Sessions : ~timeout[s]
               PROVE  /\ sta = "freed" =>
                           /\ ~work
                           /\ \A s \in Sessions : life[s] # "live" /\ ~sessionTimer[s] /\ ~reorderTimer[s]
                      /\ \A s \in Sessions : life[s] = "freed" => ~sessionTimer[s] /\ ~reorderTimer[s]
    BY DEF NothingLeft
  <2>1. ~work /\ \A s \in Sessions : ~sessionTimer[s]
    BY DEF TimerInv
  <2>2. \A s \in Sessions : reorderTimer[s] => life[s] = "live"
    <3> SUFFICES ASSUME NEW s \in Sessions, reorderTimer[s] PROVE life[s] = "live"
      OBVIOUS
    <3>1. s # None
      BY DEF Sessions, None
    <3>2. s = tidRx \/ \E t \in Tasks : stopping[t] = s
      BY DEF TimerInv
    <3> QED BY <3>1, <3>2 DEF LifeInv
  <2>3. sta = "freed" => \A s \in Sessions : life[s] # "live"
    <3> SUFFICES ASSUME sta = "freed", NEW s \in Sessions PROVE life[s] # "live"
      OBVIOUS
    <3>1. tidRx = None /\ s # None
      BY DEF LifeInv, Sessions, None
    <3>2. \A t \in Tasks : stopping[t] = None
      BY DEF LockInv, LifeInv, Deletes
    <3> QED BY <3>1, <3>2 DEF LifeInv
  <2> QED BY <2>1, <2>2, <2>3
<1> QED BY <1>1, <1>2, <1>3, <1>4

THEOREM SessionsAreSafe == BaSpec => [](BaTypeOK /\ FetchedAlive /\ StationAlive /\ NothingLeft)
<1>1. BaSpec => []BaInv
  BY BaFirst, BaStep, PTL DEF BaSpec
<1> QED BY <1>1, BaMeans, PTL

-----------------------------------------------------------------------------
(* Both of them: each model steps on its own.                              *)

LEMMA BothFirst == ASSUME AllInit PROVE ReorderInv /\ BaInv
BY ReorderFirst, BaFirst DEF AllInit

LEMMA OwnSteps ==
  ASSUME [AllNext]_<<vars, baVars, part>> PROVE [Next]_vars /\ [BaNext]_baVars
BY Zenon DEF AllNext

LEMMA BothStep ==
  ASSUME Fits, ReorderInv, BaInv, [AllNext]_<<vars, baVars, part>> PROVE ReorderInv' /\ BaInv'
BY OwnSteps, ReorderStep, BaStep

\* What BaInv says does not depend on the sizes of the ring.
LEMMA BaAlways == AllSpec => []BaInv
<1>1. AllInit => BaInv
  BY BothFirst
<1>2. BaInv /\ [AllNext]_<<vars, baVars, part>> => BaInv'
  BY OwnSteps, BaStep
<1> QED BY <1>1, <1>2, PTL DEF AllSpec

LEMMA ReorderAlways == ASSUME Fits PROVE AllSpec => []ReorderInv
<1>1. AllInit => ReorderInv
  BY BothFirst
<1>2. ReorderInv /\ [AllNext]_<<vars, baVars, part>> => ReorderInv'
  BY OwnSteps, ReorderStep
<1> QED BY <1>1, <1>2, PTL DEF AllSpec

\* The ring agrees with its count, its slots and its timer
\* (ieee80211_sta_reorder_release), and no session and no station is freed under
\* whom fetched it (___ieee80211_stop_rx_ba_session).
THEOREM AmpduIsSafe == ASSUME Fits PROVE AllSpec => []AmpduSafe
<1>1. ReorderInv /\ BaInv => AmpduSafe
  BY ReorderMeans, BaMeans DEF AmpduSafe
<1> QED BY <1>1, ReorderAlways, BaAlways, PTL

\* Every frame that ieee80211_rx got was handed over, is in the ring or on a list,
\* or came with a number that was out of date.
THEOREM NothingIsLost == ASSUME Fits PROVE AllSpec => []NothingLost
<1>1. ReorderInv => NothingLost
  BY ReorderMeans
<1> QED BY <1>1, ReorderAlways, PTL

\* A freed session leaves no timer behind, and a freed station no work and no live
\* session (ieee80211_sta_tear_down_BA_sessions).
THEOREM NothingIsLeft == AllSpec => []NothingLeft
<1>1. BaInv => NothingLeft
  BY BaMeans
<1> QED BY <1>1, BaAlways, PTL

\* On one processor the ring implements Delivery: what is handed over was
\* received, in order, and once unless it is an EAPOL frame.
THEOREM RingImplementsDelivery == ASSUME Fits, Cpus = 1 PROVE AllSpec => DeliverySpec
<1>1. AllInit => D!Init
  BY DEF AllInit, Init, D!Init
<1>2. ReorderInv /\ [AllNext]_<<vars, baVars, part>> => [D!Next]_<<got, delivered>>
  BY OwnSteps, RingDelivers
<1> QED BY <1>1, <1>2, ReorderAlways, PTL DEF AllSpec, DeliverySpec, D!Spec
=============================================================================
