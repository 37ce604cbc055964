---------------------------- MODULE MemoryProofs ----------------------------
(***************************************************************************)
(* Proofs about AddrSpace, for any number of tasks, levels and frames and  *)
(* any sizes of pages, tables, stacks and programs; and, in the last part, *)
(* about Memblock, for any memory, array, archives and requests.           *)
(***************************************************************************)
EXTENDS AddrSpace, Memblock, NatLemmas, FiniteSetTheorems, SequenceTheorems, TLAPS

-----------------------------------------------------------------------------
(* The digits of an address                                                *)

(* The constants are positive numbers.                                     *)
LEMMA Constants ==
  /\ NR_TASKS \in Nat \ {0} /\ PageSize \in Nat \ {0} /\ Levels \in Nat \ {0}
  /\ Fanout \in Nat \ {0} /\ NrFrames \in Nat \ {0} /\ StackSize \in Nat \ {0}
BY AddrSpaceAssumption

(* What the levels below a table map.                                      *)
LEMMA PagesUnderIs ==
  /\ PagesUnder[0] = 1
  /\ \A k \in 0 .. Levels : PagesUnder[k] \in Nat \ {0}
  /\ \A k \in 1 .. Levels : PagesUnder[k] = Fanout * PagesUnder[k - 1]
<1> DEFINE n == Levels
           X == Nat \ {0}
           R == [x \in X \X (1 .. n) |-> Fanout * x[1]]
           body(f, k) == IF k = 0 THEN 1 ELSE Fanout * f[k - 1]
<1>1. n \in Nat /\ Fanout \in Nat \ {0}
  BY Constants
<1>2. PagesUnder = CHOOSE f : f = [k \in 0 .. n |-> body(f, k)]
  BY Zenon DEF PagesUnder
<1> HIDE DEF n
<1>3. /\ 0 \in 0 .. n
      /\ \A k \in 1 .. n : k \in 0 .. n /\ k - 1 \in 0 .. n /\ k # 0
      /\ \A k \in 0 .. n : k # 0 => k \in 1 .. n
  BY <1>1
<1>4. /\ R \in [X \X (1 .. n) -> X] /\ 1 \in X
      /\ \A x \in X, k \in 1 .. n : R[<<x, k>>] = Fanout * x
  <2>1. \A x \in X : Fanout * x \in X
    BY <1>1
  <2> QED
    BY <2>1
<1> HIDE DEF X, R
<1>5. PICK f \in [0 .. n -> X] : Iterates(f, n, 1, R)
  BY <1>1, <1>4, Iteration
<1>6. \A k \in 0 .. n : f[k] = body(f, k)
  BY <1>3, <1>4, <1>5 DEF Iterates
<1>7. f = [k \in 0 .. n |-> body(f, k)]
  BY <1>5, <1>6
<1>8. PagesUnder = [k \in 0 .. n |-> body(PagesUnder, k)]
  BY <1>2, <1>7, Zenon
<1>9. \A k \in 0 .. n : PagesUnder[k] = body(PagesUnder, k)
  BY <1>8
<1> DEFINE V == [k \in 0 .. n |-> X]
<1>10. PagesUnder[0] = 1 /\ \A k \in 1 .. n : PagesUnder[k] = Fanout * PagesUnder[k - 1]
  BY <1>3, <1>9
<1>11. \A k \in 0 .. n : PagesUnder[k] \in V[k]
  <2>1. \A x \in X : Fanout * x \in X
    BY <1>1 DEF X
  <2>2. PagesUnder[0] \in V[0]
    BY <1>3, <1>4, <1>10
  <2>3. \A k \in 1 .. n : PagesUnder[k - 1] \in V[k - 1] => PagesUnder[k] \in V[k]
    BY <1>3, <1>10, <2>1
  <2> HIDE DEF V
  <2> QED
    BY <1>1, <2>2, <2>3, LoopInvariant
<1> QED
  BY <1>10, <1>11 DEF n, X

(* Dividing twice.                                                         *)
LEMMA DivideTwice ==
  ASSUME NEW x \in Nat, NEW a \in Nat \ {0}, NEW b \in Nat \ {0}
  PROVE  /\ x \div (a * b) = (x \div a) \div b
         /\ x \div a \in Nat /\ x \div (a * b) \in Nat
<1>1. PICK c : c = a * b
  OBVIOUS
<1>2. c \in Nat \ {0}
  BY <1>1
<1>3. PICK q : q = x \div a
  OBVIOUS
<1>4. PICK s : s = x % a
  OBVIOUS
<1>5. q \in Int /\ s \in Int /\ x = a * q + s /\ 0 <= s /\ s < a
  BY <1>3, <1>4
<1>6. q \in Nat
  BY <1>3, Quotient
<1>7. PICK m : m = q \div b
  OBVIOUS
<1>8. PICK t : t = q % b
  OBVIOUS
<1>9. m \in Int /\ t \in Int /\ q = b * m + t /\ 0 <= t /\ t <= b - 1
  BY <1>6, <1>7, <1>8
<1>10. m \in Nat
  BY <1>6, <1>7, Quotient
<1>11. x = c * m + (a * t + s)
  <2>1. x = a * (b * m + t) + s
    BY <1>5, <1>9
  <2>2. a * (b * m + t) = (a * b) * m + a * t
    BY <1>9
  <2> QED
    BY <1>1, <1>2, <1>5, <1>9, <2>1, <2>2
<1>12. a * t \in Int /\ 0 <= a * t /\ a * t <= a * (b - 1)
  BY <1>9
<1>13. a * (b - 1) = c - a
  BY <1>1
<1>14. 0 <= a * t + s /\ a * t + s < c
  BY <1>2, <1>5, <1>12, <1>13
<1>15. m * c <= x /\ x < (m + 1) * c
  <2>1. m * c = c * m /\ (m + 1) * c = c * m + c /\ c * m \in Int
    BY <1>2, <1>9
  <2>2. a * t \in Int
    BY <1>12
  <2> QED
    BY <1>2, <1>5, <1>11, <1>14, <2>1, <2>2
<1>16. m <= x \div c /\ x \div c < m + 1 /\ x \div c \in Nat
  <2>1. m \in Int /\ m + 1 \in Int
    BY <1>9
  <2> QED
    BY <1>2, <1>15, <2>1, Quotient
<1>17. x \div c = m
  BY <1>10, <1>16
<1> QED
  BY <1>1, <1>3, <1>6, <1>7, <1>16, <1>17

(* A larger number of pages has more words.                                *)
LEMMA Scaled ==
  ASSUME NEW a \in Nat, NEW b \in Nat, a <= b
  PROVE  a * PageSize \in Nat /\ b * PageSize \in Nat /\ a * PageSize <= b * PageSize
<1>1. PageSize \in Nat
  BY Constants
<1>2. PICK k \in Nat : b = a + k
  <2>1. b - a \in Nat /\ b = a + (b - a)
    OBVIOUS
  <2> QED
    BY <2>1
<1>3. (a + k) * PageSize = a * PageSize + k * PageSize
  BY <1>1
<1>4. a * PageSize \in Nat /\ k * PageSize \in Nat
  BY <1>1
<1> QED
  BY <1>2, <1>3, <1>4

(* A number has one last digit.                                            *)
LEMMA LastDigit ==
  ASSUME NEW u \in Nat, NEW v \in Nat, NEW j \in 0 .. Fanout - 1, NEW k \in 0 .. Fanout - 1,
         v * Fanout + j = u * Fanout + k
  PROVE  v = u /\ j = k
<1>1. Fanout \in Nat \ {0} /\ j \in Nat /\ k \in Nat /\ j < Fanout /\ k < Fanout
  BY Constants
<1>2. PICK vf \in Nat, uf \in Nat : vf = v * Fanout /\ uf = u * Fanout
  BY <1>1
<1>3. vf + j = uf + k
  BY <1>2
<1>4. ~ (v >= u + 1)
  <2> SUFFICES ASSUME v >= u + 1 PROVE FALSE
    OBVIOUS
  <2>1. vf >= (u + 1) * Fanout
    BY <1>1, <1>2
  <2>2. (u + 1) * Fanout = uf + Fanout
    BY <1>1, <1>2
  <2> QED
    BY <1>1, <1>3, <2>1, <2>2
<1>5. ~ (u >= v + 1)
  <2> SUFFICES ASSUME u >= v + 1 PROVE FALSE
    OBVIOUS
  <2>1. uf >= (v + 1) * Fanout
    BY <1>1, <1>2
  <2>2. (v + 1) * Fanout = vf + Fanout
    BY <1>1, <1>2
  <2> QED
    BY <1>1, <1>3, <2>1, <2>2
<1>6. v = u
  BY <1>4, <1>5
<1> QED
  BY <1>1, <1>2, <1>3, <1>6

(* The digits of the address va above level l: which table of the level l  *)
(* serves it.                                                              *)
Prefix(va, l) == va \div (PageSize * PagesUnder[Levels - l])

(* The index of a level is one digit.                                      *)
LEMMA PrefixStep ==
  ASSUME NEW va \in Nat, NEW l \in 0 .. Levels - 1
  PROVE  /\ Prefix(va, l) \in Nat /\ Prefix(va, l + 1) \in Nat
         /\ IndexOf(va, l) \in 0 .. Fanout - 1
         /\ Prefix(va, l + 1) = Prefix(va, l) * Fanout + IndexOf(va, l)
         /\ Prefix(va, l) = Prefix(va, l + 1) \div Fanout
         /\ IndexOf(va, l) = Prefix(va, l + 1) % Fanout
<1>1. /\ PageSize \in Nat \ {0} /\ Fanout \in Nat \ {0} /\ Levels \in Nat \ {0}
      /\ l \in Nat /\ l < Levels
  BY Constants
<1>2. PICK k : k = Levels - l
  OBVIOUS
<1>3. k \in 1 .. Levels /\ k - 1 \in 0 .. Levels /\ k \in 0 .. Levels /\ Levels - 1 - l = k - 1
      /\ Levels - (l + 1) = k - 1
  BY <1>1, <1>2
<1>4. PICK u : u = PagesUnder[k - 1]
  OBVIOUS
<1>5. u \in Nat \ {0} /\ PagesUnder[k] = Fanout * u
  BY <1>3, <1>4, PagesUnderIs
<1>6. PICK a : a = PageSize * u
  OBVIOUS
<1>7. a \in Nat \ {0} /\ PageSize * PagesUnder[k] = a * Fanout
  BY <1>1, <1>5, <1>6
<1>8. /\ Prefix(va, l) = va \div (a * Fanout) /\ Prefix(va, l + 1) = va \div a
      /\ IndexOf(va, l) = (va \div a) % Fanout
  <2>1. Prefix(va, l) = va \div (PageSize * PagesUnder[k])
    BY <1>2 DEF Prefix
  <2>2. Prefix(va, l + 1) = va \div a
    BY <1>3, <1>4, <1>6 DEF Prefix
  <2>3. IndexOf(va, l) = (va \div a) % Fanout
    BY <1>3, <1>4, <1>6 DEF IndexOf
  <2> QED
    BY <1>7, <2>1, <2>2, <2>3
<1>9. PICK y : y = va \div a
  OBVIOUS
<1>10. y \in Nat /\ va \div (a * Fanout) = y \div Fanout /\ y \div Fanout \in Nat
  BY <1>1, <1>7, <1>9, DivideTwice, Quotient
<1>11. PICK q, r : q = y \div Fanout /\ r = y % Fanout
  OBVIOUS
<1>12. q \in Int /\ r \in 0 .. Fanout - 1 /\ y = Fanout * q + r
  BY <1>1, <1>10, <1>11
<1>13. y = q * Fanout + r
  <2>1. Fanout * q = q * Fanout
    BY <1>1, <1>12
  <2> QED
    BY <1>12, <2>1
<1>14. Prefix(va, l) = q /\ Prefix(va, l + 1) = y /\ IndexOf(va, l) = r /\ q \in Nat
  BY <1>8, <1>9, <1>10, <1>11
<1> QED
  BY <1>10, <1>11, <1>12, <1>13, <1>14

(* The root serves every address, and the digits above the page offset are *)
(* the number of the page.                                                 *)
LEMMA PrefixEnds ==
  ASSUME NEW va \in Nat
  PROVE  /\ va < NrVPages * PageSize => Prefix(va, 0) = 0
         /\ Prefix(va, Levels) = va \div PageSize
<1>1. PageSize \in Nat \ {0} /\ Levels \in Nat \ {0} /\ NrVPages \in Nat \ {0}
  BY Constants, PagesUnderIs DEF NrVPages
<1>2. Levels - 0 = Levels /\ Levels - Levels = 0
  BY <1>1
<1>3. Prefix(va, 0) = va \div (PageSize * NrVPages)
  BY <1>2 DEF Prefix, NrVPages
<1>4. PICK d : d = PageSize * NrVPages
  OBVIOUS
<1>5. d \in Nat \ {0} /\ NrVPages * PageSize = d
  BY <1>1, <1>4
<1>6. ASSUME va < d PROVE va \div d = 0
  <2>1. va \div d \in Nat /\ (va < 1 * d => va \div d < 1)
    BY <1>5, Quotient
  <2> QED
    BY <1>5, <1>6, <2>1
<1>7. Prefix(va, Levels) = va \div PageSize
  <2>1. Prefix(va, Levels) = va \div (PageSize * 1)
    BY <1>2, PagesUnderIs DEF Prefix
  <2> QED
    BY <1>1, <2>1
<1> QED
  BY <1>3, <1>4, <1>5, <1>6, <1>7

-----------------------------------------------------------------------------
(* Trees of tables                                                         *)

(* where[f] is, for a table f, the root of the tree it is in, its level    *)
(* and the digits of the addresses it serves; for a frame of a program or  *)
(* a stack, the root of the tree that may map it comes first.              *)
Places == [Nat -> Nat \X Nat \X Nat]

(* e is a frame that a tree of root x may map.                             *)
Maps(ts, b, where, x, e) ==
  e >= NrFrames \/ (e < b /\ e \notin DOMAIN ts /\ where[e][1] = x)

(* The place of what entry k of the table f points to.                     *)
PlaceBelow(where, f, k) == <<where[f][1], where[f][2] + 1, where[f][3] * Fanout + k>>

TablesTyped(ts, b) ==
  /\ ts \in [DOMAIN ts -> [0 .. Fanout - 1 -> Nat]]
  /\ DOMAIN ts \subseteq Nat /\ \A f \in DOMAIN ts : 0 < f /\ f < b
PlacesDiffer(ts, where) ==
  /\ \A f \in DOMAIN ts : where[f][2] < Levels
  /\ \A f \in DOMAIN ts : where[f][2] = 0 => where[f] = <<f, 0, 0>>
  /\ \A f, g \in DOMAIN ts : where[f] = where[g] => f = g
EntriesSound(ts, b, where) ==
  \A f \in DOMAIN ts, k \in 0 .. Fanout - 1 : ts[f][k] # 0 =>
    /\ where[f][2] < Levels - 1 =>
         ts[f][k] \in DOMAIN ts /\ where[ts[f][k]] = PlaceBelow(where, f, k)
    /\ where[f][2] = Levels - 1 => Maps(ts, b, where, where[f][1], ts[f][k])
ParentsHold(ts, where) ==
  \A f \in DOMAIN ts : where[f][2] > 0 =>
    \E g \in DOMAIN ts, k \in 0 .. Fanout - 1 :
      ts[g][k] = f /\ where[f] = PlaceBelow(where, g, k)
Trees(ts, b, where) ==
  /\ where \in Places
  /\ TablesTyped(ts, b) /\ PlacesDiffer(ts, where)
  /\ EntriesSound(ts, b, where) /\ ParentsHold(ts, where)

(* simulate_walk() over the tables ts.                                     *)
BelowIn(ts, table, va, level) == IF table = 0 THEN 0 ELSE ts[table][IndexOf(va, level)]
WalkIn(ts, table, va) ==
  LET table_p[level \in 0 .. Levels - 1] ==
        IF level = 0 THEN table ELSE BelowIn(ts, table_p[level - 1], va, level - 1)
      last == table_p[Levels - 1]
  IN  IF last = 0 THEN 0 ELSE BelowIn(ts, last, va, Levels - 1) * PageSize + (va % PageSize)

(* The place of the table of a level that a walk for va comes through.     *)
OnPath(x, va, level) == <<x, level, Prefix(va, level)>>

(* The parts of a place.                                                   *)
LEMMA PlaceIs ==
  ASSUME NEW where \in Places, NEW f \in Nat
  PROVE  /\ \E c \in Nat, m \in Nat, v \in Nat : where[f] = <<c, m, v>>
         /\ where[f][1] \in Nat /\ where[f][2] \in Nat /\ where[f][3] \in Nat
         /\ where[f] = <<where[f][1], where[f][2], where[f][3]>>
<1>1. where[f] \in Nat \X Nat \X Nat
  BY DEF Places
<1> QED
  BY <1>1

(* A table of the path hangs from the table of the path one level up.      *)
LEMMA PathParent ==
  ASSUME NEW ts, NEW b, NEW where, Trees(ts, b, where), NEW x,
         NEW va \in Nat, NEW level \in 0 .. Levels - 2,
         NEW g \in DOMAIN ts, where[g] = OnPath(x, va, level + 1)
  PROVE  \E h \in DOMAIN ts :
           where[h] = OnPath(x, va, level) /\ ts[h][IndexOf(va, level)] = g
<1>1. level \in Nat /\ level \in 0 .. Levels - 1
  BY Constants
<1>2. PICK k \in 0 .. Fanout - 1, u \in Nat :
        /\ k = IndexOf(va, level) /\ u = Prefix(va, level)
        /\ Prefix(va, level + 1) = u * Fanout + k
  BY <1>1, PrefixStep
<1>3. where[g][2] > 0
  BY <1>1 DEF OnPath
<1>4. PICK h \in DOMAIN ts, j \in 0 .. Fanout - 1 :
        ts[h][j] = g /\ where[g] = PlaceBelow(where, h, j)
  BY <1>3 DEF Trees, ParentsHold
<1>5. h \in Nat /\ where \in Places
  BY DEF Trees, TablesTyped
<1>6. PICK c \in Nat, m \in Nat, v \in Nat : where[h] = <<c, m, v>>
  BY <1>5, PlaceIs
<1>7. c = x /\ m + 1 = level + 1 /\ v * Fanout + j = u * Fanout + k
  BY <1>2, <1>4, <1>6 DEF PlaceBelow, OnPath
<1>8. m = level
  <2>1. m + 1 = level + 1
    BY <1>7
  <2> QED
    BY <1>1, <2>1
<1>9. v = u /\ j = k
  BY <1>7, LastDigit
<1> QED
  BY <1>2, <1>4, <1>6, <1>7, <1>8, <1>9 DEF OnPath

(* The entries of a table lead to the next table of the path, if there is  *)
(* one.                                                                    *)
LEMMA PathStep ==
  ASSUME NEW ts, NEW b, NEW where, Trees(ts, b, where), NEW x,
         NEW va \in Nat, NEW level \in 0 .. Levels - 2,
         NEW f \in DOMAIN ts, where[f] = OnPath(x, va, level)
  PROVE  /\ ts[f][IndexOf(va, level)] = 0 =>
              \A g \in DOMAIN ts : where[g] # OnPath(x, va, level + 1)
         /\ ts[f][IndexOf(va, level)] # 0 =>
              \E g \in DOMAIN ts : /\ g = ts[f][IndexOf(va, level)]
                                   /\ where[g] = OnPath(x, va, level + 1)
<1>1. /\ Levels \in Nat \ {0} /\ Fanout \in Nat \ {0}
      /\ level \in Nat /\ level \in 0 .. Levels - 1 /\ level < Levels - 1
  BY Constants
<1>2. PICK k \in 0 .. Fanout - 1 :
        k = IndexOf(va, level) /\ Prefix(va, level + 1) = Prefix(va, level) * Fanout + k
  BY <1>1, PrefixStep
<1>3. PlaceBelow(where, f, k) = OnPath(x, va, level + 1)
  BY <1>2 DEF PlaceBelow, OnPath
<1>4. ts[f][k] \in Nat
  BY DEF Trees, TablesTyped
<1>5. ASSUME ts[f][k] # 0
      PROVE  ts[f][k] \in DOMAIN ts /\ where[ts[f][k]] = OnPath(x, va, level + 1)
  <2>1. where[f][2] < Levels - 1
    BY <1>1 DEF OnPath
  <2> QED
    BY <1>3, <1>5, <2>1 DEF Trees, EntriesSound
<1>6. ASSUME ts[f][k] = 0, NEW g \in DOMAIN ts, where[g] = OnPath(x, va, level + 1)
      PROVE  FALSE
  <2>1. PICK h \in DOMAIN ts : where[h] = OnPath(x, va, level) /\ ts[h][k] = g
    BY <1>2, <1>6, PathParent
  <2>2. h = f
    BY <2>1 DEF Trees, PlacesDiffer
  <2> QED
    BY <1>6, <2>1, <2>2 DEF Trees, TablesTyped
<1> QED
  BY <1>2, <1>4, <1>5, <1>6

(* simulate_walk() finds the entry in the last table of the path, if there *)
(* is such a table.                                                        *)
LEMMA WalkIs ==
  ASSUME NEW ts, NEW b, NEW where, Trees(ts, b, where),
         NEW x \in DOMAIN ts, where[x][2] = 0,
         NEW va \in Nat, va < NrVPages * PageSize
  PROVE  /\ \A f \in DOMAIN ts : where[f] = OnPath(x, va, Levels - 1) =>
               WalkIn(ts, x, va) = ts[f][IndexOf(va, Levels - 1)] * PageSize + (va % PageSize)
         /\ (\A f \in DOMAIN ts : where[f] # OnPath(x, va, Levels - 1)) => WalkIn(ts, x, va) = 0
<1> DEFINE n == Levels - 1
           At(f, k) == f \in DOMAIN ts /\ where[f] = OnPath(x, va, k)
           None(k) == \A f \in DOMAIN ts : where[f] # OnPath(x, va, k)
           V == [k \in 0 .. n |-> {f \in Nat : IF f = 0 THEN None(k) ELSE At(f, k)}]
           S == [z \in Nat \X (1 .. n) |-> BelowIn(ts, z[1], va, z[2] - 1)]
           body(f, k) == IF k = 0 THEN x ELSE BelowIn(ts, f[k - 1], va, k - 1)
           F == CHOOSE f : f = [k \in 0 .. n |-> body(f, k)]
<1>1. /\ n \in Nat /\ 0 \in 0 .. n /\ n \in 0 .. n /\ 0 \notin DOMAIN ts /\ DOMAIN ts \subseteq Nat
      /\ \A k \in 1 .. n : k \in 0 .. n /\ k - 1 \in 0 .. n /\ k # 0 /\ k - 1 \in 0 .. Levels - 2
                           /\ (k - 1) + 1 = k
      /\ \A k \in 0 .. n : k # 0 => k \in 1 .. n
  BY Constants, SMTT(30) DEF Trees, TablesTyped
<1>2. /\ WalkIn(ts, x, va) =
           IF F[n] = 0 THEN 0 ELSE BelowIn(ts, F[n], va, n) * PageSize + (va % PageSize)
  BY Zenon DEF WalkIn
<1>3. x \in V[0]
  <2>1. where[x] = <<x, 0, 0>> /\ Prefix(va, 0) = 0
    BY PrefixEnds DEF Trees, PlacesDiffer
  <2> QED
    BY <1>1, <2>1 DEF OnPath
<1>4. ASSUME NEW k \in 1 .. n, NEW f \in V[k - 1] PROVE S[<<f, k>>] \in V[k] /\ f \in Nat /\ S[<<f, k>>] = BelowIn(ts, f, va, k - 1)
  <2>1. f \in Nat /\ S[<<f, k>>] = BelowIn(ts, f, va, k - 1) /\ (IF f = 0 THEN None(k - 1) ELSE At(f, k - 1))
    BY <1>1
  <2>2. CASE f = 0
    <3>1. None(k)
      <4> SUFFICES ASSUME NEW g \in DOMAIN ts, where[g] = OnPath(x, va, k) PROVE FALSE
        OBVIOUS
      <4>1. PICK l \in 0 .. Levels - 2 : l = k - 1 /\ l + 1 = k
        BY <1>1
      <4>2. \E h \in DOMAIN ts : where[h] = OnPath(x, va, l)
        <5>1. where[g] = OnPath(x, va, l + 1)
          BY <4>1
        <5> QED
          BY <5>1, PathParent
      <4> QED
        BY <2>1, <2>2, <4>1, <4>2
    <3> QED
      BY <1>1, <2>1, <2>2, <3>1 DEF BelowIn
  <2>3. CASE f # 0
    <3>1. PICK l \in 0 .. Levels - 2 : l = k - 1 /\ l + 1 = k
      BY <1>1
    <3>2. At(f, l)
      BY <2>1, <2>3, <3>1
    <3>3. PICK e : e = ts[f][IndexOf(va, l)]
      OBVIOUS
    <3>4. e \in Nat /\ (e = 0 => None(k)) /\ (e # 0 => At(e, k))
      <4>1. f \in DOMAIN ts /\ where[f] = OnPath(x, va, l)
        BY <3>2
      <4> HIDE DEF V, S, n, F
      <4>2. /\ e \in Nat /\ (e = 0 => \A g \in DOMAIN ts : where[g] # OnPath(x, va, l + 1))
            /\ (e # 0 => e \in DOMAIN ts /\ where[e] = OnPath(x, va, l + 1))
        <5>1. ts[f][IndexOf(va, l)] \in Nat
          <6>1. l \in 0 .. Levels - 1
            BY Constants
          <6>2. IndexOf(va, l) \in 0 .. Fanout - 1
            BY <6>1, PrefixStep
          <6> QED
            BY <4>1, <6>2 DEF Trees, TablesTyped
        <5>2. ts[f][IndexOf(va, l)] = 0 => \A g \in DOMAIN ts : where[g] # OnPath(x, va, l + 1)
          BY <4>1, PathStep
        <5>3. ts[f][IndexOf(va, l)] # 0 =>
                \E g \in DOMAIN ts : g = ts[f][IndexOf(va, l)] /\ where[g] = OnPath(x, va, l + 1)
          BY <4>1, PathStep
        <5> QED
          BY <3>3, <5>1, <5>2, <5>3
      <4> QED
        BY <3>1, <4>2
    <3>5. S[<<f, k>>] = e
      BY <2>1, <2>3, <3>1, <3>3 DEF BelowIn
    <3> QED
      BY <1>1, <2>1, <3>4, <3>5
  <2> QED
    BY <2>1, <2>2, <2>3
<1> HIDE DEF V, S, n
<1>14. n \in Nat /\ LoopKeeps(n, x, V, S)
  BY <1>1, <1>3, <1>4 DEF LoopKeeps
<1>5. PICK f0 : LoopIn(f0, n, x, V, S)
  BY <1>14, LoopExists
<1>6. \A k \in 0 .. n : f0[k] = body(f0, k)
  BY <1>1, <1>4, <1>5 DEF LoopIn
<1>7. f0 = [k \in 0 .. n |-> body(f0, k)]
  BY <1>5, <1>6 DEF LoopIn
<1>8. F = [k \in 0 .. n |-> body(F, k)]
  BY <1>7, Zenon
<1> HIDE DEF F
<1>9. \A k \in 0 .. n : F[k] = body(F, k)
  BY <1>8
<1>10. \A k \in 0 .. n : F[k] \in V[k]
  <2>1. F[0] \in V[0]
    BY <1>1, <1>3, <1>9
  <2>2. \A k \in 1 .. n : F[k - 1] \in V[k - 1] => F[k] \in V[k]
    BY <1>1, <1>4, <1>9
  <2> QED
    BY <1>1, <2>1, <2>2, LoopInvariant
<1>11. F[n] \in Nat /\ IF F[n] = 0 THEN None(n) ELSE At(F[n], n)
  BY <1>1, <1>10 DEF V
<1>12. ASSUME NEW f \in DOMAIN ts, where[f] = OnPath(x, va, n)
       PROVE  WalkIn(ts, x, va) = ts[f][IndexOf(va, n)] * PageSize + (va % PageSize)
  <2>1. F[n] = f /\ f # 0
    BY <1>1, <1>11, <1>12 DEF Trees, PlacesDiffer
  <2> QED
    BY <1>2, <2>1 DEF BelowIn
<1>13. None(n) => WalkIn(ts, x, va) = 0
  BY <1>2, <1>11
<1> QED
  BY <1>12, <1>13 DEF n

-----------------------------------------------------------------------------
(* Frames and pages                                                        *)

(* A block has at least one frame.                                         *)
LEMMA BlockLenIs ==
  ASSUME NEW size \in Nat
  PROVE  BlockLen(size) \in Nat \ {0}
<1> DEFINE n == size
           T == [size : Nat, len : Nat \ {0}]
           V == [k \in 0 .. n |-> T]
           S == [z \in T \X (1 .. n) |-> Halve(z[1])]
           a == [size |-> size, len |-> 1]
           body(f, k) == IF k = 0 THEN a ELSE Halve(f[k - 1])
           F == CHOOSE f : f = [k \in 0 .. n |-> body(f, k)]
<1>1. /\ n \in Nat /\ 0 \in 0 .. n /\ n \in 0 .. n
      /\ \A k \in 1 .. n : k \in 0 .. n /\ k - 1 \in 0 .. n /\ k # 0
      /\ \A k \in 0 .. n : k # 0 => k \in 1 .. n
  OBVIOUS
<1>2. BlockLen(size) = F[n].len
  BY Zenon DEF BlockLen
<1>3. ASSUME NEW l \in T PROVE Halve(l) \in T
  <2>1. l.size \in Nat /\ l.len \in Nat \ {0} /\ l.size \div 2 \in Nat /\ 2 * l.len \in Nat \ {0}
    OBVIOUS
  <2> QED
    BY <2>1 DEF Halve
<1>4. a \in T
  OBVIOUS
<1>5. a \in V[0] /\ \A k \in 0 .. n : V[k] = T
  BY <1>1, <1>4
<1>6. \A l \in T, k \in 1 .. n : S[<<l, k>>] = Halve(l)
  OBVIOUS
<1> HIDE DEF n, T, V, S, a
<1>7. LoopKeeps(n, a, V, S)
  BY <1>1, <1>3, <1>5, <1>6 DEF LoopKeeps
<1>8. PICK f0 : LoopIn(f0, n, a, V, S)
  BY <1>1, <1>7, LoopExists
<1>9. \A k \in 0 .. n : f0[k] = body(f0, k)
  BY <1>1, <1>5, <1>6, <1>8 DEF LoopIn
<1>10. f0 = [k \in 0 .. n |-> body(f0, k)]
  BY <1>8, <1>9 DEF LoopIn
<1>11. F = [k \in 0 .. n |-> body(F, k)]
  BY <1>10, Zenon
<1> HIDE DEF F
<1>12. \A k \in 0 .. n : F[k] = body(F, k)
  BY <1>11
<1>13. \A k \in 0 .. n : F[k] \in V[k]
  <2>1. F[0] \in V[0]
    BY <1>1, <1>5, <1>12
  <2>2. \A k \in 1 .. n : F[k - 1] \in V[k - 1] => F[k] \in V[k]
    BY <1>1, <1>3, <1>5, <1>12
  <2> QED
    BY <1>1, <2>1, <2>2, LoopInvariant
<1>14. F[n] \in T
  BY <1>1, <1>5, <1>13
<1> QED
  BY <1>2, <1>14 DEF T

(* The block that the page allocator hands out is above frame b.           *)
LEMMA BlockIs ==
  ASSUME NEW b \in Nat, NEW size \in Nat
  PROVE  Block(b, size) \in Nat /\ Block(b, size) >= b
<1>1. PICK n \in Nat \ {0} : n = BlockLen(size)
  BY BlockLenIs
<1>2. PICK x \in Nat : x = b + n - 1
  BY <1>1
<1>3. PICK q, r : q = x \div n /\ r = x % n
  OBVIOUS
<1>4. q \in Int /\ r \in 0 .. n - 1 /\ x = n * q + r
  BY <1>1, <1>2, <1>3
<1>5. q \in Nat
  BY <1>2, <1>3, Quotient
<1>6. PICK p \in Nat : p = q * n /\ p = n * q
  BY <1>1, <1>5
<1>7. Block(b, size) = p
  BY <1>1, <1>2, <1>3, <1>6 DEF Block
<1> QED
  BY <1>1, <1>2, <1>4, <1>6, <1>7

(* The page of a word and its offset.                                      *)
LEMMA PageOf ==
  ASSUME NEW c \in Nat, NEW d \in 0 .. PageSize - 1, NEW a, a = c * PageSize + d
  PROVE  a \div PageSize = c /\ a % PageSize = d /\ a \in Nat
<1>1. PageSize \in Nat \ {0} /\ d \in Nat /\ d < PageSize
  BY Constants
<1>2. PICK p \in Nat : p = c * PageSize
  BY <1>1
<1>3. a \in Nat /\ a = p + d /\ (c + 1) * PageSize = p + PageSize
  BY <1>1, <1>2
<1>4. a \div PageSize \in Nat /\ c <= a \div PageSize /\ a \div PageSize < c + 1
  <2>1. c * PageSize <= a /\ a < (c + 1) * PageSize
    BY <1>1, <1>2, <1>3
  <2>2. c \in Int /\ c + 1 \in Int
    OBVIOUS
  <2> QED
    BY <1>1, <1>3, <2>1, <2>2, Quotient
<1>5. a \div PageSize = c
  BY <1>4
<1>6. a = PageSize * (a \div PageSize) + (a % PageSize) /\ a % PageSize \in 0 .. PageSize - 1
  BY <1>1, <1>3
<1>7. PageSize * c = p
  BY <1>1, <1>2
<1>8. a % PageSize = d
  BY <1>1, <1>3, <1>5, <1>6, <1>7
<1> QED
  BY <1>3, <1>5, <1>8

(* An entry of a set of tables is in one of them.                          *)
LEMMA EntryOf ==
  ASSUME NEW fs, NEW e \in Entries(fs)
  PROVE  \E f \in fs, j \in 0 .. Fanout - 1 : e = tables[f][j] /\ e # 0
BY DEF Entries

(* The frames that a task reaches are those that its tree may map.         *)
LEMMA ReachIs ==
  ASSUME NEW where, Trees(tables, brk, where), NEW t,
         pgd[t] # 0 => pgd[t] \in DOMAIN tables /\ where[pgd[t]][2] = 0
  PROVE  \A e \in Mapped(t) :
           pgd[t] # 0 /\ e \in Nat /\ e < NrFrames /\ Maps(tables, brk, where, pgd[t], e)
<1> DEFINE n == Levels
           x == pgd[t]
           Of(k) == {f \in DOMAIN tables : x # 0 /\ where[f][1] = x /\ where[f][2] = k}
           Leaves == {e \in Nat : x # 0 /\ Maps(tables, brk, where, x, e)}
           V == [k \in 0 .. n |-> IF k = n THEN SUBSET Leaves ELSE SUBSET Of(k)]
           S == [z \in (SUBSET Nat) \X (1 .. n) |-> Entries(z[1])]
           a == {pgd[t]} \ {0}
           body(f, k) == IF k = 0 THEN a ELSE Entries(f[k - 1])
           F == CHOOSE f : f = [k \in 0 .. n |-> body(f, k)]
<1>1. /\ n \in Nat \ {0} /\ 0 \in 0 .. n /\ n \in 0 .. n /\ n # 0
      /\ \A k \in 1 .. n : k \in 0 .. n /\ k - 1 \in 0 .. n /\ k # 0 /\ k - 1 # n /\ (k - 1) + 1 = k
      /\ \A k \in 0 .. n : k # 0 => k \in 1 .. n
      /\ \A k \in 1 .. n : k = n => k - 1 = Levels - 1
      /\ \A k \in 1 .. n : k # n => k - 1 < Levels - 1
  BY Constants
<1>2. Mapped(t) = F[n] \cap Frames
  BY Zenon DEF Mapped
<1>3. DOMAIN tables \subseteq Nat
  BY DEF Trees, TablesTyped
<1>4. a \in V[0]
  <2>1. a \subseteq Of(0)
    BY DEF Trees, PlacesDiffer
  <2> QED
    BY <1>1, <2>1
<1>5. ASSUME NEW k \in 1 .. n, NEW fs \in V[k - 1]
      PROVE  Entries(fs) \in V[k] /\ fs \in SUBSET Nat
  <2>1. fs \subseteq Of(k - 1)
    BY <1>1
  <2>2. ASSUME NEW e \in Entries(fs)
        PROVE  e \in Nat /\ IF k = n THEN e \in Leaves ELSE e \in Of(k)
    <3>1. PICK f \in fs, j \in 0 .. Fanout - 1 : e = tables[f][j] /\ e # 0
      BY EntryOf
    <3>2. f \in DOMAIN tables /\ x # 0 /\ where[f][1] = x /\ where[f][2] = k - 1
      BY <2>1
    <3>3. e \in Nat
      BY <3>1, <3>2, ZenonT(30) DEF Trees, TablesTyped
    <3>4. CASE k = n
      <4>1. where[f][2] = Levels - 1
        BY <1>1, <3>2, <3>4
      <4>2. Maps(tables, brk, where, x, e)
        BY <3>1, <3>2, <4>1 DEF Trees, EntriesSound
      <4> QED
        BY <3>2, <3>3, <3>4, <4>2
    <3>5. CASE k # n
      <4>1. where[f][2] < Levels - 1
        BY <1>1, <3>2, <3>5
      <4>2. e \in DOMAIN tables /\ where[e] = PlaceBelow(where, f, j)
        BY <3>1, <3>2, <4>1 DEF Trees, EntriesSound
      <4>3. where[e][1] = x /\ where[e][2] = k
        BY <1>1, <3>2, <4>2 DEF PlaceBelow
      <4> QED
        BY <3>2, <3>3, <3>5, <4>2, <4>3
    <3> QED
      BY <3>4, <3>5
  <2>3. Entries(fs) \in V[k]
    <3> HIDE DEF Leaves, Of
    <3> QED
      BY <1>1, <2>2
  <2> QED
    BY <1>3, <2>1, <2>3
<1>6. \A fs \in SUBSET Nat, k \in 1 .. n : S[<<fs, k>>] = Entries(fs)
  OBVIOUS
<1>7. V[n] = SUBSET Leaves
  BY <1>1
<1> HIDE DEF n, V, S, a
<1>8. LoopKeeps(n, a, V, S)
  BY <1>1, <1>4, <1>5, <1>6 DEF LoopKeeps
<1>9. PICK f0 : LoopIn(f0, n, a, V, S)
  BY <1>1, <1>8, LoopExists
<1>10. \A k \in 0 .. n : f0[k] = body(f0, k)
  <2> TAKE k \in 0 .. n
  <2>1. CASE k = 0
    BY <1>9, <2>1 DEF LoopIn
  <2>2. CASE k # 0
    <3>1. k \in 1 .. n /\ f0[k - 1] \in V[k - 1] /\ f0[k] = S[<<f0[k - 1], k>>]
      BY <1>1, <1>9, <2>2 DEF LoopIn
    <3>2. f0[k - 1] \in SUBSET Nat
      BY <1>5, <3>1
    <3>3. f0[k] = Entries(f0[k - 1])
      BY <1>6, <3>1, <3>2
    <3> QED
      BY <2>2, <3>3
  <2> QED
    BY <2>1, <2>2
<1>11. f0 = [k \in 0 .. n |-> body(f0, k)]
  BY <1>9, <1>10 DEF LoopIn
<1>12. F = [k \in 0 .. n |-> body(F, k)]
  BY <1>11, Zenon
<1> HIDE DEF F
<1>13. \A k \in 0 .. n : F[k] = body(F, k)
  BY <1>12
<1>14. \A k \in 0 .. n : F[k] \in V[k]
  <2>1. F[0] \in V[0]
    BY <1>1, <1>4, <1>13
  <2>2. \A k \in 1 .. n : F[k - 1] \in V[k - 1] => F[k] \in V[k]
    BY <1>1, <1>5, <1>13
  <2> QED
    BY <1>1, <2>1, <2>2, LoopInvariant
<1>15. F[n] \subseteq Leaves
  BY <1>1, <1>7, <1>14
<1>16. \A e \in Frames : e < NrFrames
  BY Constants DEF Frames
<1> QED
  BY <1>2, <1>15, <1>16

-----------------------------------------------------------------------------
(* What keeps the tables trees                                             *)

(* Frames handed out, with any place.                                      *)
LEMMA TreesGrow ==
  ASSUME NEW ts, NEW b \in Nat, NEW where, Trees(ts, b, where),
         NEW b2 \in Nat, b <= b2, NEW where2 \in Places,
         \A f \in Nat : f < b => where2[f] = where[f]
  PROVE  /\ Trees(ts, b2, where2)
         /\ \A x : \A e \in Nat : Maps(ts, b, where, x, e) => Maps(ts, b2, where2, x, e)
<1>1. TablesTyped(ts, b) /\ TablesTyped(ts, b2)
  BY DEF Trees, TablesTyped
<1>2. \A f \in DOMAIN ts : f \in Nat /\ where2[f] = where[f]
  BY <1>1 DEF TablesTyped
<1>3. PlacesDiffer(ts, where2)
  BY <1>2 DEF Trees, PlacesDiffer
<1>4. \A x : \A e \in Nat : Maps(ts, b, where, x, e) => Maps(ts, b2, where2, x, e)
  BY DEF Maps
<1>5. \A f \in DOMAIN ts, k \in 0 .. Fanout - 1 :
        ts[f][k] \in Nat /\ PlaceBelow(where2, f, k) = PlaceBelow(where, f, k)
  BY <1>1, <1>2 DEF TablesTyped, PlaceBelow
<1>6. EntriesSound(ts, b2, where2)
  <2> SUFFICES ASSUME NEW f \in DOMAIN ts, NEW k \in 0 .. Fanout - 1, ts[f][k] # 0
               PROVE  /\ where2[f][2] < Levels - 1 =>
                           ts[f][k] \in DOMAIN ts /\ where2[ts[f][k]] = PlaceBelow(where2, f, k)
                      /\ where2[f][2] = Levels - 1 => Maps(ts, b2, where2, where2[f][1], ts[f][k])
    BY DEF EntriesSound
  <2>1. /\ where[f][2] < Levels - 1 =>
             ts[f][k] \in DOMAIN ts /\ where[ts[f][k]] = PlaceBelow(where, f, k)
        /\ where[f][2] = Levels - 1 => Maps(ts, b, where, where[f][1], ts[f][k])
    BY DEF Trees, EntriesSound
  <2> QED
    BY <1>2, <1>4, <1>5, <2>1
<1>7. ParentsHold(ts, where2)
  <2> SUFFICES ASSUME NEW f \in DOMAIN ts, where2[f][2] > 0
               PROVE  \E g \in DOMAIN ts, k \in 0 .. Fanout - 1 :
                        ts[g][k] = f /\ where2[f] = PlaceBelow(where2, g, k)
    BY DEF ParentsHold
  <2>1. PICK g \in DOMAIN ts, k \in 0 .. Fanout - 1 :
          ts[g][k] = f /\ where[f] = PlaceBelow(where, g, k)
    BY <1>2 DEF Trees, ParentsHold
  <2> QED
    BY <1>2, <1>5, <2>1
<1> QED
  BY <1>1, <1>3, <1>4, <1>6, <1>7 DEF Trees

(* A new root.                                                             *)
LEMMA TreesRoot ==
  ASSUME NEW ts, NEW b \in Nat, NEW where, Trees(ts, b, where),
         NEW f \in Nat, f > 0, f >= b, NEW b2 \in Nat, f < b2, where[f] = <<f, 0, 0>>
  PROVE  /\ Trees(WithTable(ts, f), b2, where)
         /\ \A x : \A e \in Nat : Maps(ts, b, where, x, e) => Maps(WithTable(ts, f), b2, where, x, e)
<1> DEFINE ts2 == WithTable(ts, f)
<1>1. /\ Levels \in Nat \ {0} /\ Fanout \in Nat \ {0} /\ f \notin DOMAIN ts
      /\ DOMAIN ts2 = DOMAIN ts \cup {f}
      /\ \A g \in DOMAIN ts : ts2[g] = ts[g] /\ g # f
      /\ ts2[f] = EmptyTable /\ \A k \in 0 .. Fanout - 1 : ts2[f][k] = 0
  BY Constants DEF Trees, TablesTyped, WithTable, EmptyTable
<1>2. TablesTyped(ts2, b2)
  <2>1. \A g \in DOMAIN ts : ts2[g] \in [0 .. Fanout - 1 -> Nat] /\ g \in Nat /\ 0 < g /\ g < b2
    BY <1>1 DEF Trees, TablesTyped
  <2>2. EmptyTable \in [0 .. Fanout - 1 -> Nat]
    BY DEF EmptyTable
  <2>3. ts2 = [g \in DOMAIN ts2 |-> ts2[g]]
    BY DEF WithTable
  <2> HIDE DEF ts2
  <2> QED
    BY <1>1, <2>1, <2>2, <2>3 DEF TablesTyped
<1>3. \A x : \A e \in Nat : Maps(ts, b, where, x, e) => Maps(ts2, b2, where, x, e)
  <2> HIDE DEF ts2
  <2> QED
    BY <1>1 DEF Maps
<1> HIDE DEF ts2
<1>4. PlacesDiffer(ts2, where)
  <2>1. where[f][2] = 0 /\ where[f][1] = f
    OBVIOUS
  <2>2. \A g \in DOMAIN ts : where[g] # where[f]
    <3> SUFFICES ASSUME NEW g \in DOMAIN ts, where[g] = where[f] PROVE FALSE
      OBVIOUS
    <3>1. where[g] = <<g, 0, 0>>
      BY <2>1 DEF Trees, PlacesDiffer
    <3> QED
      BY <1>1, <3>1
  <2> QED
    BY <1>1, <2>1, <2>2 DEF Trees, PlacesDiffer
<1>5. EntriesSound(ts2, b2, where)
  <2> SUFFICES ASSUME NEW g \in DOMAIN ts2, NEW k \in 0 .. Fanout - 1, ts2[g][k] # 0
               PROVE  /\ where[g][2] < Levels - 1 =>
                           ts2[g][k] \in DOMAIN ts2 /\ where[ts2[g][k]] = PlaceBelow(where, g, k)
                      /\ where[g][2] = Levels - 1 => Maps(ts2, b2, where, where[g][1], ts2[g][k])
    BY DEF EntriesSound
  <2>1. g \in DOMAIN ts /\ ts2[g][k] = ts[g][k]
    BY <1>1
  <2>2. ts[g][k] \in Nat
    BY <2>1 DEF Trees, TablesTyped
  <2> QED
    BY <1>1, <1>3, <2>1, <2>2 DEF Trees, EntriesSound
<1>6. ParentsHold(ts2, where)
  <2> SUFFICES ASSUME NEW g \in DOMAIN ts2, where[g][2] > 0
               PROVE  \E h \in DOMAIN ts2, k \in 0 .. Fanout - 1 :
                        ts2[h][k] = g /\ where[g] = PlaceBelow(where, h, k)
    BY DEF ParentsHold
  <2>1. g \in DOMAIN ts
    BY <1>1
  <2>2. PICK h \in DOMAIN ts, k \in 0 .. Fanout - 1 :
          ts[h][k] = g /\ where[g] = PlaceBelow(where, h, k)
    BY <2>1 DEF Trees, ParentsHold
  <2> QED
    BY <1>1, <2>2
<1> QED
  BY <1>2, <1>3, <1>4, <1>5, <1>6 DEF Trees, ts2

(* Two entries have two places below them.                                 *)
LEMMA PlaceBelowDiffers ==
  ASSUME NEW ts, NEW b, NEW where, Trees(ts, b, where),
         NEW f \in DOMAIN ts, NEW g \in DOMAIN ts,
         NEW j \in 0 .. Fanout - 1, NEW k \in 0 .. Fanout - 1,
         PlaceBelow(where, f, j) = PlaceBelow(where, g, k)
  PROVE  f = g /\ j = k
<1>1. f \in Nat /\ g \in Nat /\ where \in Places
  BY DEF Trees, TablesTyped
<1>2. PICK c \in Nat, m \in Nat, v \in Nat : where[f] = <<c, m, v>>
  BY <1>1, PlaceIs
<1>3. PICK d \in Nat, n \in Nat, u \in Nat : where[g] = <<d, n, u>>
  BY <1>1, PlaceIs
<1>4. c = d /\ m + 1 = n + 1 /\ v * Fanout + j = u * Fanout + k
  BY <1>2, <1>3 DEF PlaceBelow
<1>5. v = u /\ j = k
  BY <1>4, LastDigit
<1>6. m = n
  <2>1. m + 1 = n + 1
    BY <1>4
  <2> QED
    BY <2>1
<1>7. where[f] = where[g]
  BY <1>2, <1>3, <1>4, <1>5, <1>6
<1> QED
  BY <1>5, <1>7 DEF Trees, PlacesDiffer

(* A new table below an empty entry.                                       *)
TableAdded(ts, ts2, b, f, k) == ts2 = WithTable([ts EXCEPT ![f][k] = b], b)
LEMMA TreesTable ==
  ASSUME NEW ts, NEW b \in Nat, NEW where, Trees(ts, b, where), b > 0,
         NEW f \in DOMAIN ts, NEW k \in 0 .. Fanout - 1,
         ts[f][k] = 0, where[f][2] < Levels - 1, where[b] = PlaceBelow(where, f, k),
         NEW ts2, TableAdded(ts, ts2, b, f, k)
  PROVE  /\ Trees(ts2, b + 1, where)
         /\ \A x : \A e \in Nat : Maps(ts, b, where, x, e) => Maps(ts2, b + 1, where, x, e)
         /\ DOMAIN ts2 = DOMAIN ts \cup {b} /\ b \notin DOMAIN ts
         /\ \A j \in 0 .. Fanout - 1 : ts2[b][j] = 0
         /\ \A g \in DOMAIN ts, j \in 0 .. Fanout - 1 :
              ts2[g][j] = IF g = f /\ j = k THEN b ELSE ts[g][j]
<1>1. /\ Levels \in Nat \ {0} /\ Fanout \in Nat \ {0} /\ b \notin DOMAIN ts
      /\ ts \in [DOMAIN ts -> [0 .. Fanout - 1 -> Nat]] /\ DOMAIN ts \subseteq Nat
      /\ where \in Places /\ \A g \in DOMAIN ts : g \in Nat /\ 0 < g /\ g < b /\ g # b
  BY Constants DEF Trees, TablesTyped
<1> DEFINE ts1 == [ts EXCEPT ![f][k] = b]
<1>2. ts1 \in [DOMAIN ts -> [0 .. Fanout - 1 -> Nat]]
  BY <1>1
<1>3. \A g \in DOMAIN ts, j \in 0 .. Fanout - 1 :
        ts1[g][j] = IF g = f /\ j = k THEN b ELSE ts[g][j]
  BY <1>1
<1>4. /\ DOMAIN ts1 = DOMAIN ts
      /\ DOMAIN ts2 = DOMAIN ts \cup {b}
      /\ \A g \in DOMAIN ts : ts2[g] = ts1[g]
      /\ ts2[b] = EmptyTable /\ ts2 = [g \in DOMAIN ts2 |-> ts2[g]]
  BY <1>1 DEF WithTable, TableAdded
<1> HIDE DEF ts1
<1>5. EmptyTable \in [0 .. Fanout - 1 -> Nat] /\ \A j \in 0 .. Fanout - 1 : EmptyTable[j] = 0
  BY DEF EmptyTable
<1>6. \A g \in DOMAIN ts, j \in 0 .. Fanout - 1 :
        ts2[g][j] = IF g = f /\ j = k THEN b ELSE ts[g][j]
  BY <1>3, <1>4
<1>7. TablesTyped(ts2, b + 1)
  <2>1. \A g \in DOMAIN ts2 : ts2[g] \in [0 .. Fanout - 1 -> Nat] /\ g \in Nat /\ 0 < g /\ g < b + 1
    BY <1>1, <1>2, <1>4, <1>5
  <2> QED
    BY <1>4, <2>1 DEF TablesTyped
<1>8. \A x : \A e \in Nat : Maps(ts, b, where, x, e) => Maps(ts2, b + 1, where, x, e)
  BY <1>1, <1>4 DEF Maps
<1>9. \A g \in DOMAIN ts : where[g] # where[b]
  <2> SUFFICES ASSUME NEW g \in DOMAIN ts, where[g] = PlaceBelow(where, f, k) PROVE FALSE
    OBVIOUS
  <2>1. where[f][2] \in Nat
    BY <1>1, PlaceIs
  <2>2. where[g][2] > 0
    BY <2>1 DEF PlaceBelow
  <2>3. PICK h \in DOMAIN ts, j \in 0 .. Fanout - 1 :
          ts[h][j] = g /\ where[g] = PlaceBelow(where, h, j)
    BY <2>2 DEF Trees, ParentsHold
  <2>4. h = f /\ j = k
    <3>1. PlaceBelow(where, h, j) = PlaceBelow(where, f, k)
      BY <2>3
    <3> QED
      BY <3>1, PlaceBelowDiffers
  <2> QED
    BY <1>1, <2>3, <2>4
<1>10. where[b][2] = where[f][2] + 1 /\ where[f][2] \in Nat /\ where[b][1] = where[f][1]
  BY <1>1, PlaceIs, SMTT(30) DEF PlaceBelow
<1>11. PlacesDiffer(ts2, where)
  <2>1. where[b][2] < Levels /\ where[b][2] # 0
    BY <1>1, <1>10
  <2> QED
    BY <1>4, <1>9, <2>1 DEF Trees, PlacesDiffer
<1>12. EntriesSound(ts2, b + 1, where)
  <2> SUFFICES ASSUME NEW g \in DOMAIN ts2, NEW j \in 0 .. Fanout - 1, ts2[g][j] # 0
               PROVE  /\ where[g][2] < Levels - 1 =>
                           ts2[g][j] \in DOMAIN ts2 /\ where[ts2[g][j]] = PlaceBelow(where, g, j)
                      /\ where[g][2] = Levels - 1 => Maps(ts2, b + 1, where, where[g][1], ts2[g][j])
    BY DEF EntriesSound
  <2>1. g \in DOMAIN ts
    BY <1>4, <1>5
  <2>2. CASE g = f /\ j = k
    BY <1>1, <1>4, <1>6, <1>10, <2>1, <2>2
  <2>3. CASE ~ (g = f /\ j = k)
    <3>1. ts2[g][j] = ts[g][j]
      BY <1>6, <2>1, <2>3
    <3>2. ts[g][j] \in Nat
      BY <1>1, <2>1
    <3> QED
      BY <1>4, <1>8, <2>1, <3>1, <3>2 DEF Trees, EntriesSound
  <2> QED
    BY <2>2, <2>3
<1>13. ParentsHold(ts2, where)
  <2> SUFFICES ASSUME NEW g \in DOMAIN ts2, where[g][2] > 0
               PROVE  \E h \in DOMAIN ts2, j \in 0 .. Fanout - 1 :
                        ts2[h][j] = g /\ where[g] = PlaceBelow(where, h, j)
    BY DEF ParentsHold
  <2>1. CASE g = b
    <3>1. ts2[f][k] = b /\ f \in DOMAIN ts2
      BY <1>4, <1>6
    <3> QED
      BY <2>1, <3>1
  <2>2. CASE g \in DOMAIN ts
    <3>1. PICK h \in DOMAIN ts, j \in 0 .. Fanout - 1 :
            ts[h][j] = g /\ where[g] = PlaceBelow(where, h, j)
      BY <2>2 DEF Trees, ParentsHold
    <3>2. ~ (h = f /\ j = k)
      BY <1>1, <2>2, <3>1
    <3>3. ts2[h][j] = g /\ h \in DOMAIN ts2
      BY <1>4, <1>6, <3>1, <3>2
    <3> QED
      BY <3>1, <3>3
  <2> QED
    BY <1>4, <2>1, <2>2
<1> QED
  BY <1>1, <1>4, <1>5, <1>6, <1>7, <1>8, <1>11, <1>12, <1>13 DEF Trees

(* A page mapped.                                                          *)
EntrySet(ts, ts2, f, k, e) == ts2 = [ts EXCEPT ![f][k] = e]
LEMMA TreesLeaf ==
  ASSUME NEW ts, NEW b \in Nat, NEW where, Trees(ts, b, where),
         NEW f \in DOMAIN ts, NEW k \in 0 .. Fanout - 1, NEW e \in Nat,
         where[f][2] = Levels - 1, Maps(ts, b, where, where[f][1], e),
         NEW ts2, EntrySet(ts, ts2, f, k, e)
  PROVE  /\ Trees(ts2, b, where) /\ DOMAIN ts2 = DOMAIN ts
         /\ \A g \in DOMAIN ts, j \in 0 .. Fanout - 1 :
              ts2[g][j] = IF g = f /\ j = k THEN e ELSE ts[g][j]
<1>1. /\ Levels \in Nat \ {0} /\ Fanout \in Nat \ {0}
      /\ ts \in [DOMAIN ts -> [0 .. Fanout - 1 -> Nat]]
  BY Constants DEF Trees, TablesTyped
<1>2. ts2 \in [DOMAIN ts -> [0 .. Fanout - 1 -> Nat]] /\ DOMAIN ts2 = DOMAIN ts
  BY <1>1 DEF EntrySet
<1>3. \A g \in DOMAIN ts, j \in 0 .. Fanout - 1 :
        ts2[g][j] = IF g = f /\ j = k THEN e ELSE ts[g][j]
  BY <1>1 DEF EntrySet
<1>4. TablesTyped(ts2, b)
  BY <1>2 DEF Trees, TablesTyped
<1>5. PlacesDiffer(ts2, where)
  BY <1>2 DEF Trees, PlacesDiffer
<1>6. EntriesSound(ts2, b, where)
  <2> SUFFICES ASSUME NEW g \in DOMAIN ts, NEW j \in 0 .. Fanout - 1, ts2[g][j] # 0
               PROVE  /\ where[g][2] < Levels - 1 =>
                           ts2[g][j] \in DOMAIN ts /\ where[ts2[g][j]] = PlaceBelow(where, g, j)
                      /\ where[g][2] = Levels - 1 => Maps(ts2, b, where, where[g][1], ts2[g][j])
    BY <1>2 DEF EntriesSound
  <2>1. \A x, y : Maps(ts2, b, where, x, y) = Maps(ts, b, where, x, y)
    BY <1>2 DEF Maps
  <2>2. CASE g = f /\ j = k
    BY <1>1, <1>3, <2>1, <2>2
  <2>3. CASE ~ (g = f /\ j = k)
    <3>1. ts2[g][j] = ts[g][j]
      BY <1>3, <2>3
    <3> QED
      BY <2>1, <3>1 DEF Trees, EntriesSound
  <2> QED
    BY <2>2, <2>3
<1>7. ParentsHold(ts2, where)
  <2> SUFFICES ASSUME NEW g \in DOMAIN ts, where[g][2] > 0
               PROVE  \E h \in DOMAIN ts, j \in 0 .. Fanout - 1 :
                        ts2[h][j] = g /\ where[g] = PlaceBelow(where, h, j)
    BY <1>2 DEF ParentsHold
  <2>1. PICK h \in DOMAIN ts, j \in 0 .. Fanout - 1 :
          ts[h][j] = g /\ where[g] = PlaceBelow(where, h, j)
    BY DEF Trees, ParentsHold
  <2>2. g \in Nat /\ h \in Nat /\ where \in Places
    BY DEF Trees, TablesTyped
  <2>3. where[h][2] \in Nat /\ where[h][2] + 1 = where[g][2] /\ where[g][2] < Levels
    <3>1. where[h][2] \in Nat
      BY <2>2, PlaceIs
    <3>2. where[g][2] = where[h][2] + 1
      BY <2>1 DEF PlaceBelow
    <3> QED
      BY <3>1, <3>2 DEF Trees, PlacesDiffer
  <2>4. h # f
    BY <1>1, <2>3, SMTT(30)
  <2> QED
    BY <1>3, <2>1, <2>4
<1> QED
  BY <1>2, <1>3, <1>4, <1>5, <1>6, <1>7 DEF Trees

-----------------------------------------------------------------------------
(* Requests                                                                *)

(* A request that map_pages() can carry out in the tree of root x.         *)
ReqFits(ts, b, where, x, q) ==
  /\ q.size > 0 /\ q.va % PageSize = 0 /\ q.va + q.size <= NrVPages * PageSize
  /\ \E c \in Nat :
       /\ q.pa = c * PageSize
       /\ \A j \in Nat : j * PageSize < q.size => Maps(ts, b, where, x, c + j)

(* Where the regions are.                                                  *)
LEMMA RegionsPlaced ==
  /\ USER_STACK_ADDR \in Nat /\ USER_STACK_ADDR % PageSize = 0
  /\ USER_STACK_ADDR + StackSize <= NrVPages * PageSize
  /\ PERIPHERAL_BASE \in Nat /\ PERIPHERAL_BASE % PageSize = 0
  /\ PERIPHERAL_BASE + PageSize <= USER_STACK_ADDR
  /\ NrVPages * PageSize \in Nat
  /\ \A s \in ProgSizes : s \in Nat /\ s > 0 /\ s <= PERIPHERAL_BASE
<1>1. /\ PageSize \in Nat \ {0} /\ StackSize \in Nat \ {0} /\ NrFrames \in Nat \ {0}
      /\ Levels \in Nat \ {0}
  BY Constants
<1>2. NrVPages \in Nat \ {0}
  BY <1>1, PagesUnderIs DEF NrVPages
<1>3. PICK m \in Int : m = NrVPages - 1
  BY <1>2
<1>4. PICK p \in Int : p = m * PageSize
  BY <1>1
<1>5. USER_STACK_ADDR = p - StackSize
  BY <1>3, <1>4 DEF USER_STACK_ADDR
<1>6. PICK r \in Nat : r = NrFrames * PageSize /\ r = PERIPHERAL_BASE
  BY <1>1 DEF PERIPHERAL_BASE
<1>7. r + PageSize <= p - StackSize
  BY <1>5, <1>6, AddrSpaceAssumption
<1>8. p % PageSize = 0 /\ r % PageSize = 0
  <2>1. NrFrames \in Int
    BY <1>1
  <2> QED
    BY <1>1, <1>4, <1>6, <2>1, Multiple
<1>9. (p - StackSize) % PageSize = 0
  <2>1. StackSize % PageSize = 0 /\ StackSize \in Int
    BY <1>1, AddrSpaceAssumption
  <2> QED
    BY <1>1, <1>8, <2>1, Multiples
<1>10. NrVPages * PageSize = p + PageSize
  <2>1. NrVPages = m + 1
    BY <1>2, <1>3
  <2>2. (m + 1) * PageSize = m * PageSize + PageSize
    BY <1>1
  <2> QED
    BY <1>4, <2>1, <2>2
<1>11. \A s \in ProgSizes : s \in Nat /\ s >= PageSize /\ s <= r
  BY <1>6, AddrSpaceAssumption
<1> QED
  BY <1>1, <1>5, <1>6, <1>7, <1>8, <1>9, <1>10, <1>11

(* The block of kmalloc(size) at f is of the tree of x, and no table.      *)
GivenTo(ts, b, where, x, f, size) ==
  \A e \in f .. f + BlockLen(size) - 1 : e < b /\ e \notin DOMAIN ts /\ where[e][1] = x

(* A request for a block whose frames are given to the tree.               *)
LEMMA BlockFits ==
  ASSUME NEW ts, NEW b, NEW where, NEW x,
         NEW size \in Nat, size > 0, size <= BlockLen(size) * PageSize,
         NEW c \in Nat, NEW va \in Nat, va % PageSize = 0, va + size <= NrVPages * PageSize,
         GivenTo(ts, b, where, x, c, size)
  PROVE  ReqFits(ts, b, where, x, Request(va, size, c * PageSize))
<1>1. PageSize \in Nat \ {0}
  BY Constants
<1>2. PICK n \in Nat \ {0} : n = BlockLen(size)
  BY BlockLenIs
<1>3. ASSUME NEW j \in Nat, j * PageSize < size PROVE Maps(ts, b, where, x, c + j)
  <2>1. j * PageSize < n * PageSize
    <3>1. PICK u \in Nat, v \in Nat : u = j * PageSize /\ v = n * PageSize
      BY <1>1
    <3>2. u < size /\ size <= v
      BY <1>2, <1>3, <3>1
    <3> QED
      BY <3>1, <3>2
  <2>2. ~ (j >= n)
    <3> SUFFICES ASSUME j >= n PROVE FALSE
      OBVIOUS
    <3>1. j * PageSize >= n * PageSize
      BY <1>1
    <3>2. j * PageSize \in Nat /\ n * PageSize \in Nat
      BY <1>1
    <3> QED
      BY <2>1, <3>1, <3>2
  <2>3. c + j \in c .. c + n - 1
    BY <2>2
  <2> QED
    BY <1>2, <2>3 DEF Maps, GivenTo
<1> QED
  BY <1>3 DEF ReqFits, Request

(* The request for the peripherals, above RAM.                             *)
LEMMA PeripheralFits ==
  ASSUME NEW ts, NEW b, NEW where, NEW x
  PROVE  ReqFits(ts, b, where, x, Request(PERIPHERAL_BASE, PageSize, PERIPHERAL_BASE))
<1>1. PageSize \in Nat \ {0} /\ NrFrames \in Nat \ {0} /\ StackSize \in Nat \ {0}
  BY Constants
<1>2. PERIPHERAL_BASE + PageSize <= NrVPages * PageSize
  <2>1. PICK p \in Nat, s \in Nat, v \in Nat :
          p = PERIPHERAL_BASE /\ s = USER_STACK_ADDR /\ v = NrVPages * PageSize
    BY RegionsPlaced
  <2>2. s + StackSize <= v /\ p + PageSize <= s
    BY <2>1, RegionsPlaced
  <2> QED
    BY <1>1, <2>1, <2>2
<1>3. \A j \in Nat : Maps(ts, b, where, x, NrFrames + j)
  BY <1>1 DEF Maps
<1> QED
  BY <1>1, <1>2, <1>3, RegionsPlaced DEF ReqFits, Request, PERIPHERAL_BASE

(* What a tree may map, it may map later.                                  *)
LEMMA ReqFitsLater ==
  ASSUME NEW ts, NEW b, NEW where, NEW ts2, NEW b2, NEW where2, NEW x,
         \A e \in Nat : Maps(ts, b, where, x, e) => Maps(ts2, b2, where2, x, e),
         NEW q, ReqFits(ts, b, where, x, q)
  PROVE  ReqFits(ts2, b2, where2, x, q)
<1>1. PICK c \in Nat :
       /\ q.pa = c * PageSize
       /\ \A j \in Nat : j * PageSize < q.size => Maps(ts, b, where, x, c + j)
  BY DEF ReqFits
<1>2. \A j \in Nat : j * PageSize < q.size => Maps(ts2, b2, where2, x, c + j)
  <2> SUFFICES ASSUME NEW j \in Nat, j * PageSize < q.size PROVE Maps(ts2, b2, where2, x, c + j)
    OBVIOUS
  <2>1. c + j \in Nat /\ Maps(ts, b, where, x, c + j)
    BY <1>1
  <2> QED
    BY <2>1
<1> QED
  BY <1>1, <1>2 DEF ReqFits

-----------------------------------------------------------------------------
(* The inductive invariant                                                 *)

Requests == [va : Nat, size : Nat, pa : Nat]
Ops ==
  [kind : {"exec", "fork"}, task : Tasks, parent : Tasks, image : Values \cup {0},
   pgd : Nat, reqs : Seq(Requests), i : Nat, table : Nat, level : 0 .. Levels - 1]
TypeOK ==
  /\ state \in [Tasks -> {"stopped", "kernel", "user"}]
  /\ pgd \in [Tasks -> Nat]
  /\ mm \in [Tasks -> [prog_addr : Nat, prog_sz : Nat]]
  /\ mem = [w \in Words |-> mem[w]]
  /\ brk \in Nat \ {0}
  /\ op = Idle \/ op \in Ops

(* A task that has been launched, or is being launched, has a program.     *)
Programs ==
  /\ \A t \in Tasks : state[t] = "user" => mm[t].prog_sz \in ProgSizes
  /\ op # Idle => mm[op.task].prog_sz \in ProgSizes

(* The page tables of the tasks are roots, each of one task, and so is the *)
(* table of the launch under way.                                          *)
RootsOwned(where) ==
  /\ \A t \in Tasks : pgd[t] # 0 => pgd[t] \in DOMAIN tables /\ where[pgd[t]][2] = 0
  /\ \A t, u \in Tasks : t # u /\ pgd[t] # 0 => pgd[t] # pgd[u]
LaunchRooted(where) ==
  op # Idle =>
    /\ op.pgd \in DOMAIN tables /\ where[op.pgd][2] = 0
    /\ op.kind = "exec" => pgd[op.task] = op.pgd
    /\ op.kind = "fork" => \A t \in Tasks : pgd[t] # op.pgd
RequestsFit(where) ==
  op # Idle => \A k \in 1 .. Len(op.reqs) : ReqFits(tables, brk, where, op.pgd, op.reqs[k])

(* walk() is at the table of the path of the page being mapped.            *)
WalkPlaced(where) ==
  Mapping =>
    /\ op.i < Req.size /\ \E j \in Nat : op.i = j * PageSize
    /\ op.table \in DOMAIN tables /\ where[op.table] = OnPath(op.pgd, Req.va + op.i, op.level)

Layout(where) ==
  /\ Trees(tables, brk, where)
  /\ RootsOwned(where) /\ LaunchRooted(where) /\ RequestsFit(where) /\ WalkPlaced(where)
IndInv == TypeOK /\ Programs /\ \E where : Layout(where)

(* Two placements that agree on the frames handed out.                     *)
Agree(where, where2) == \A f \in Nat : f < brk => where2[f] = where[f]

(* The hypothesis on the sizes: the order that kmalloc() computes is large *)
(* enough for each of them.                                                *)
SizesFit == \A s \in ProgSizes \cup {StackSize} : s <= BlockLen(s) * PageSize

(* No launch is Idle.                                                      *)
LEMMA OpIs ==
  ASSUME NEW o \in Ops
  PROVE  o # Idle
BY DEF Ops, Idle

(* A launch begins at the root.                                            *)
Launched(o, kind, task, parent, image, table, q1, q2, q3) ==
  /\ o \in Ops /\ o.kind = kind /\ o.task = task /\ o.parent = parent /\ o.image = image
  /\ o.pgd = table /\ o.table = table /\ o.i = 0 /\ o.level = 0
  /\ o.reqs = <<q1, q2, q3>> /\ Len(o.reqs) = 3 /\ o.reqs # <<>>
  /\ o.reqs[1] = q1 /\ o.reqs[2] = q2 /\ o.reqs[3] = q3
LEMMA LaunchIs ==
  ASSUME NEW kind \in {"exec", "fork"}, NEW task \in Tasks, NEW parent \in Tasks,
         NEW image \in Values \cup {0}, NEW table \in Nat,
         NEW q1 \in Requests, NEW q2 \in Requests, NEW q3 \in Requests
  PROVE  Launched(Launch(kind, task, parent, image, table, <<q1, q2, q3>>),
                  kind, task, parent, image, table, q1, q2, q3)
<1>1. 0 \in 0 .. Levels - 1
  BY Constants
<1>2. <<q1, q2, q3>> \in Seq(Requests) /\ Len(<<q1, q2, q3>>) = 3
  OBVIOUS
<1>3. <<q1, q2, q3>> # <<>>
  BY <1>2
<1> QED
  BY <1>1, <1>2, <1>3 DEF Launch, Launched, Ops

(* The invariant holds at first.                                           *)
LEMMA IndInvInit == Init => IndInv
<1> SUFFICES ASSUME Init PROVE IndInv
  OBVIOUS
<1>1. TypeOK
  BY DEF Init, TypeOK
<1>2. Programs
  BY DEF Init, Programs
<1> DEFINE w == [f \in Nat |-> <<0, 0, 0>>]
<1>3. DOMAIN tables = {} /\ tables = [f \in {} |-> EmptyTable] /\ op = Idle
  BY DEF Init
<1>4. w \in Places
  BY DEF Places
<1>5. Trees(tables, brk, w)
  <2>1. TablesTyped(tables, brk)
    BY <1>3 DEF TablesTyped
  <2>2. PlacesDiffer(tables, w) /\ EntriesSound(tables, brk, w) /\ ParentsHold(tables, w)
    BY <1>3 DEF PlacesDiffer, EntriesSound, ParentsHold
  <2> QED
    BY <1>4, <2>1, <2>2 DEF Trees
<1>6. RootsOwned(w)
  BY DEF Init, RootsOwned
<1>7. LaunchRooted(w) /\ RequestsFit(w) /\ WalkPlaced(w)
  BY <1>3 DEF LaunchRooted, RequestsFit, WalkPlaced, Mapping
<1>8. Layout(w)
  BY <1>5, <1>6, <1>7 DEF Layout
<1> QED
  BY <1>1, <1>2, <1>8 DEF IndInv

(* What holds inside map_pages().                                          *)
LEMMA MappingIs ==
  ASSUME TypeOK, NEW where, Layout(where), Mapping
  PROVE  /\ op \in Ops /\ op # Idle /\ op.reqs \in Seq(Requests) /\ Len(op.reqs) \in Nat \ {0}
         /\ Req \in Requests /\ Req.va + op.i \in Nat /\ Req.va + op.i < NrVPages * PageSize
         /\ ReqFits(tables, brk, where, op.pgd, Req)
         /\ op.level \in 0 .. Levels - 1 /\ op.level \in Nat /\ Idx \in 0 .. Fanout - 1
         /\ op.table \in DOMAIN tables /\ op.pgd \in DOMAIN tables /\ op.table \in Nat
         /\ where[op.table] = OnPath(op.pgd, Req.va + op.i, op.level)
         /\ where[op.table][1] = op.pgd /\ where[op.table][2] = op.level
         /\ op.i \in Nat /\ op.i < Req.size
<1>1. op # Idle /\ op.reqs # <<>> /\ op \in Ops
  BY DEF Mapping, TypeOK
<1>2. op.reqs \in Seq(Requests) /\ op.i \in Nat /\ op.level \in 0 .. Levels - 1 /\ op.level \in Nat
  BY <1>1, Constants DEF Ops
<1>3. Len(op.reqs) \in Nat \ {0} /\ op.reqs[1] \in Requests
  BY <1>1, <1>2
<1>4. Req \in Requests /\ Req.va \in Nat /\ Req.size \in Nat
  BY <1>3 DEF Req, Requests
<1>5. ReqFits(tables, brk, where, op.pgd, Req)
  <2>1. 1 \in 1 .. Len(op.reqs)
    BY <1>3
  <2> QED
    BY <1>1, <2>1 DEF Layout, RequestsFit, Req
<1>6. /\ op.i < Req.size /\ op.table \in DOMAIN tables
      /\ where[op.table] = OnPath(op.pgd, Req.va + op.i, op.level)
  BY DEF Layout, WalkPlaced
<1>7. Req.va + op.i \in Nat /\ Req.va + op.i < NrVPages * PageSize
  <2>1. PICK v \in Nat : v = NrVPages * PageSize
    BY RegionsPlaced
  <2>2. Req.va + Req.size <= v
    BY <1>5, <2>1 DEF ReqFits
  <2> QED
    BY <1>2, <1>4, <1>6, <2>1, <2>2
<1>8. Idx \in 0 .. Fanout - 1
  BY <1>2, <1>7, PrefixStep DEF Idx
<1>9. op.pgd \in DOMAIN tables /\ op.table \in Nat
  BY <1>1, <1>6 DEF Layout, LaunchRooted, Trees, TablesTyped
<1> QED
  BY <1>1, <1>2, <1>3, <1>4, <1>5, <1>6, <1>7, <1>8, <1>9 DEF OnPath

(* A level of walk() that exists already.                                  *)
LEMMA WalkDownKeeps ==
  ASSUME TypeOK, Programs, NEW where, Layout(where), WalkDown
  PROVE  TypeOK' /\ Programs' /\ Layout(where)'
<1>1. Mapping /\ op.level < Levels - 1 /\ tables[op.table][Idx] # 0
  BY DEF WalkDown
<1>2. PICK va \in Nat, l \in 0 .. Levels - 2, f \in DOMAIN tables, e \in Nat :
        /\ va = Req.va + op.i /\ l = op.level /\ f = op.table
        /\ e = tables[f][IndexOf(va, l)] /\ e # 0 /\ tables[f][Idx] = e
        /\ where[f] = OnPath(op.pgd, va, l)
  <2>1. PICK va \in Nat, l \in 0 .. Levels - 2, f \in DOMAIN tables :
          /\ va = Req.va + op.i /\ l = op.level /\ f = op.table /\ Idx = IndexOf(va, l)
          /\ where[f] = OnPath(op.pgd, va, l) /\ Idx \in 0 .. Fanout - 1
    BY <1>1, MappingIs, Constants DEF Idx
  <2>2. tables[f][Idx] \in Nat
    BY <2>1 DEF Layout, Trees, TablesTyped
  <2> QED
    BY <1>1, <2>1, <2>2
<1>3. Trees(tables, brk, where)
  BY DEF Layout
<1>4. e \in DOMAIN tables /\ where[e] = OnPath(op.pgd, va, l + 1)
  <2>1. \E g \in DOMAIN tables : /\ g = tables[f][IndexOf(va, l)]
                                  /\ where[g] = OnPath(op.pgd, va, l + 1)
    <3>1. f \in DOMAIN tables /\ where[f] = OnPath(op.pgd, va, l)
      BY <1>2
    <3>2. /\ tables[f][IndexOf(va, l)] = 0 =>
                \A g \in DOMAIN tables : where[g] # OnPath(op.pgd, va, l + 1)
          /\ tables[f][IndexOf(va, l)] # 0 =>
                \E g \in DOMAIN tables : /\ g = tables[f][IndexOf(va, l)]
                                         /\ where[g] = OnPath(op.pgd, va, l + 1)
      BY <1>3, <3>1, PathStep, SMTT(60)
    <3> QED
      BY <1>2, <3>2
  <2> QED
    BY <1>2, <2>1
<1>5. e \in Nat
  BY <1>3, <1>4 DEF Trees, TablesTyped
<1>6. op' = [op EXCEPT !.table = e, !.level = @ + 1]
  BY <1>2 DEF WalkDown
<1>7. op \in Ops /\ op # Idle
  BY <1>1, MappingIs
<1>8. op.level + 1 \in 0 .. Levels - 1
  BY <1>2, Constants
<1>9. /\ op' \in Ops /\ op'.table = e /\ op'.level = l + 1
      /\ op'.kind = op.kind /\ op'.task = op.task /\ op'.pgd = op.pgd
      /\ op'.reqs = op.reqs /\ op'.i = op.i
  BY <1>2, <1>5, <1>6, <1>7, <1>8 DEF Ops
<1>10. op' # Idle
  BY <1>9, OpIs
<1>11. UNCHANGED <<state, pgd, mm, tables, mem, brk, stores>>
  BY DEF WalkDown
<1>12. TypeOK'
  BY <1>9, <1>11 DEF TypeOK
<1>13. Programs'
  BY <1>7, <1>9, <1>11 DEF Programs
<1>14. Trees(tables, brk, where)'
  BY <1>3, <1>11
<1>15. RootsOwned(where)'
  BY <1>11 DEF Layout, RootsOwned
<1>16. LaunchRooted(where)'
  BY <1>7, <1>9, <1>11 DEF Layout, LaunchRooted
<1>17. RequestsFit(where)'
  BY <1>7, <1>9, <1>11 DEF Layout, RequestsFit
<1>18. Req' = Req
  BY <1>9 DEF Req
<1>19. WalkPlaced(where)'
  <2>1. op.i < Req.size /\ \E j \in Nat : op.i = j * PageSize
    BY <1>1 DEF Layout, WalkPlaced
  <2> QED
    BY <1>2, <1>4, <1>9, <1>11, <1>18, <2>1 DEF WalkPlaced
<1> QED
  BY <1>12, <1>13, <1>14, <1>15, <1>16, <1>17, <1>19 DEF Layout

(* A root is on every path of its tree.                                    *)
LEMMA RootPlaced ==
  ASSUME NEW ts, NEW b, NEW where, Trees(ts, b, where),
         NEW x \in DOMAIN ts, where[x][2] = 0, NEW va \in Nat, va < NrVPages * PageSize
  PROVE  where[x] = OnPath(x, va, 0)
BY PrefixEnds DEF Trees, PlacesDiffer, OnPath

(* A level of walk() that is added.                                        *)
LEMMA WalkNewTableKeeps ==
  ASSUME TypeOK, Programs, NEW where, Layout(where), WalkNewTable
  PROVE  TypeOK' /\ Programs' /\ \E where2 : Layout(where2)' /\ Agree(where, where2)
<1>1. Mapping /\ op.level < Levels - 1 /\ tables[op.table][Idx] = 0
  BY DEF WalkNewTable
<1>2. /\ op \in Ops /\ op # Idle /\ Idx \in 0 .. Fanout - 1 /\ op.level \in Nat
      /\ op.table \in DOMAIN tables /\ op.table \in Nat
      /\ where[op.table] = OnPath(op.pgd, Req.va + op.i, op.level)
      /\ where[op.table][1] = op.pgd /\ where[op.table][2] = op.level
      /\ Req.va + op.i \in Nat /\ op.level \in 0 .. Levels - 1
      /\ op.level + 1 \in 0 .. Levels - 1
  <2>1. op.level \in Nat /\ op.level + 1 \in 0 .. Levels - 1
    BY <1>1, MappingIs, Constants
  <2> QED
    BY <1>1, <2>1, MappingIs
<1>3. Trees(tables, brk, where) /\ brk \in Nat /\ brk > 0
  BY DEF Layout, TypeOK
<1>4. PICK k \in 0 .. Fanout - 1, f \in DOMAIN tables : k = Idx /\ f = op.table
  BY <1>2
<1>5. where \in Places /\ f \in Nat /\ f < brk /\ \A g \in DOMAIN tables : g \in Nat /\ g < brk
  BY <1>3 DEF Trees, TablesTyped
<1>6. PlaceBelow(where, f, k) = OnPath(op.pgd, Req.va + op.i, op.level + 1)
  <2>1. PICK va \in Nat, l \in 0 .. Levels - 1 : va = Req.va + op.i /\ l = op.level
    BY <1>2
  <2>2. k = IndexOf(va, l)
    BY <1>4, <2>1 DEF Idx
  <2>3. Prefix(va, l + 1) = Prefix(va, l) * Fanout + k
    BY <2>2, PrefixStep
  <2>4. where[f] = OnPath(op.pgd, va, l)
    BY <1>2, <1>4, <2>1
  <2> QED
    BY <2>1, <2>3, <2>4 DEF PlaceBelow, OnPath
<1>7. PlaceBelow(where, f, k) \in Nat \X Nat \X Nat
  <2>1. PICK c \in Nat, m \in Nat, v \in Nat : where[f] = <<c, m, v>>
    BY <1>5, PlaceIs
  <2>2. m + 1 \in Nat /\ v * Fanout + k \in Nat
    BY Constants
  <2> QED
    BY <2>1, <2>2 DEF PlaceBelow
<1>8. PICK where2 \in Places : where2 = [where EXCEPT ![brk] = PlaceBelow(where, f, k)]
  BY <1>5, <1>7 DEF Places
<1>9. /\ \A g \in Nat : g < brk => where2[g] = where[g]
      /\ where2[brk] = PlaceBelow(where, f, k)
  BY <1>3, <1>5, <1>8 DEF Places
<1>10. /\ Trees(tables, brk, where2)
       /\ \A x : \A e \in Nat : Maps(tables, brk, where, x, e) => Maps(tables, brk, where2, x, e)
  <2>1. brk <= brk
    BY <1>3
  <2> QED
    BY <1>3, <1>9, <2>1, TreesGrow
<1>11. where2[brk] = PlaceBelow(where2, f, k) /\ where2[f][2] < Levels - 1
  BY <1>1, <1>2, <1>4, <1>5, <1>9 DEF PlaceBelow
<1>12. TableAdded(tables, tables', brk, f, k) /\ brk' = brk + 1
  BY <1>4 DEF WalkNewTable, TableAdded
<1>13. tables[f][k] = 0
  BY <1>1, <1>4
<1>14. /\ Trees(tables', brk + 1, where2) /\ DOMAIN tables' = DOMAIN tables \cup {brk}
       /\ \A x : \A e \in Nat : Maps(tables, brk, where2, x, e) => Maps(tables', brk + 1, where2, x, e)
  BY <1>3, <1>10, <1>11, <1>12, <1>13, TreesTable
<1>15. op' = [op EXCEPT !.table = brk, !.level = @ + 1]
  BY DEF WalkNewTable
<1>16. /\ op' \in Ops /\ op'.table = brk /\ op'.level = op.level + 1
       /\ op'.kind = op.kind /\ op'.task = op.task /\ op'.pgd = op.pgd
       /\ op'.reqs = op.reqs /\ op'.i = op.i
  BY <1>2, <1>3, <1>15 DEF Ops
<1>17. op' # Idle
  BY <1>16, OpIs
<1>18. UNCHANGED <<state, pgd, mm, mem, stores>>
  BY DEF WalkNewTable
<1>19. TypeOK'
  BY <1>3, <1>12, <1>16, <1>18 DEF TypeOK
<1>20. Programs'
  BY <1>2, <1>16, <1>18 DEF Programs
<1>21. Trees(tables, brk, where2)'
  BY <1>12, <1>14
<1>22. RootsOwned(where2)'
  BY <1>5, <1>9, <1>14, <1>18 DEF Layout, RootsOwned
<1>23. LaunchRooted(where2)'
  BY <1>2, <1>5, <1>9, <1>14, <1>16, <1>18 DEF Layout, LaunchRooted
<1>24. RequestsFit(where2)'
  <2> SUFFICES ASSUME NEW n \in 1 .. Len(op'.reqs)
               PROVE  ReqFits(tables', brk', where2, op'.pgd, op'.reqs[n])
    BY DEF RequestsFit
  <2>1. ReqFits(tables, brk, where, op.pgd, op.reqs[n])
    BY <1>2, <1>16 DEF Layout, RequestsFit
  <2>2. \A e \in Nat : Maps(tables, brk, where, op.pgd, e) => Maps(tables', brk + 1, where2, op.pgd, e)
    BY <1>10, <1>14
  <2>3. ReqFits(tables', brk + 1, where2, op.pgd, op.reqs[n])
    BY <2>1, <2>2, ReqFitsLater
  <2> QED
    BY <1>12, <1>16, <2>3
<1>25. Req' = Req
  BY <1>16 DEF Req
<1>26. WalkPlaced(where2)'
  <2>1. op.i < Req.size /\ \E j \in Nat : op.i = j * PageSize
    BY <1>1 DEF Layout, WalkPlaced
  <2>2. op'.table \in DOMAIN tables' /\ where2[op'.table] = OnPath(op'.pgd, Req'.va + op'.i, op'.level)
    BY <1>6, <1>9, <1>14, <1>16, <1>25
  <2> QED
    BY <1>16, <1>25, <2>1, <2>2 DEF WalkPlaced
<1>27. Layout(where2)' /\ Agree(where, where2)
  BY <1>9, <1>21, <1>22, <1>23, <1>24, <1>26 DEF Layout, Agree
<1> QED
  BY <1>19, <1>20, <1>27

(* The page of the request that op.i is at.                                *)
LEMMA LeafFrame ==
  ASSUME TypeOK, NEW where, Layout(where), Mapping
  PROVE  /\ (Req.pa + op.i) \div PageSize \in Nat
         /\ ((Req.pa + op.i) \div PageSize) * PageSize = Req.pa + op.i
         /\ Maps(tables, brk, where, op.pgd, (Req.pa + op.i) \div PageSize)
<1>1. PICK c \in Nat :
        /\ Req.pa = c * PageSize
        /\ \A j \in Nat : j * PageSize < Req.size => Maps(tables, brk, where, op.pgd, c + j)
  BY MappingIs DEF ReqFits
<1>2. PICK j \in Nat : op.i = j * PageSize
  BY DEF Layout, WalkPlaced
<1>3. op.i < Req.size
  BY MappingIs
<1>4. PageSize \in Nat \ {0}
  BY Constants
<1>5. (c + j) * PageSize = c * PageSize + j * PageSize
  BY <1>4
<1>6. Req.pa + op.i = (c + j) * PageSize + 0
  <2>1. (c + j) * PageSize \in Nat
    BY <1>4
  <2> QED
    BY <1>1, <1>2, <1>5, <2>1
<1>7. (Req.pa + op.i) \div PageSize = c + j
  <2>1. c + j \in Nat /\ 0 \in 0 .. PageSize - 1
    BY <1>4
  <2> QED
    BY <1>6, <2>1, PageOf
<1>8. Maps(tables, brk, where, op.pgd, c + j)
  BY <1>1, <1>2, <1>3
<1>9. (c + j) * PageSize = Req.pa + op.i
  BY <1>1, <1>2, <1>5
<1> QED
  BY <1>7, <1>8, <1>9

(* The last level of walk(), and the loop of map_pages().                  *)
LEMMA WalkLeafKeeps ==
  ASSUME TypeOK, Programs, NEW where, Layout(where), WalkLeaf
  PROVE  TypeOK' /\ Programs' /\ Layout(where)'
<1>1. Mapping /\ op.level = Levels - 1
  BY DEF WalkLeaf
<1>2. /\ op \in Ops /\ op # Idle /\ op.reqs \in Seq(Requests) /\ Len(op.reqs) \in Nat \ {0}
      /\ Req \in Requests /\ Idx \in 0 .. Fanout - 1
      /\ op.table \in DOMAIN tables /\ op.pgd \in DOMAIN tables
      /\ where[op.table][1] = op.pgd /\ where[op.table][2] = op.level
      /\ op.i \in Nat /\ op.i < Req.size
  BY <1>1, MappingIs
<1>3. Trees(tables, brk, where) /\ brk \in Nat
  BY DEF Layout, TypeOK
<1>4. PICK e \in Nat, k \in 0 .. Fanout - 1, f \in DOMAIN tables :
        /\ e = (Req.pa + op.i) \div PageSize /\ k = Idx /\ f = op.table
        /\ Maps(tables, brk, where, op.pgd, e)
  BY <1>1, <1>2, LeafFrame
<1>5. where[f][2] = Levels - 1 /\ Maps(tables, brk, where, where[f][1], e)
  BY <1>1, <1>2, <1>4
<1>6. EntrySet(tables, tables', f, k, e)
  BY <1>4 DEF WalkLeaf, EntrySet
<1>7. Trees(tables', brk, where) /\ DOMAIN tables' = DOMAIN tables
  BY <1>3, <1>5, <1>6, TreesLeaf
<1>8. UNCHANGED <<state, pgd, mm, mem, brk, stores>>
  BY DEF WalkLeaf
<1>9. PageSize \in Nat \ {0} /\ op.i + PageSize \in Nat /\ 0 \in 0 .. Levels - 1
  BY <1>2, Constants
<1>10. op.pgd \in Nat
  BY <1>2 DEF Ops
<1>11. \A q : ReqFits(tables', brk', where, op.pgd, q) = ReqFits(tables, brk, where, op.pgd, q)
  BY <1>7, <1>8 DEF ReqFits, Maps
<1>12. where[op.pgd][2] = 0
  BY <1>2 DEF Layout, LaunchRooted
<1>13. /\ op' \in Ops /\ op'.table = op.pgd /\ op'.level = 0
       /\ op'.kind = op.kind /\ op'.task = op.task /\ op'.pgd = op.pgd
       /\ IF op.i + PageSize < Req.size
          THEN op'.reqs = op.reqs /\ op'.i = op.i + PageSize
          ELSE op'.reqs = Tail(op.reqs) /\ op'.i = 0
  <2>1. CASE op.i + PageSize < Req.size
    <3>1. op' = [op EXCEPT !.i = op.i + PageSize, !.table = op.pgd, !.level = 0]
      BY <2>1 DEF WalkLeaf, NextPage
    <3> QED
      BY <1>2, <1>9, <1>10, <2>1, <3>1 DEF Ops
  <2>2. CASE ~ (op.i + PageSize < Req.size)
    <3>1. op' = [op EXCEPT !.reqs = Tail(@), !.i = 0, !.table = op.pgd, !.level = 0]
      BY <2>2 DEF WalkLeaf
    <3>2. Tail(op.reqs) \in Seq(Requests)
      BY <1>2
    <3> QED
      BY <1>2, <1>9, <1>10, <2>2, <3>1, <3>2 DEF Ops
  <2> QED
    BY <2>1, <2>2
<1>14. op' # Idle
  BY <1>13, OpIs
<1>15. TypeOK'
  BY <1>8, <1>13 DEF TypeOK
<1>16. Programs'
  BY <1>2, <1>8, <1>13 DEF Programs
<1>17. Trees(tables, brk, where)'
  BY <1>7, <1>8
<1>18. RootsOwned(where)'
  BY <1>7, <1>8 DEF Layout, RootsOwned
<1>19. LaunchRooted(where)'
  BY <1>2, <1>7, <1>8, <1>13 DEF Layout, LaunchRooted
<1>20. RequestsFit(where)'
  <2> SUFFICES ASSUME NEW n \in 1 .. Len(op'.reqs)
               PROVE  ReqFits(tables', brk', where, op'.pgd, op'.reqs[n])
    BY DEF RequestsFit
  <2>1. PICK m \in 1 .. Len(op.reqs) : op'.reqs[n] = op.reqs[m]
    <3>1. CASE op'.reqs = op.reqs
      BY <3>1
    <3>2. CASE op'.reqs = Tail(op.reqs)
      <4>1. PICK rs \in Seq(Requests) : rs = op.reqs /\ Len(rs) \in Nat \ {0}
        BY <1>2
      <4>2. n \in 1 .. Len(Tail(rs))
        BY <3>2, <4>1
      <4>3. n + 1 \in 1 .. Len(rs) /\ Tail(rs)[n] = rs[n + 1]
        BY <4>1, <4>2
      <4> QED
        BY <3>2, <4>1, <4>3
    <3> QED
      BY <1>13, <3>1, <3>2
  <2>2. ReqFits(tables, brk, where, op.pgd, op.reqs[m])
    BY <1>2 DEF Layout, RequestsFit
  <2> QED
    BY <1>11, <1>13, <2>1, <2>2
<1>21. WalkPlaced(where)'
  <2> SUFFICES ASSUME op'.reqs # <<>>
               PROVE  /\ op'.i < Req'.size /\ \E j \in Nat : op'.i = j * PageSize
                      /\ op'.table \in DOMAIN tables'
                      /\ where[op'.table] = OnPath(op'.pgd, Req'.va + op'.i, op'.level)
    BY DEF WalkPlaced, Mapping
  <2>1. op'.i < Req'.size /\ \E j \in Nat : op'.i = j * PageSize
    <3>1. CASE op.i + PageSize < Req.size
      <4>1. PICK j \in Nat : op.i = j * PageSize
        BY <1>1 DEF Layout, WalkPlaced
      <4>2. (j + 1) * PageSize = op.i + PageSize /\ j + 1 \in Nat
        <5>1. (j + 1) * PageSize = j * PageSize + PageSize
          BY <1>9
        <5> QED
          BY <4>1, <5>1
      <4>3. Req' = Req
        BY <1>13, <3>1 DEF Req
      <4> QED
        BY <1>13, <3>1, <4>2, <4>3
    <3>2. CASE ~ (op.i + PageSize < Req.size)
      <4>1. op'.i = 0 /\ op'.reqs = Tail(op.reqs) /\ Req' = op'.reqs[1]
        BY <1>13, <3>2 DEF Req
      <4>2. op'.reqs \in Seq(Requests) /\ 1 \in 1 .. Len(op'.reqs)
        BY <1>2, <4>1
      <4>3. ReqFits(tables', brk', where, op'.pgd, Req')
        BY <1>14, <1>20, <4>1, <4>2 DEF RequestsFit
      <4>4. Req'.size > 0
        BY <4>3 DEF ReqFits
      <4>5. Req' \in Requests
        BY <4>1, <4>2
      <4>6. 0 = 0 * PageSize
        BY <1>9
      <4> QED
        BY <4>1, <4>4, <4>5, <4>6 DEF Requests
    <3> QED
      BY <3>1, <3>2
  <2>2. op'.reqs \in Seq(Requests) /\ Req' = op'.reqs[1] /\ op'.i \in Nat /\ 1 \in 1 .. Len(op'.reqs)
    BY <1>13 DEF Req, Ops
  <2>3. Req' \in Requests /\ ReqFits(tables', brk', where, op'.pgd, Req')
    BY <1>14, <1>20, <2>2 DEF RequestsFit
  <2>4. Req'.va + op'.i \in Nat /\ Req'.va + op'.i < NrVPages * PageSize
    <3>1. PICK v \in Nat : v = NrVPages * PageSize
      BY RegionsPlaced
    <3>2. Req'.va + Req'.size <= v /\ Req'.va \in Nat /\ Req'.size \in Nat
      BY <2>3, <3>1 DEF ReqFits, Requests
    <3> QED
      BY <2>1, <2>2, <3>1, <3>2
  <2>5. where[op.pgd] = OnPath(op.pgd, Req'.va + op'.i, 0)
    <3>1. op.pgd \in DOMAIN tables /\ Trees(tables, brk, where) /\ where[op.pgd][2] = 0
      BY <1>2, <1>3, <1>12
    <3> QED
      BY <2>4, <3>1, RootPlaced
  <2> QED
    BY <1>2, <1>7, <1>13, <2>1, <2>5
<1> QED
  BY <1>15, <1>16, <1>17, <1>18, <1>19, <1>20, <1>21 DEF Layout

(* A launch that begins with three requests that fit.                      *)
LEMMA LaunchStarts ==
  ASSUME NEW where, Trees(tables', brk', where),
         NEW kind \in {"exec", "fork"}, NEW task \in Tasks, NEW parent \in Tasks,
         NEW image \in Values \cup {0}, NEW table \in DOMAIN tables', where[table][2] = 0,
         NEW q1 \in Requests, NEW q2 \in Requests, NEW q3 \in Requests,
         ReqFits(tables', brk', where, table, q1),
         ReqFits(tables', brk', where, table, q2),
         ReqFits(tables', brk', where, table, q3),
         op' = Launch(kind, task, parent, image, table, <<q1, q2, q3>>)
  PROVE  op' \in Ops /\ RequestsFit(where)' /\ WalkPlaced(where)'
<1>1. table \in Nat
  BY DEF Trees, TablesTyped
<1>2. PICK o : o = op'
  OBVIOUS
<1>3. Launched(o, kind, task, parent, image, table, q1, q2, q3)
  BY <1>1, <1>2, LaunchIs
<1>4. RequestsFit(where)'
  <2>1. \A k \in 1 .. 3 : k = 1 \/ k = 2 \/ k = 3
    OBVIOUS
  <2> QED
    BY <1>2, <1>3, <2>1 DEF RequestsFit, Launched
<1>5. WalkPlaced(where)'
  <2>1. Req' = q1
    BY <1>2, <1>3 DEF Req, Launched
  <2>2. q1.va \in Nat /\ q1.size \in Nat /\ q1.size > 0 /\ q1.va < NrVPages * PageSize
    <3>1. PICK v \in Nat : v = NrVPages * PageSize
      BY RegionsPlaced
    <3>2. q1.va + q1.size <= v /\ q1.size > 0
      BY <3>1 DEF ReqFits
    <3> QED
      BY <3>1, <3>2 DEF Requests
  <2>3. where[table] = OnPath(table, q1.va, 0)
    <3>1. PICK va \in Nat : va = q1.va /\ va < NrVPages * PageSize
      BY <2>2
    <3>2. where[table] = OnPath(table, va, 0)
      BY <3>1, RootPlaced
    <3> QED
      BY <3>1, <3>2
  <2>4. q1.va + 0 = q1.va /\ 0 = 0 * PageSize
    BY <2>2, Constants
  <2> QED
    BY <1>2, <1>3, <2>1, <2>2, <2>3, <2>4 DEF WalkPlaced, Launched
<1> QED
  BY <1>2, <1>3, <1>4, <1>5 DEF Launched

(* The requests of a launch fit, when the blocks of program and stack are  *)
(* given to the tree.                                                      *)
LEMMA LaunchFits ==
  ASSUME SizesFit, NEW ts, NEW b, NEW where, NEW x, NEW size \in ProgSizes,
         NEW prog \in Nat, NEW stack \in Nat,
         GivenTo(ts, b, where, x, prog, size), GivenTo(ts, b, where, x, stack, StackSize)
  PROVE  /\ ReqFits(ts, b, where, x, Request(USER_PROG_START, size, prog * PageSize))
         /\ ReqFits(ts, b, where, x, Request(USER_STACK_ADDR, StackSize, stack * PageSize))
         /\ ReqFits(ts, b, where, x, Request(PERIPHERAL_BASE, PageSize, PERIPHERAL_BASE))
         /\ Request(USER_PROG_START, size, prog * PageSize) \in Requests
         /\ Request(USER_STACK_ADDR, StackSize, stack * PageSize) \in Requests
         /\ Request(PERIPHERAL_BASE, PageSize, PERIPHERAL_BASE) \in Requests
<1>1. /\ PageSize \in Nat \ {0} /\ StackSize \in Nat /\ StackSize > 0 /\ size \in Nat /\ size > 0
      /\ size <= BlockLen(size) * PageSize /\ StackSize <= BlockLen(StackSize) * PageSize
  BY Constants, RegionsPlaced DEF SizesFit
<1>2. USER_PROG_START \in Nat /\ USER_PROG_START % PageSize = 0
  BY <1>1 DEF USER_PROG_START
<1>3. USER_PROG_START + size <= NrVPages * PageSize
  <2>1. PICK p \in Nat, s \in Nat, v \in Nat :
          p = PERIPHERAL_BASE /\ s = USER_STACK_ADDR /\ v = NrVPages * PageSize
    BY RegionsPlaced
  <2>2. s + StackSize <= v /\ p + PageSize <= s /\ size <= p
    BY <2>1, RegionsPlaced
  <2> QED
    BY <1>1, <2>1, <2>2 DEF USER_PROG_START
<1>4. ReqFits(ts, b, where, x, Request(USER_PROG_START, size, prog * PageSize))
  BY <1>1, <1>2, <1>3, BlockFits
<1>5. ReqFits(ts, b, where, x, Request(USER_STACK_ADDR, StackSize, stack * PageSize))
  BY <1>1, RegionsPlaced, BlockFits
<1>6. prog * PageSize \in Nat /\ stack * PageSize \in Nat
  BY <1>1
<1> QED
  BY <1>1, <1>2, <1>4, <1>5, <1>6, RegionsPlaced, PeripheralFits DEF Request, Requests

(* do_exec().                                                              *)
LEMMA DoExecKeeps ==
  ASSUME SizesFit, TypeOK, Programs, NEW where, Layout(where),
         NEW t \in Tasks, NEW size \in ProgSizes, NEW image \in Values, DoExec(t, size, image)
  PROVE  TypeOK' /\ Programs' /\ \E where2 : Layout(where2)' /\ Agree(where, where2)
<1>1. /\ Trees(tables, brk, where) /\ brk \in Nat /\ brk > 0 /\ pgd \in [Tasks -> Nat]
      /\ where \in Places /\ \A g \in DOMAIN tables : g \in Nat /\ g < brk /\ g > 0
  BY DEF Layout, TypeOK, Trees, TablesTyped
<1>2. size \in Nat /\ StackSize \in Nat /\ 0 \in Nat
  BY Constants, RegionsPlaced
<1>3. PICK n \in Nat \ {0}, s \in Nat \ {0} : n = BlockLen(size) /\ s = BlockLen(StackSize)
  BY <1>2, BlockLenIs
<1>4. PICK prog \in Nat : prog = Block(brk, size) /\ prog >= brk
  BY <1>1, <1>2, BlockIs
<1>5. PICK top \in Nat : top = prog + n
  BY <1>3
<1>6. PICK table : table = IF pgd[t] = 0 THEN top ELSE pgd[t]
  OBVIOUS
<1>7. table \in Nat /\ (pgd[t] = 0 => table = top) /\ (pgd[t] # 0 => table = pgd[t])
  BY <1>1, <1>6
<1>8. PICK lo \in Nat : lo = IF pgd[t] = 0 THEN top + 1 ELSE top
  BY <1>5
<1>9. PICK stack \in Nat : stack = Block(lo, StackSize) /\ stack >= lo
  BY <1>2, <1>8, BlockIs
<1>10. /\ op = Idle /\ state[t] # "stopped" /\ brk' = stack + s
       /\ pgd' = [pgd EXCEPT ![t] = table]
       /\ tables' = IF pgd[t] = 0 THEN WithTable(tables, table) ELSE tables
       /\ mem' = Filled(mem, prog * PageSize, size, image)
       /\ mm' = [mm EXCEPT ![t] = [prog_addr |-> prog * PageSize, prog_sz |-> size]]
       /\ op' = Launch("exec", t, t, image, table, ExecRequests(prog, size, stack))
       /\ state' = state
  BY <1>3, <1>4, <1>5, <1>6, <1>8, <1>9 DEF DoExec
<1>11. brk' \in Nat /\ brk <= brk' /\ top < brk' /\ brk' > 0
  BY <1>1, <1>3, <1>4, <1>5, <1>8, <1>9, <1>10
<1> DEFINE w == [f \in Nat |-> IF f < brk THEN where[f] ELSE <<table, 0, 0>>]
<1>12. PICK where2 : where2 = w
  OBVIOUS
<1>13. /\ where2 \in Places /\ \A f \in Nat : f < brk => where2[f] = where[f]
       /\ \A f \in Nat : f >= brk => where2[f] = <<table, 0, 0>>
  <2>1. \A f \in Nat : where[f] \in Nat \X Nat \X Nat
    BY <1>1 DEF Places
  <2>2. <<table, 0, 0>> \in Nat \X Nat \X Nat
    BY <1>7
  <2>3. /\ w \in Places /\ \A f \in Nat : f < brk => w[f] = where[f]
        /\ \A f \in Nat : ~ (f < brk) => w[f] = <<table, 0, 0>>
    BY <2>1, <2>2, Zenon DEF Places
  <2>4. \A f \in Nat : f >= brk => ~ (f < brk)
    BY <1>1
  <2> QED
    BY <1>12, <2>3, <2>4
<1> HIDE DEF w
<1>14. /\ Trees(tables', brk', where2) /\ DOMAIN tables' = DOMAIN tables \cup {table}
       /\ where2[table][2] = 0
  <2>1. CASE pgd[t] = 0
    <3>1. Trees(tables, brk, where2)
      <4>1. brk <= brk
        BY <1>1
      <4> QED
        BY <1>1, <1>13, <4>1, TreesGrow
    <3>2. table \in Nat /\ table > 0 /\ table >= brk /\ table < brk' /\ where2[table] = <<table, 0, 0>>
      BY <1>1, <1>3, <1>4, <1>5, <1>7, <1>11, <1>13, <2>1
    <3>3. Trees(WithTable(tables, table), brk', where2)
      BY <1>1, <1>11, <3>1, <3>2, TreesRoot
    <3>4. DOMAIN WithTable(tables, table) = DOMAIN tables \cup {table}
      BY DEF WithTable
    <3> QED
      BY <1>10, <2>1, <3>2, <3>3, <3>4
  <2>2. CASE pgd[t] # 0
    <3>1. Trees(tables, brk', where2)
      BY <1>1, <1>11, <1>13, TreesGrow
    <3>2. table \in DOMAIN tables /\ where[table][2] = 0
      BY <1>7, <2>2 DEF Layout, RootsOwned
    <3> QED
      BY <1>1, <1>7, <1>10, <1>13, <2>2, <3>1, <3>2
  <2> QED
    BY <2>1, <2>2
<1>15. GivenTo(tables', brk', where2, table, prog, size)
  <2> SUFFICES ASSUME NEW e \in prog .. prog + n - 1
               PROVE  e < brk' /\ e \notin DOMAIN tables' /\ where2[e][1] = table
    BY <1>3 DEF GivenTo
  <2>1. e \in Nat /\ e >= brk /\ e < top
    BY <1>1, <1>3, <1>4, <1>5
  <2>2. e # table
    BY <1>1, <1>5, <1>7, <2>1 DEF Layout, RootsOwned
  <2>3. e < brk'
    BY <1>11, <2>1, <1>5
  <2> QED
    BY <1>1, <1>13, <1>14, <2>1, <2>2, <2>3
<1>16. GivenTo(tables', brk', where2, table, stack, StackSize)
  <2> SUFFICES ASSUME NEW e \in stack .. stack + s - 1
               PROVE  e < brk' /\ e \notin DOMAIN tables' /\ where2[e][1] = table
    BY <1>3 DEF GivenTo
  <2>1. e \in Nat /\ e >= brk /\ e >= lo /\ e < stack + s
    BY <1>1, <1>3, <1>4, <1>5, <1>8, <1>9
  <2>2. e # table
    BY <1>1, <1>5, <1>7, <1>8, <2>1 DEF Layout, RootsOwned
  <2>3. e < brk'
    BY <1>10, <2>1
  <2> QED
    BY <1>1, <1>13, <1>14, <2>1, <2>2, <2>3
<1> DEFINE q1 == Request(USER_PROG_START, size, prog * PageSize)
           q2 == Request(USER_STACK_ADDR, StackSize, stack * PageSize)
           q3 == Request(PERIPHERAL_BASE, PageSize, PERIPHERAL_BASE)
<1>17. /\ ReqFits(tables', brk', where2, table, q1) /\ q1 \in Requests
       /\ ReqFits(tables', brk', where2, table, q2) /\ q2 \in Requests
       /\ ReqFits(tables', brk', where2, table, q3) /\ q3 \in Requests
  BY <1>15, <1>16, LaunchFits
<1>18. op' = Launch("exec", t, t, image, table, <<q1, q2, q3>>)
  BY <1>10 DEF ExecRequests
<1> HIDE DEF q1, q2, q3
<1>19. op' \in Ops /\ RequestsFit(where2)' /\ WalkPlaced(where2)'
  BY <1>14, <1>17, <1>18, LaunchStarts
<1>20. op'.kind = "exec" /\ op'.task = t /\ op'.pgd = table
  BY <1>18 DEF Launch
<1>21. op' # Idle
  BY <1>19, OpIs
<1>22. TypeOK'
  <2>1. pgd' \in [Tasks -> Nat]
    BY <1>1, <1>7, <1>10
  <2>2. prog * PageSize \in Nat
    BY Constants
  <2>3. mm' \in [Tasks -> [prog_addr : Nat, prog_sz : Nat]]
    BY <1>2, <1>10, <2>2 DEF TypeOK
  <2>4. mem' = [a \in Words |-> mem'[a]]
    BY <1>10 DEF Filled
  <2> QED
    BY <1>10, <1>11, <1>19, <2>1, <2>3, <2>4 DEF TypeOK
<1>23. Programs'
  <2>1. \A u \in Tasks : mm'[u].prog_sz = IF u = t THEN size ELSE mm[u].prog_sz
    BY <1>10 DEF TypeOK
  <2> QED
    BY <1>10, <1>20, <2>1 DEF Programs
<1>24. RootsOwned(where2)'
  <2>1. \A u \in Tasks : pgd'[u] = IF u = t THEN table ELSE pgd[u]
    BY <1>1, <1>10
  <2>2. \A u \in Tasks : u # t => pgd[u] # table
    BY <1>1, <1>3, <1>4, <1>5, <1>7 DEF Layout, RootsOwned
  <2>3. \A u \in Tasks : pgd[u] # 0 => pgd[u] \in DOMAIN tables /\ where2[pgd[u]][2] = 0
    BY <1>1, <1>13 DEF Layout, RootsOwned
  <2> QED
    BY <1>14, <2>1, <2>2, <2>3 DEF Layout, RootsOwned
<1>25. LaunchRooted(where2)'
  BY <1>1, <1>10, <1>14, <1>20 DEF LaunchRooted
<1>26. Layout(where2)' /\ Agree(where, where2)
  BY <1>13, <1>14, <1>19, <1>24, <1>25 DEF Layout, Agree
<1> QED
  BY <1>22, <1>23, <1>26

(* sys_fork().                                                             *)
LEMMA SysForkKeeps ==
  ASSUME SizesFit, TypeOK, Programs, NEW where, Layout(where),
         NEW p \in Tasks, NEW c \in Tasks, SysFork(p, c)
  PROVE  TypeOK' /\ Programs' /\ \E where2 : Layout(where2)' /\ Agree(where, where2)
<1>1. /\ Trees(tables, brk, where) /\ brk \in Nat /\ brk > 0 /\ pgd \in [Tasks -> Nat]
      /\ where \in Places /\ \A g \in DOMAIN tables : g \in Nat /\ g < brk /\ g > 0
  BY DEF Layout, TypeOK, Trees, TablesTyped
<1>2. PICK size \in ProgSizes : size = mm[p].prog_sz
  BY DEF SysFork, Programs
<1>3. size \in Nat /\ StackSize \in Nat /\ 0 \in Nat
  BY Constants, RegionsPlaced
<1>4. PICK n \in Nat \ {0}, s \in Nat \ {0} : n = BlockLen(size) /\ s = BlockLen(StackSize)
  BY <1>3, BlockLenIs
<1>5. PICK stack \in Nat : stack = Block(brk + 1, StackSize) /\ stack >= brk + 1
  <2>1. brk + 1 \in Nat
    BY <1>1
  <2> QED
    BY <1>3, <2>1, BlockIs
<1>6. PICK prog \in Nat : prog = Block(stack + s, size) /\ prog >= stack + s
  <2>1. stack + s \in Nat
    BY <1>4
  <2> QED
    BY <1>3, <2>1, BlockIs
<1>7. /\ op = Idle /\ brk' = prog + n
      /\ tables' = WithTable(tables, brk)
      /\ mem' = Copied(Copied(mem, stack * PageSize, ParentStack(p), StackSize),
                       prog * PageSize, mm[p].prog_addr, size)
      /\ mm' = [mm EXCEPT ![c] = [prog_addr |-> prog * PageSize, prog_sz |-> size]]
      /\ op' = Launch("fork", c, p, 0, brk, ForkRequests(prog, size, stack))
      /\ state' = state /\ pgd' = pgd
  BY <1>2, <1>4, <1>5, <1>6 DEF SysFork
<1>8. brk' \in Nat /\ brk <= brk' /\ brk < brk' /\ brk' > 0
  BY <1>1, <1>4, <1>5, <1>6, <1>7
<1> DEFINE w == [f \in Nat |-> IF f < brk THEN where[f] ELSE <<brk, 0, 0>>]
<1>9. PICK where2 : where2 = w
  OBVIOUS
<1>10. /\ where2 \in Places /\ \A f \in Nat : f < brk => where2[f] = where[f]
       /\ \A f \in Nat : f >= brk => where2[f] = <<brk, 0, 0>>
  <2>1. \A f \in Nat : where[f] \in Nat \X Nat \X Nat
    BY <1>1 DEF Places
  <2>2. <<brk, 0, 0>> \in Nat \X Nat \X Nat
    BY <1>1
  <2>3. /\ w \in Places /\ \A f \in Nat : f < brk => w[f] = where[f]
        /\ \A f \in Nat : ~ (f < brk) => w[f] = <<brk, 0, 0>>
    BY <2>1, <2>2, Zenon DEF Places
  <2>4. \A f \in Nat : f >= brk => ~ (f < brk)
    BY <1>1
  <2> QED
    BY <1>9, <2>3, <2>4
<1> HIDE DEF w
<1>11. /\ Trees(tables', brk', where2) /\ DOMAIN tables' = DOMAIN tables \cup {brk}
       /\ where2[brk][2] = 0
  <2>1. Trees(tables, brk, where2)
    <3>1. brk <= brk
      BY <1>1
    <3> QED
      BY <1>1, <1>10, <3>1, TreesGrow
  <2>2. where2[brk] = <<brk, 0, 0>> /\ brk >= brk
    BY <1>1, <1>10
  <2>3. Trees(WithTable(tables, brk), brk', where2)
    BY <1>1, <1>8, <2>1, <2>2, TreesRoot
  <2>4. DOMAIN WithTable(tables, brk) = DOMAIN tables \cup {brk}
    BY DEF WithTable
  <2> QED
    BY <1>7, <2>2, <2>3, <2>4
<1>12. GivenTo(tables', brk', where2, brk, prog, size)
  <2> SUFFICES ASSUME NEW e \in prog .. prog + n - 1
               PROVE  e < brk' /\ e \notin DOMAIN tables' /\ where2[e][1] = brk
    BY <1>4 DEF GivenTo
  <2>1. e \in Nat /\ e > brk /\ e < prog + n /\ e >= brk
    BY <1>1, <1>4, <1>5, <1>6
  <2> QED
    BY <1>1, <1>7, <1>10, <1>11, <2>1
<1>13. GivenTo(tables', brk', where2, brk, stack, StackSize)
  <2> SUFFICES ASSUME NEW e \in stack .. stack + s - 1
               PROVE  e < brk' /\ e \notin DOMAIN tables' /\ where2[e][1] = brk
    BY <1>4 DEF GivenTo
  <2>1. e \in Nat /\ e > brk /\ e < prog + n /\ e >= brk
    BY <1>1, <1>4, <1>5, <1>6
  <2> QED
    BY <1>1, <1>7, <1>10, <1>11, <2>1
<1> DEFINE q1 == Request(USER_STACK_ADDR, StackSize, stack * PageSize)
           q2 == Request(USER_PROG_START, size, prog * PageSize)
           q3 == Request(PERIPHERAL_BASE, PageSize, PERIPHERAL_BASE)
<1>14. /\ ReqFits(tables', brk', where2, brk, q1) /\ q1 \in Requests
       /\ ReqFits(tables', brk', where2, brk, q2) /\ q2 \in Requests
       /\ ReqFits(tables', brk', where2, brk, q3) /\ q3 \in Requests
  <2>1. /\ ReqFits(tables', brk', where2, brk, q2)
        /\ ReqFits(tables', brk', where2, brk, q1)
        /\ ReqFits(tables', brk', where2, brk, q3)
        /\ q2 \in Requests /\ q1 \in Requests /\ q3 \in Requests
    BY <1>12, <1>13, LaunchFits
  <2> QED
    BY <2>1
<1>15. op' = Launch("fork", c, p, 0, brk, <<q1, q2, q3>>)
  BY <1>7 DEF ForkRequests
<1> HIDE DEF q1, q2, q3
<1>16. op' \in Ops /\ RequestsFit(where2)' /\ WalkPlaced(where2)'
  <2>1. brk \in DOMAIN tables' /\ 0 \in Values \cup {0} /\ "fork" \in {"exec", "fork"}
    BY <1>11
  <2> QED
    BY <1>11, <1>14, <1>15, <2>1, LaunchStarts
<1>17. op'.kind = "fork" /\ op'.task = c /\ op'.pgd = brk
  BY <1>15 DEF Launch
<1>18. TypeOK'
  <2>1. prog * PageSize \in Nat
    BY Constants
  <2>2. mm' \in [Tasks -> [prog_addr : Nat, prog_sz : Nat]]
    BY <1>3, <1>7, <2>1 DEF TypeOK
  <2>3. mem' = [a \in Words |-> mem'[a]]
    BY <1>7 DEF Copied
  <2> QED
    BY <1>7, <1>8, <1>16, <2>2, <2>3 DEF TypeOK
<1>19. Programs'
  <2>1. \A u \in Tasks : mm'[u].prog_sz = IF u = c THEN size ELSE mm[u].prog_sz
    BY <1>7 DEF TypeOK
  <2> QED
    BY <1>7, <1>17, <2>1 DEF Programs
<1>20. \A u \in Tasks : pgd[u] # 0 => pgd[u] \in DOMAIN tables /\ where2[pgd[u]][2] = 0
  BY <1>1, <1>10 DEF Layout, RootsOwned
<1>21. RootsOwned(where2)'
  BY <1>7, <1>11, <1>20 DEF Layout, RootsOwned
<1>22. LaunchRooted(where2)'
  <2>1. \A u \in Tasks : pgd[u] # brk
    BY <1>1, <1>20
  <2> QED
    BY <1>7, <1>11, <1>17, <2>1 DEF LaunchRooted
<1>23. Layout(where2)' /\ Agree(where, where2)
  BY <1>10, <1>11, <1>16, <1>21, <1>22 DEF Layout, Agree
<1> QED
  BY <1>18, <1>19, <1>23

(* The end of an exec or a fork.                                           *)
LEMMA LaunchEndsKeeps ==
  ASSUME TypeOK, Programs, NEW where, Layout(where), LaunchEnds
  PROVE  TypeOK' /\ Programs' /\ Layout(where)'
<1>1. /\ op # Idle /\ op \in Ops
      /\ state' = [state EXCEPT ![op.task] = "user"]
      /\ pgd' = [pgd EXCEPT ![op.task] = op.pgd]
      /\ op' = Idle /\ UNCHANGED <<mm, tables, mem, brk>>
  BY DEF LaunchEnds, ChildPgd, TypeOK
<1>2. op.task \in Tasks /\ op.pgd \in Nat /\ op.kind \in {"exec", "fork"}
  BY <1>1 DEF Ops
<1>3. TypeOK'
  BY <1>1, <1>2 DEF TypeOK
<1>4. Programs'
  BY <1>1, <1>2 DEF Programs, TypeOK
<1>5. op.pgd \in DOMAIN tables /\ where[op.pgd][2] = 0 /\ Trees(tables, brk, where)
  BY <1>1 DEF Layout, LaunchRooted
<1>6. op.pgd # 0
  BY <1>5 DEF Trees, TablesTyped
<1>7. \A u \in Tasks : pgd'[u] = IF u = op.task THEN op.pgd ELSE pgd[u]
  BY <1>1, <1>2 DEF TypeOK
<1>8. \A u \in Tasks : u # op.task => pgd[u] # op.pgd
  BY <1>1, <1>2, <1>6 DEF Layout, LaunchRooted, RootsOwned
<1>9. RootsOwned(where)'
  BY <1>1, <1>5, <1>7, <1>8 DEF Layout, RootsOwned
<1>10. LaunchRooted(where)' /\ RequestsFit(where)' /\ WalkPlaced(where)'
  BY <1>1 DEF LaunchRooted, RequestsFit, WalkPlaced, Mapping
<1> QED
  BY <1>1, <1>3, <1>4, <1>5, <1>9, <1>10 DEF Layout

(* The other steps change no table.                                        *)
LEMMA QuietKeeps ==
  ASSUME TypeOK, Programs, NEW where, Layout(where),
         UNCHANGED <<pgd, mm, tables, brk, op>>,
         state' \in [Tasks -> {"stopped", "kernel", "user"}],
         \A t \in Tasks : state'[t] = "user" => state[t] = "user",
         mem' = [w \in Words |-> mem'[w]]
  PROVE  TypeOK' /\ Programs' /\ Layout(where)'
<1>1. TypeOK'
  BY DEF TypeOK
<1>2. Programs'
  BY DEF Programs
<1>3. RootsOwned(where)' /\ LaunchRooted(where)' /\ RequestsFit(where)'
  BY DEF Layout, RootsOwned, LaunchRooted, RequestsFit
<1>4. WalkPlaced(where)'
  BY DEF Layout, WalkPlaced, Mapping, Req
<1>5. Trees(tables, brk, where)'
  BY DEF Layout
<1> QED
  BY <1>1, <1>2, <1>3, <1>4, <1>5 DEF Layout

(* Every step keeps the invariant.                                         *)
LEMMA IndInvNext ==
  ASSUME SizesFit, IndInv, [Next]_vars
  PROVE  IndInv'
<1>1. PICK where : Layout(where)
  BY DEF IndInv
<1>2. TypeOK /\ Programs
  BY DEF IndInv
<1>3. CASE WalkNewTable
  BY <1>1, <1>2, <1>3, WalkNewTableKeeps DEF IndInv
<1>4. CASE WalkDown
  BY <1>1, <1>2, <1>4, WalkDownKeeps DEF IndInv
<1>5. CASE WalkLeaf
  BY <1>1, <1>2, <1>5, WalkLeafKeeps DEF IndInv
<1>6. CASE LaunchEnds
  BY <1>1, <1>2, <1>6, LaunchEndsKeeps DEF IndInv
<1>7. ASSUME NEW t \in Tasks, NEW size \in ProgSizes, NEW image \in Values, DoExec(t, size, image)
      PROVE  IndInv'
  BY <1>1, <1>2, <1>7, DoExecKeeps DEF IndInv
<1>8. ASSUME NEW t \in Tasks, NEW c \in Tasks, SysFork(t, c)
      PROVE  IndInv'
  BY <1>1, <1>2, <1>8, SysForkKeeps DEF IndInv
<1>9. ASSUME NEW t \in Tasks, NEW va \in UserWords, NEW v \in Values \cup {0}, Store(t, va, v)
      PROVE  IndInv'
  <2>1. UNCHANGED <<pgd, mm, tables, brk, op>> /\ state' = state
    BY <1>9 DEF Store
  <2>2. mem' = [mem EXCEPT ![SimulateWalk(pgd[t], va)] = v] /\ mem = [w \in Words |-> mem[w]]
    BY <1>2, <1>9 DEF Store, TypeOK
  <2>3. mem' = [w \in Words |-> mem'[w]]
    BY <2>2
  <2> QED
    BY <1>1, <1>2, <2>1, <2>3, QuietKeeps DEF IndInv, TypeOK
<1>10. ASSUME NEW t \in Tasks, Exit(t)
       PROVE  IndInv'
  <2>1. UNCHANGED <<pgd, mm, tables, brk, op, mem>>
    BY <1>10 DEF Exit
  <2>2. state' = [state EXCEPT ![t] = "stopped"]
    BY <1>10 DEF Exit
  <2>3. /\ state' \in [Tasks -> {"stopped", "kernel", "user"}]
        /\ \A u \in Tasks : state'[u] = "user" => state[u] = "user"
    BY <1>2, <2>2 DEF TypeOK
  <2>4. mem' = [w \in Words |-> mem'[w]]
    BY <1>2, <2>1 DEF TypeOK
  <2> QED
    BY <1>1, <1>2, <2>1, <2>3, <2>4, QuietKeeps DEF IndInv
<1>11. CASE UNCHANGED vars
  <2>1. UNCHANGED <<pgd, mm, tables, brk, op, mem>> /\ state' = state
    BY <1>11 DEF vars
  <2>2. mem' = [w \in Words |-> mem'[w]]
    BY <1>2, <2>1 DEF TypeOK
  <2> QED
    BY <1>1, <1>2, <2>1, <2>2, QuietKeeps DEF IndInv, TypeOK
<1> QED
  BY <1>3, <1>4, <1>5, <1>6, <1>7, <1>8, <1>9, <1>10, <1>11 DEF Next, Walk

(* The trees of two tasks share no frame, and no tree maps a table.        *)
LEMMA IndInvIsolates == IndInv => Isolation
<1> SUFFICES ASSUME IndInv, NEW t \in Tasks
             PROVE  /\ \A u \in Tasks \ {t} : Mapped(t) \cap Mapped(u) = {}
                    /\ Mapped(t) \cap DOMAIN tables = {}
                    /\ \A f \in Mapped(t) : f < brk
  BY DEF Isolation
<1>1. PICK where : Layout(where)
  BY DEF IndInv
<1>2. \A u \in Tasks : pgd[u] # 0 => pgd[u] \in DOMAIN tables /\ where[pgd[u]][2] = 0
  BY <1>1 DEF Layout, RootsOwned
<1>3. ASSUME NEW u \in Tasks, NEW e \in Mapped(u)
      PROVE  pgd[u] # 0 /\ e < brk /\ e \notin DOMAIN tables /\ where[e][1] = pgd[u]
  <2>1. pgd[u] # 0 /\ e \in Nat /\ e < NrFrames /\ Maps(tables, brk, where, pgd[u], e)
    BY <1>1, <1>2, ReachIs DEF Layout
  <2> QED
    BY <2>1, Constants DEF Maps
<1>4. ASSUME NEW u \in Tasks \ {t}, NEW e \in Mapped(t) \cap Mapped(u) PROVE FALSE
  <2>1. pgd[t] = pgd[u] /\ pgd[t] # 0
    BY <1>3, <1>4
  <2> QED
    BY <1>1, <2>1 DEF Layout, RootsOwned
<1> QED
  BY <1>3, <1>4

(* No task reaches a frame of another task, a page table or a frame not    *)
(* handed out: do_exec(), sys_fork() and map_pages() keep the address      *)
(* spaces apart at every step, when kmalloc() computes large enough orders *)
(* for the sizes of programs and stacks.                                   *)
THEOREM IsolationHolds ==
  ASSUME SizesFit
  PROVE  Spec => []Isolation
<1>1. Init => IndInv
  BY IndInvInit
<1>2. IndInv /\ [Next]_vars => IndInv'
  BY IndInvNext
<1>3. IndInv => Isolation
  BY IndInvIsolates
<1> QED
  BY <1>1, <1>2, <1>3, PTL DEF Spec

-----------------------------------------------------------------------------
(* What the tasks see                                                      *)

(* simulate_walk() is WalkIn over the tables there are.                    *)
LEMMA SimulateWalkIs ==
  ASSUME NEW x, NEW va
  PROVE  SimulateWalk(x, va) = WalkIn(tables, x, va)
BY Zenon DEF SimulateWalk, WalkIn, Below, BelowIn

(* In the tree x, the n addresses from va show the words from pa.          *)
Shown(ts, x, va, pa, n) == \A d \in 0 .. n - 1 : WalkIn(ts, x, va + d) = pa + d

(* The entry that a walk from x for va ends with is kept by a step.        *)
LeafKept(where, x, va) ==
  \A f \in DOMAIN tables : where[f] = OnPath(x, va, Levels - 1) =>
    tables'[f][IndexOf(va, Levels - 1)] = tables[f][IndexOf(va, Levels - 1)]

(* A page that is mapped stays mapped, if its entry is kept.               *)
LEMMA WalkKept ==
  ASSUME TypeOK, NEW where, Layout(where), NEW where2, Trees(tables', brk', where2),
         Agree(where, where2), DOMAIN tables \subseteq DOMAIN tables',
         NEW x \in DOMAIN tables, where[x][2] = 0,
         NEW va \in Nat, va < NrVPages * PageSize,
         WalkIn(tables, x, va) # 0, LeafKept(where, x, va)
  PROVE  WalkIn(tables', x, va) = WalkIn(tables, x, va)
<1>1. Trees(tables, brk, where)
  BY DEF Layout
<1>2. \A f \in DOMAIN tables : where2[f] = where[f]
  BY <1>1 DEF Trees, TablesTyped, Agree
<1>3. /\ \A f \in DOMAIN tables : where[f] = OnPath(x, va, Levels - 1) =>
           WalkIn(tables, x, va) = tables[f][IndexOf(va, Levels - 1)] * PageSize + (va % PageSize)
      /\ (\A f \in DOMAIN tables : where[f] # OnPath(x, va, Levels - 1)) => WalkIn(tables, x, va) = 0
  BY <1>1, WalkIs
<1>4. PICK f \in DOMAIN tables : where[f] = OnPath(x, va, Levels - 1)
  BY <1>3
<1>5. x \in DOMAIN tables' /\ where2[x][2] = 0 /\ f \in DOMAIN tables'
      /\ where2[f] = OnPath(x, va, Levels - 1)
  BY <1>2, <1>4
<1>6. \A g \in DOMAIN tables' : where2[g] = OnPath(x, va, Levels - 1) =>
        WalkIn(tables', x, va) = tables'[g][IndexOf(va, Levels - 1)] * PageSize + (va % PageSize)
  <2>1. Trees(tables', brk', where2) /\ x \in DOMAIN tables' /\ where2[x][2] = 0
    BY <1>5
  <2> QED
    BY <2>1, WalkIs
<1>7. WalkIn(tables', x, va) = tables'[f][IndexOf(va, Levels - 1)] * PageSize + (va % PageSize)
  BY <1>5, <1>6
<1>8. WalkIn(tables, x, va) = tables[f][IndexOf(va, Levels - 1)] * PageSize + (va % PageSize)
  BY <1>3, <1>4
<1> QED
  BY <1>4, <1>7, <1>8 DEF LeafKept

(* The same for a region.                                                  *)
LEMMA ShownKept ==
  ASSUME TypeOK, NEW where, Layout(where), NEW where2, Trees(tables', brk', where2),
         Agree(where, where2), DOMAIN tables \subseteq DOMAIN tables',
         NEW x \in DOMAIN tables, where[x][2] = 0,
         NEW va \in Nat, NEW pa \in Nat, NEW n \in Nat, pa > 0, va + n <= NrVPages * PageSize,
         Shown(tables, x, va, pa, n),
         \A d \in 0 .. n - 1 : LeafKept(where, x, va + d)
  PROVE  Shown(tables', x, va, pa, n)
<1> SUFFICES ASSUME NEW d \in 0 .. n - 1 PROVE WalkIn(tables', x, va + d) = pa + d
  BY DEF Shown
<1>1. PICK v \in Nat : v = NrVPages * PageSize
  BY RegionsPlaced
<1>2. PICK a \in Nat : a = va + d
  OBVIOUS
<1>3. a < NrVPages * PageSize
  BY <1>1, <1>2
<1>4. WalkIn(tables, x, a) = pa + d /\ pa + d # 0
  BY <1>2 DEF Shown
<1>5. LeafKept(where, x, a) /\ WalkIn(tables, x, a) # 0
  BY <1>2, <1>4
<1>6. WalkIn(tables', x, a) = WalkIn(tables, x, a)
  BY <1>3, <1>5, WalkKept
<1> QED
  BY <1>2, <1>4, <1>6

(* The page that walk() is mapping.                                        *)
LEMMA PageMapped ==
  ASSUME TypeOK, NEW where, Layout(where), Mapping
  PROVE  \E c \in Nat :
           /\ Req.va + op.i = c * PageSize /\ Prefix(Req.va + op.i, Levels) = c
           /\ Req.va + op.i + PageSize <= NrVPages * PageSize
<1>1. PageSize \in Nat \ {0} /\ NrVPages * PageSize \in Nat /\ Levels \in Nat \ {0} /\ NrVPages \in Nat
  BY Constants, RegionsPlaced, PagesUnderIs DEF NrVPages
<1>2. PICK va \in Nat : va = Req.va + op.i /\ va < NrVPages * PageSize
  BY MappingIs
<1>3. PICK j \in Nat : op.i = j * PageSize
  BY DEF Layout, WalkPlaced
<1>4. Req.va \in Nat /\ Req.va % PageSize = 0 /\ op.i \in Nat
  BY MappingIs DEF ReqFits, Requests
<1>5. va % PageSize = 0
  <2>1. op.i % PageSize = 0
    <3>1. j \in Int /\ op.i \in Int
      BY <1>4
    <3> QED
      BY <1>1, <1>3, <3>1, Multiple
  <2> QED
    BY <1>1, <1>2, <1>4, <2>1, Multiples
<1>6. PICK k \in Int : va = k * PageSize
  BY <1>1, <1>5, Multiple
<1>7. k \in Nat
  <2> SUFFICES ASSUME k <= 0 - 1 PROVE FALSE
    OBVIOUS
  <2>1. k * PageSize <= (0 - 1) * PageSize
    BY <1>1
  <2> QED
    BY <1>1, <1>6, <2>1
<1>8. va \div PageSize = k
  <2>1. 0 \in 0 .. PageSize - 1 /\ va = k * PageSize + 0
    BY <1>1, <1>6
  <2> QED
    BY <1>7, <2>1, PageOf
<1>9. va + PageSize <= NrVPages * PageSize
  <2>1. PICK v \in Int : v = NrVPages * PageSize /\ va < v
    BY <1>1, <1>2
  <2>2. v % PageSize = 0
    <3>1. NrVPages \in Int
      BY <1>1
    <3> QED
      BY <1>1, <2>1, <3>1, Multiple
  <2>3. va + PageSize <= v
    <3>1. va \in Int /\ va < v
      BY <2>1
    <3> QED
      BY <1>1, <1>5, <2>2, <3>1, Multiples
  <2> QED
    BY <2>1, <2>3
<1> QED
  BY <1>2, <1>6, <1>7, <1>8, <1>9, PrefixEnds

(* walk() changes the entries of the words of that page only.              *)
LEMMA WalkLeafOthers ==
  ASSUME TypeOK, NEW where, Layout(where), WalkLeaf, NEW x, NEW va \in Nat,
         x # op.pgd \/ va \notin Req.va + op.i .. Req.va + op.i + PageSize - 1
  PROVE  LeafKept(where, x, va)
<1>1. Mapping /\ op.level = Levels - 1
  BY DEF WalkLeaf
<1>2. PICK n : n = Levels - 1
  OBVIOUS
<1>3. n \in 0 .. Levels - 1 /\ n + 1 = Levels /\ PageSize \in Nat \ {0}
  BY <1>2, Constants
<1>4. PICK va0 \in Nat, c \in Nat :
        /\ va0 = Req.va + op.i /\ va0 = c * PageSize /\ Prefix(va0, Levels) = c
  BY <1>1, MappingIs, PageMapped
<1>5. /\ op.table \in DOMAIN tables /\ where[op.table] = OnPath(op.pgd, va0, n)
      /\ Idx = IndexOf(va0, n) /\ Idx \in 0 .. Fanout - 1
  BY <1>1, <1>2, <1>4, MappingIs DEF Idx
<1> SUFFICES ASSUME NEW f \in DOMAIN tables, where[f] = OnPath(x, va, n)
             PROVE  tables'[f][IndexOf(va, n)] = tables[f][IndexOf(va, n)]
  BY <1>2 DEF LeafKept
<1>6. tables \in [DOMAIN tables -> [0 .. Fanout - 1 -> Nat]]
  BY DEF Layout, Trees, TablesTyped
<1>7. IndexOf(va, n) \in 0 .. Fanout - 1
  BY <1>3, PrefixStep
<1>8. PICK e : tables' = [tables EXCEPT ![op.table][Idx] = e]
  BY DEF WalkLeaf
<1>9. CASE f # op.table
  BY <1>5, <1>6, <1>8, <1>9
<1>10. CASE IndexOf(va, n) # Idx
  BY <1>5, <1>6, <1>7, <1>8, <1>10
<1>11. ASSUME f = op.table, IndexOf(va, n) = Idx PROVE FALSE
  <2>1. OnPath(x, va, n) = OnPath(op.pgd, va0, n)
    BY <1>5, <1>11
  <2>2. x = op.pgd /\ Prefix(va, n) = Prefix(va0, n)
    BY <2>1 DEF OnPath
  <2>3. /\ Prefix(va, n + 1) = Prefix(va, n) * Fanout + IndexOf(va, n)
        /\ Prefix(va0, n + 1) = Prefix(va0, n) * Fanout + IndexOf(va0, n)
    BY <1>3, PrefixStep
  <2>4. Prefix(va, Levels) = c
    BY <1>3, <1>4, <1>5, <1>11, <2>2, <2>3
  <2>5. va \div PageSize = c
    BY <2>4, PrefixEnds
  <2>6. PICK r \in 0 .. PageSize - 1 : va = PageSize * c + r
    <3>1. PICK k \in Nat \ {0} : k = PageSize
      BY <1>3
    <3>2. va = k * (va \div k) + (va % k) /\ va % k \in 0 .. k - 1
      BY <3>1
    <3> QED
      BY <2>5, <3>1, <3>2
  <2>7. PageSize * c = va0
    BY <1>3, <1>4
  <2>8. va \in va0 .. va0 + PageSize - 1
    BY <1>3, <1>4, <2>6, <2>7
  <2> QED
    BY <1>4, <2>2, <2>8
<1> QED
  BY <1>9, <1>10, <1>11

(* The words of the page show the words of its frame.                      *)
LEMMA WalkLeafShows ==
  ASSUME TypeOK, Programs, NEW where, Layout(where), WalkLeaf,
         NEW d \in 0 .. PageSize - 1
  PROVE  WalkIn(tables', op.pgd, Req.va + (op.i + d)) = Req.pa + (op.i + d)
<1>1. Mapping /\ op.level = Levels - 1
  BY DEF WalkLeaf
<1>2. PICK n : n = Levels - 1
  OBVIOUS
<1>3. n \in 0 .. Levels - 1 /\ n + 1 = Levels /\ PageSize \in Nat \ {0} /\ d \in Nat /\ d < PageSize
  BY <1>2, Constants
<1>4. PICK va0 \in Nat, c \in Nat :
        /\ va0 = Req.va + op.i /\ va0 = c * PageSize /\ Prefix(va0, Levels) = c
        /\ va0 + PageSize <= NrVPages * PageSize
  BY <1>1, MappingIs, PageMapped
<1>5. /\ op.table \in DOMAIN tables /\ where[op.table] = OnPath(op.pgd, va0, n)
      /\ Idx = IndexOf(va0, n) /\ Idx \in 0 .. Fanout - 1
  BY <1>1, <1>2, <1>4, MappingIs DEF Idx
<1>6. PICK va \in Nat : va = va0 + d
  BY <1>3
<1>7. va = Req.va + (op.i + d) /\ va < NrVPages * PageSize
  <2>1. Req.va \in Nat /\ op.i \in Nat
    BY <1>1, MappingIs DEF Requests
  <2>2. PICK v \in Nat : v = NrVPages * PageSize
    BY RegionsPlaced
  <2>3. va0 + PageSize <= v /\ va0 = Req.va + op.i
    BY <1>4, <2>2
  <2>4. va < v /\ va = Req.va + (op.i + d)
    BY <1>3, <1>6, <2>1, <2>2, <2>3
  <2> QED
    BY <2>2, <2>4
<1>8. va \div PageSize = c /\ va % PageSize = d
  BY <1>4, <1>6, PageOf
<1>9. Prefix(va, Levels) = Prefix(va0, Levels)
  BY <1>4, <1>8, PrefixEnds
<1>10. Prefix(va, n) = Prefix(va0, n) /\ IndexOf(va, n) = IndexOf(va0, n)
  <2>1. /\ Prefix(va, n) = Prefix(va, n + 1) \div Fanout
        /\ IndexOf(va, n) = Prefix(va, n + 1) % Fanout
        /\ Prefix(va0, n) = Prefix(va0, n + 1) \div Fanout
        /\ IndexOf(va0, n) = Prefix(va0, n + 1) % Fanout
    BY <1>3, PrefixStep
  <2> QED
    BY <1>3, <1>9, <2>1
<1>11. where[op.table] = OnPath(op.pgd, va, n) /\ Idx = IndexOf(va, n)
  BY <1>5, <1>10 DEF OnPath
<1>12. PICK e \in Nat : e = (Req.pa + op.i) \div PageSize /\ e * PageSize = Req.pa + op.i
  BY <1>1, LeafFrame
<1>13. tables' = [tables EXCEPT ![op.table][Idx] = e]
  BY <1>12 DEF WalkLeaf
<1>14. tables \in [DOMAIN tables -> [0 .. Fanout - 1 -> Nat]]
  BY DEF Layout, Trees, TablesTyped
<1>15. tables'[op.table][Idx] = e /\ DOMAIN tables' = DOMAIN tables
  BY <1>5, <1>13, <1>14
<1>16. PICK x : x = op.pgd
  OBVIOUS
<1>17. Trees(tables', brk', where) /\ x \in DOMAIN tables' /\ where[x][2] = 0
  <2>1. Layout(where)'
    BY WalkLeafKeeps
  <2>2. x \in DOMAIN tables /\ where[x][2] = 0
    BY <1>1, <1>16 DEF Mapping, Layout, LaunchRooted
  <2> QED
    BY <1>15, <2>1, <2>2 DEF Layout
<1>18. \A f \in DOMAIN tables' : where[f] = OnPath(x, va, Levels - 1) =>
         WalkIn(tables', x, va) = tables'[f][IndexOf(va, Levels - 1)] * PageSize + (va % PageSize)
  BY <1>7, <1>17, WalkIs
<1>19. WalkIn(tables', x, va) = e * PageSize + d
  BY <1>2, <1>5, <1>8, <1>11, <1>15, <1>16, <1>18
<1>20. Req.pa \in Nat /\ op.i \in Nat
  BY <1>1, MappingIs DEF Requests
<1>21. e * PageSize + d = Req.pa + (op.i + d)
  BY <1>3, <1>12, <1>20
<1> QED
  BY <1>7, <1>16, <1>19, <1>21

(* n words from pa are in RAM, above frame 0, and have been handed out.    *)
Held(pa, n) ==
  pa \in Nat /\ pa > 0 /\ pa + n <= brk * PageSize /\ pa + n <= NrFrames * PageSize

(* A task sees its program at 0 and a stack at USER_STACK_ADDR.            *)
Placed(t) ==
  /\ pgd[t] # 0 /\ Held(mm[t].prog_addr, mm[t].prog_sz)
  /\ Shown(tables, pgd[t], USER_PROG_START, mm[t].prog_addr, mm[t].prog_sz)
  /\ \E stack \in Nat :
       Held(stack, StackSize) /\ Shown(tables, pgd[t], USER_STACK_ADDR, stack, StackSize)
UsersPlaced ==
  \A t \in Tasks : state[t] = "user" /\ (op # Idle => t # op.task) => Placed(t)

(* The region of a request is mapped, or waits, mapped as far as op.i when *)
(* it is the one map_pages() is at.                                        *)
RegionAt(ts, o, q) ==
  \/ Shown(ts, o.pgd, q.va, q.pa, q.size)
  \/ \E k \in 1 .. Len(o.reqs) :
       o.reqs[k] = q /\ (k = 1 => Shown(ts, o.pgd, q.va, q.pa, o.i))
ProgReq(t) == Request(USER_PROG_START, mm[t].prog_sz, mm[t].prog_addr)
StackReq(stack) == Request(USER_STACK_ADDR, StackSize, stack)
DeviceReq == Request(PERIPHERAL_BASE, PageSize, PERIPHERAL_BASE)
LaunchAt(stack) ==
  /\ Held(mm[op.task].prog_addr, mm[op.task].prog_sz) /\ Held(stack, StackSize)
  /\ \A k \in 1 .. Len(op.reqs) : op.reqs[k] \in {ProgReq(op.task), StackReq(stack), DeviceReq}
  /\ RegionAt(tables, op, ProgReq(op.task)) /\ RegionAt(tables, op, StackReq(stack))

(* The memory of the launch: the image, or what the parent sees.           *)
ImageCopied ==
  op.kind = "exec" =>
    \A d \in 0 .. mm[op.task].prog_sz - 1 : mem[mm[op.task].prog_addr + d] = op.image
ParentCopied(stack) ==
  op.kind = "fork" =>
    /\ op.parent # op.task /\ state[op.parent] = "user"
    /\ mm[op.parent].prog_sz = mm[op.task].prog_sz
    /\ \A d \in 0 .. mm[op.task].prog_sz - 1 :
         mem[mm[op.task].prog_addr + d] = mem[WalkIn(tables, pgd[op.parent], USER_PROG_START + d)]
    /\ \A d \in 0 .. StackSize - 1 :
         mem[stack + d] = mem[WalkIn(tables, pgd[op.parent], USER_STACK_ADDR + d)]
LaunchPlaced ==
  op # Idle => \E stack \in Nat : LaunchAt(stack) /\ ImageCopied /\ ParentCopied(stack)
SeesInv == UsersPlaced /\ LaunchPlaced

(* What is handed out stays so.                                            *)
LEMMA HeldKept ==
  ASSUME TypeOK, brk' \in Nat, brk <= brk', NEW pa, NEW n \in Nat, Held(pa, n)
  PROVE  Held(pa, n)'
<1>1. PageSize \in Nat \ {0} /\ brk \in Nat
  BY Constants DEF TypeOK
<1>2. brk * PageSize \in Nat /\ brk' * PageSize \in Nat /\ brk * PageSize <= brk' * PageSize
  <2>1. PICK a \in Nat, b \in Nat : a = brk /\ b = brk' /\ a <= b
    BY <1>1
  <2>2. a * PageSize \in Nat /\ b * PageSize \in Nat /\ a * PageSize <= b * PageSize
    BY <1>1, <2>1, Scaled
  <2> QED
    BY <2>1, <2>2
<1>3. pa \in Nat /\ pa > 0 /\ pa + n <= brk * PageSize /\ pa + n <= NrFrames * PageSize
  BY DEF Held
<1>4. pa + n <= brk' * PageSize
  BY <1>2, <1>3
<1> QED
  BY <1>3, <1>4 DEF Held

(* The regions of program and stack are in the range of addresses.         *)
LEMMA RegionsInRange ==
  ASSUME NEW size \in ProgSizes
  PROVE  /\ size \in Nat /\ USER_PROG_START \in Nat /\ USER_PROG_START + size <= NrVPages * PageSize
         /\ StackSize \in Nat /\ USER_STACK_ADDR + StackSize <= NrVPages * PageSize
<1>1. PICK p \in Nat, s \in Nat, v \in Nat :
        p = PERIPHERAL_BASE /\ s = USER_STACK_ADDR /\ v = NrVPages * PageSize
  BY RegionsPlaced
<1>2. s + StackSize <= v /\ p + PageSize <= s /\ size <= p /\ size \in Nat
  BY <1>1, RegionsPlaced
<1>3. PageSize \in Nat /\ StackSize \in Nat
  BY Constants
<1> QED
  BY <1>1, <1>2, <1>3 DEF USER_PROG_START

(* A task whose entries a step keeps sees the same words after it.         *)
LEMMA PlacedKept ==
  ASSUME TypeOK, NEW where, Layout(where), NEW where2, Trees(tables', brk', where2),
         Agree(where, where2), DOMAIN tables \subseteq DOMAIN tables',
         NEW t \in Tasks, mm[t].prog_sz \in ProgSizes, Placed(t),
         pgd'[t] = pgd[t], mm'[t] = mm[t], brk' \in Nat, brk <= brk',
         \A va \in Nat : LeafKept(where, pgd[t], va)
  PROVE  /\ Placed(t)'
         /\ \A d \in 0 .. mm[t].prog_sz - 1 :
              WalkIn(tables', pgd[t], USER_PROG_START + d) = WalkIn(tables, pgd[t], USER_PROG_START + d)
         /\ \A d \in 0 .. StackSize - 1 :
              WalkIn(tables', pgd[t], USER_STACK_ADDR + d) = WalkIn(tables, pgd[t], USER_STACK_ADDR + d)
<1>1. PICK x \in DOMAIN tables : x = pgd[t] /\ where[x][2] = 0
  BY DEF Placed, Layout, RootsOwned
<1>2. PICK size \in ProgSizes, prog \in Nat : size = mm[t].prog_sz /\ prog = mm[t].prog_addr
  BY DEF TypeOK
<1>3. PICK stack \in Nat : Held(stack, StackSize) /\ Shown(tables, x, USER_STACK_ADDR, stack, StackSize)
  BY <1>1 DEF Placed
<1>4. Held(prog, size) /\ Shown(tables, x, USER_PROG_START, prog, size)
  BY <1>1, <1>2 DEF Placed
<1>5. /\ size \in Nat /\ USER_PROG_START \in Nat /\ USER_PROG_START + size <= NrVPages * PageSize
      /\ StackSize \in Nat /\ USER_STACK_ADDR + StackSize <= NrVPages * PageSize
      /\ USER_STACK_ADDR \in Nat
  BY RegionsInRange, RegionsPlaced
<1>6. prog > 0 /\ stack > 0
  BY <1>3, <1>4 DEF Held
<1>7. \A va \in Nat : LeafKept(where, x, va)
  BY <1>1
<1>8. Shown(tables', x, USER_PROG_START, prog, size)
  <2>1. \A d \in 0 .. size - 1 : LeafKept(where, x, USER_PROG_START + d)
    BY <1>5, <1>7
  <2> QED
    BY <1>1, <1>4, <1>5, <1>6, <2>1, ShownKept
<1>9. Shown(tables', x, USER_STACK_ADDR, stack, StackSize)
  <2>1. \A d \in 0 .. StackSize - 1 : LeafKept(where, x, USER_STACK_ADDR + d)
    BY <1>5, <1>7
  <2> QED
    BY <1>1, <1>3, <1>5, <1>6, <2>1, ShownKept
<1>10. Held(prog, size)' /\ Held(stack, StackSize)'
  <2>1. Held(prog, size)'
    BY <1>4, <1>5, HeldKept
  <2>2. Held(stack, StackSize)'
    BY <1>3, <1>5, HeldKept
  <2> QED
    BY <2>1, <2>2
<1>11. Placed(t)'
  <2>1. pgd'[t] = x /\ x # 0 /\ mm'[t].prog_addr = prog /\ mm'[t].prog_sz = size
    BY <1>1, <1>2 DEF Placed
  <2> QED
    BY <1>8, <1>9, <1>10, <2>1 DEF Placed
<1>12. /\ \A d \in 0 .. size - 1 :
            WalkIn(tables', x, USER_PROG_START + d) = WalkIn(tables, x, USER_PROG_START + d)
       /\ \A d \in 0 .. StackSize - 1 :
            WalkIn(tables', x, USER_STACK_ADDR + d) = WalkIn(tables, x, USER_STACK_ADDR + d)
  BY <1>3, <1>4, <1>8, <1>9 DEF Shown
<1> QED
  BY <1>1, <1>2, <1>11, <1>12

(* No other task has the table of the launch.                              *)
LEMMA OtherRoot ==
  ASSUME TypeOK, NEW where, Layout(where), op # Idle,
         NEW t \in Tasks, t # op.task, pgd[t] # 0
  PROVE  pgd[t] # op.pgd
<1>1. op \in Ops
  BY DEF TypeOK
<1>2. op.task \in Tasks /\ op.kind \in {"exec", "fork"}
  BY <1>1 DEF Ops
<1> QED
  BY <1>2 DEF Layout, LaunchRooted, RootsOwned

(* A step of walk() leaves the other tasks alone.                          *)
LEMMA WalkOthers ==
  ASSUME TypeOK, Programs, NEW where, Layout(where), SeesInv, op # Idle,
         NEW where2, Trees(tables', brk', where2), Agree(where, where2),
         DOMAIN tables \subseteq DOMAIN tables',
         op'.task = op.task, op'.parent = op.parent, op'.kind = op.kind, op'.image = op.image,
         op' # Idle, UNCHANGED <<state, pgd, mm, mem>>, brk' \in Nat, brk <= brk',
         \A x : x # op.pgd => \A va \in Nat : LeafKept(where, x, va)
  PROVE  /\ UsersPlaced' /\ (ImageCopied => ImageCopied')
         /\ \A stack : ParentCopied(stack) => ParentCopied(stack)'
<1>1. ASSUME NEW t \in Tasks, state[t] = "user", t # op.task
      PROVE  /\ Placed(t)'
             /\ \A d \in 0 .. mm[t].prog_sz - 1 :
                  WalkIn(tables', pgd[t], USER_PROG_START + d) = WalkIn(tables, pgd[t], USER_PROG_START + d)
             /\ \A d \in 0 .. StackSize - 1 :
                  WalkIn(tables', pgd[t], USER_STACK_ADDR + d) = WalkIn(tables, pgd[t], USER_STACK_ADDR + d)
  <2>1. Placed(t)
    BY <1>1 DEF SeesInv, UsersPlaced
  <2>2. pgd[t] # op.pgd
    BY <1>1, <2>1, OtherRoot DEF Placed
  <2>3. \A va \in Nat : LeafKept(where, pgd[t], va)
    BY <2>2
  <2>4. mm[t].prog_sz \in ProgSizes /\ pgd'[t] = pgd[t] /\ mm'[t] = mm[t]
    BY <1>1 DEF Programs
  <2> QED
    BY <2>1, <2>3, <2>4, PlacedKept
<1>2. UsersPlaced'
  BY <1>1 DEF UsersPlaced
<1>3. ImageCopied => ImageCopied'
  BY DEF ImageCopied
<1>4. ASSUME NEW stack, ParentCopied(stack) PROVE ParentCopied(stack)'
  <2> SUFFICES ASSUME op.kind = "fork" PROVE ParentCopied(stack)'
    BY DEF ParentCopied
  <2>1. PICK p \in Tasks, c \in Tasks : p = op.parent /\ c = op.task
    BY DEF TypeOK, Ops
  <2>2. /\ p # c /\ state[p] = "user" /\ mm[p].prog_sz = mm[c].prog_sz
        /\ \A d \in 0 .. mm[c].prog_sz - 1 :
             mem[mm[c].prog_addr + d] = mem[WalkIn(tables, pgd[p], USER_PROG_START + d)]
        /\ \A d \in 0 .. StackSize - 1 :
             mem[stack + d] = mem[WalkIn(tables, pgd[p], USER_STACK_ADDR + d)]
    BY <1>4, <2>1 DEF ParentCopied
  <2>3. /\ \A d \in 0 .. mm[p].prog_sz - 1 :
             WalkIn(tables', pgd[p], USER_PROG_START + d) = WalkIn(tables, pgd[p], USER_PROG_START + d)
        /\ \A d \in 0 .. StackSize - 1 :
             WalkIn(tables', pgd[p], USER_STACK_ADDR + d) = WalkIn(tables, pgd[p], USER_STACK_ADDR + d)
    BY <1>1, <2>1, <2>2
  <2>4. /\ \A d \in 0 .. mm[c].prog_sz - 1 :
             mem[mm[c].prog_addr + d] = mem[WalkIn(tables', pgd[p], USER_PROG_START + d)]
        /\ \A d \in 0 .. StackSize - 1 :
             mem[stack + d] = mem[WalkIn(tables', pgd[p], USER_STACK_ADDR + d)]
    BY <2>2, <2>3
  <2> QED
    BY <2>1, <2>2, <2>4 DEF ParentCopied
<1> QED
  BY <1>2, <1>3, <1>4

(* A level of walk() above the last one leaves what is mapped.             *)
LEMMA RegionQuiet ==
  ASSUME TypeOK, NEW where, Layout(where), NEW where2, Trees(tables', brk', where2),
         Agree(where, where2), DOMAIN tables \subseteq DOMAIN tables', Mapping,
         op'.pgd = op.pgd, op'.reqs = op.reqs, op'.i = op.i,
         \A va \in Nat : LeafKept(where, op.pgd, va),
         NEW q \in Requests, q.pa > 0, q.va + q.size <= NrVPages * PageSize,
         RegionAt(tables, op, q)
  PROVE  RegionAt(tables', op', q)
<1>1. PICK x \in DOMAIN tables : x = op.pgd /\ where[x][2] = 0
  BY DEF Mapping, Layout, LaunchRooted
<1>2. PICK va \in Nat, pa \in Nat, size \in Nat : va = q.va /\ pa = q.pa /\ size = q.size
  BY DEF Requests
<1>3. PICK v \in Nat : v = NrVPages * PageSize
  BY RegionsPlaced
<1>4. ASSUME NEW n \in Nat, n <= size, Shown(tables, x, va, pa, n)
      PROVE  Shown(tables', x, va, pa, n)
  <2>1. va + n <= NrVPages * PageSize /\ pa > 0
    BY <1>2, <1>3, <1>4
  <2>2. \A d \in 0 .. n - 1 : va + d \in Nat
    OBVIOUS
  <2>3. \A d \in 0 .. n - 1 : LeafKept(where, x, va + d)
    BY <1>1, <2>2
  <2> QED
    BY <1>1, <1>4, <2>1, <2>3, ShownKept
<1>5. CASE Shown(tables, x, va, pa, size)
  <2>1. Shown(tables', x, va, pa, size)
    BY <1>4, <1>5
  <2> QED
    BY <1>1, <1>2, <2>1 DEF RegionAt
<1>6. ASSUME NEW k \in 1 .. Len(op.reqs), op.reqs[k] = q, k = 1 => Shown(tables, x, va, pa, op.i)
      PROVE  RegionAt(tables', op', q)
  <2>1. k = 1 => Shown(tables', x, va, pa, op.i)
    <3> SUFFICES ASSUME k = 1 PROVE Shown(tables', x, va, pa, op.i)
      OBVIOUS
    <3>1. op.i \in Nat /\ op.i < size
      BY <1>2, <1>6, MappingIs DEF Req
    <3>2. op.i <= size
      BY <3>1
    <3> QED
      BY <1>4, <1>6, <3>1, <3>2
  <2> QED
    BY <1>1, <1>2, <1>6, <2>1 DEF RegionAt
<1> QED
  BY <1>1, <1>2, <1>5, <1>6 DEF RegionAt

(* The loop of map_pages(): the next page, or the next request.            *)
LEMMA WalkLeafOp ==
  ASSUME TypeOK, NEW where, Layout(where), WalkLeaf
  PROVE  /\ op'.kind = op.kind /\ op'.task = op.task /\ op'.parent = op.parent
         /\ op'.image = op.image /\ op'.pgd = op.pgd
         /\ op.i + PageSize < Req.size => op'.reqs = op.reqs /\ op'.i = op.i + PageSize
         /\ ~ (op.i + PageSize < Req.size) => op'.reqs = Tail(op.reqs) /\ op'.i = 0
<1>1. op \in Ops
  BY MappingIs DEF WalkLeaf
<1>2. CASE op.i + PageSize < Req.size
  <2>1. op' = [op EXCEPT !.i = op.i + PageSize, !.table = op.pgd, !.level = 0]
    BY <1>2 DEF WalkLeaf, NextPage
  <2> QED
    BY <1>1, <1>2, <2>1 DEF Ops
<1>3. CASE ~ (op.i + PageSize < Req.size)
  <2>1. op' = [op EXCEPT !.reqs = Tail(@), !.i = 0, !.table = op.pgd, !.level = 0]
    BY <1>3 DEF WalkLeaf
  <2> QED
    BY <1>1, <1>3, <2>1 DEF Ops
<1> QED
  BY <1>2, <1>3

(* A word of a region after the last level of walk().                      *)
LEMMA LeafWord ==
  ASSUME TypeOK, Programs, NEW where, Layout(where), WalkLeaf,
         NEW q \in Requests, q.pa > 0, q.va + q.size <= NrVPages * PageSize,
         NEW d \in 0 .. q.size - 1,
         Req = q \/ q.va + d \notin Req.va + op.i .. Req.va + op.i + PageSize - 1,
         WalkIn(tables, op.pgd, q.va + d) = q.pa + d \/ (Req = q /\ d \in op.i .. op.i + PageSize - 1)
  PROVE  WalkIn(tables', op.pgd, q.va + d) = q.pa + d
<1>1. Mapping
  BY DEF WalkLeaf
<1>2. PICK va \in Nat, pa \in Nat, size \in Nat : va = q.va /\ pa = q.pa /\ size = q.size
  BY DEF Requests
<1>3. PICK i \in Nat : i = op.i
  BY <1>1, MappingIs
<1>4. PageSize \in Nat \ {0} /\ d \in Nat /\ d < size
  BY <1>2, Constants
<1>5. CASE Req = q /\ d \in i .. i + PageSize - 1
  <2>1. PICK r \in 0 .. PageSize - 1 : d = i + r
    <3>1. d - i \in 0 .. PageSize - 1 /\ d = i + (d - i)
      BY <1>4, <1>5
    <3> QED
      BY <3>1
  <2>2. WalkIn(tables', op.pgd, Req.va + (op.i + r)) = Req.pa + (op.i + r)
    BY WalkLeafShows
  <2> QED
    BY <1>3, <1>5, <2>1, <2>2
<1>6. CASE ~ (Req = q /\ d \in i .. i + PageSize - 1)
  <2>1. PICK a \in Nat : a = va + d
    BY <1>4
  <2>2. WalkIn(tables, op.pgd, a) = pa + d /\ pa + d # 0
    BY <1>2, <1>3, <1>4, <1>6, <2>1
  <2>3. a \notin Req.va + op.i .. Req.va + op.i + PageSize - 1
    BY <1>2, <1>3, <1>4, <1>6, <2>1
  <2>4. a < NrVPages * PageSize
    <3>1. PICK v \in Nat : v = NrVPages * PageSize
      BY RegionsPlaced
    <3>2. va + size <= v
      BY <1>2, <3>1
    <3> QED
      BY <1>4, <2>1, <3>1, <3>2
  <2>5. PICK x \in DOMAIN tables : x = op.pgd /\ where[x][2] = 0
    BY <1>1 DEF Mapping, Layout, LaunchRooted
  <2>6. LeafKept(where, x, a)
    BY <2>3, WalkLeafOthers
  <2>7. Trees(tables', brk', where) /\ Agree(where, where)
    BY WalkLeafKeeps DEF Layout, Agree
  <2>8. DOMAIN tables \subseteq DOMAIN tables'
    BY DEF WalkLeaf
  <2>9. WalkIn(tables, x, a) # 0
    BY <2>2, <2>5
  <2>10. WalkIn(tables', x, a) = WalkIn(tables, x, a)
    BY <2>4, <2>5, <2>6, <2>7, <2>8, <2>9, WalkKept
  <2> QED
    BY <1>2, <2>1, <2>2, <2>5, <2>10
<1> QED
  BY <1>5, <1>6

(* The last level of walk() brings the region it maps further.             *)
LEMMA RegionLeaf ==
  ASSUME TypeOK, Programs, NEW where, Layout(where), WalkLeaf,
         NEW q \in Requests, q.pa > 0, q.va + q.size <= NrVPages * PageSize,
         \A d \in 0 .. q.size - 1 :
           Req = q \/ q.va + d \notin Req.va + op.i .. Req.va + op.i + PageSize - 1,
         RegionAt(tables, op, q)
  PROVE  RegionAt(tables', op', q)
<1>1. /\ Mapping /\ op.i \in Nat /\ op.i < Req.size /\ PageSize \in Nat \ {0} /\ Req.size \in Nat
      /\ op.reqs \in Seq(Requests) /\ Len(op.reqs) \in Nat \ {0}
  BY MappingIs, Constants DEF WalkLeaf, Requests
<1>2. q.size \in Nat
  BY DEF Requests
<1>3. op'.pgd = op.pgd
  BY WalkLeafOp
<1>4. CASE Shown(tables, op.pgd, q.va, q.pa, q.size)
  <2>1. \A d \in 0 .. q.size - 1 : WalkIn(tables', op.pgd, q.va + d) = q.pa + d
    BY <1>4, LeafWord DEF Shown
  <2> QED
    BY <1>3, <2>1 DEF RegionAt, Shown
<1>5. ASSUME NEW k \in 1 .. Len(op.reqs), op.reqs[k] = q, k # 1
      PROVE  RegionAt(tables', op', q)
  <2>1. CASE op.i + PageSize < Req.size
    <3>1. op'.reqs = op.reqs
      BY <2>1, WalkLeafOp
    <3> QED
      BY <1>5, <3>1 DEF RegionAt
  <2>2. CASE ~ (op.i + PageSize < Req.size)
    <3>1. op'.reqs = Tail(op.reqs) /\ op'.i = 0
      BY <2>2, WalkLeafOp
    <3>2. PICK rs \in Seq(Requests) : rs = op.reqs /\ Len(rs) \in Nat \ {0}
      BY <1>1
    <3>3. PICK l : l = k - 1
      OBVIOUS
    <3>4. l \in 1 .. Len(Tail(rs)) /\ Tail(rs)[l] = rs[k]
      BY <1>5, <3>2, <3>3
    <3>5. Shown(tables', op'.pgd, q.va, q.pa, op'.i)
      BY <3>1 DEF Shown
    <3> QED
      BY <1>5, <3>1, <3>2, <3>4, <3>5 DEF RegionAt
  <2> QED
    BY <2>1, <2>2
<1>6. ASSUME op.reqs[1] = q, Shown(tables, op.pgd, q.va, q.pa, op.i)
      PROVE  RegionAt(tables', op', q)
  <2>1. Req = q
    BY <1>6 DEF Req
  <2>2. ASSUME NEW d \in 0 .. q.size - 1, d < op.i + PageSize
        PROVE  WalkIn(tables', op.pgd, q.va + d) = q.pa + d
    <3>1. d \in 0 .. op.i - 1 \/ d \in op.i .. op.i + PageSize - 1
      BY <1>1, <1>2, <2>2
    <3>2. WalkIn(tables, op.pgd, q.va + d) = q.pa + d \/ (Req = q /\ d \in op.i .. op.i + PageSize - 1)
      BY <1>6, <2>1, <3>1 DEF Shown
    <3> QED
      BY <2>1, <3>2, LeafWord
  <2>3. CASE op.i + PageSize < Req.size
    <3>1. op'.reqs = op.reqs /\ op'.i = op.i + PageSize
      BY <2>3, WalkLeafOp
    <3>3. Shown(tables', op.pgd, q.va, q.pa, op.i + PageSize)
      <4>1. PICK m \in Nat : m = op.i + PageSize
        BY <1>1
      <4>2. \A d \in 0 .. m - 1 : WalkIn(tables', op.pgd, q.va + d) = q.pa + d
        <5> TAKE d \in 0 .. m - 1
        <5>1. d \in 0 .. q.size - 1 /\ d < op.i + PageSize
          BY <1>1, <1>2, <2>1, <2>3, <4>1
        <5> QED
          BY <2>2, <5>1
      <4>3. Shown(tables', op.pgd, q.va, q.pa, m)
        BY <4>2 DEF Shown
      <4> QED
        BY <4>1, <4>3
    <3>4. 1 \in 1 .. Len(op.reqs)
      BY <1>1
    <3> QED
      BY <1>3, <1>6, <3>1, <3>3, <3>4 DEF RegionAt
  <2>4. CASE ~ (op.i + PageSize < Req.size)
    <3>1. \A d \in 0 .. q.size - 1 : d < op.i + PageSize
      BY <1>1, <1>2, <2>1, <2>4
    <3>2. Shown(tables', op.pgd, q.va, q.pa, q.size)
      BY <2>2, <3>1 DEF Shown
    <3> QED
      BY <1>3, <3>2 DEF RegionAt
  <2> QED
    BY <2>3, <2>4
<1> QED
  BY <1>4, <1>5, <1>6 DEF RegionAt

(* The pages of program, peripherals and stack are apart.                  *)
LEMMA PagesApart ==
  ASSUME TypeOK, Programs, NEW where, Layout(where), Mapping, NEW stack,
         Req \in {ProgReq(op.task), StackReq(stack), DeviceReq},
         NEW q \in {ProgReq(op.task), StackReq(stack)}, NEW d \in 0 .. q.size - 1
  PROVE  Req = q \/ q.va + d \notin Req.va + op.i .. Req.va + op.i + PageSize - 1
<1>1. PICK P \in Nat, S \in Nat, i \in Nat, size \in ProgSizes :
        /\ P = PERIPHERAL_BASE /\ S = USER_STACK_ADDR /\ i = op.i /\ size = mm[op.task].prog_sz
        /\ P + PageSize <= S /\ P % PageSize = 0 /\ size <= P /\ size \in Nat
  BY RegionsPlaced, MappingIs DEF Programs, Mapping
<1>2. PageSize \in Nat \ {0} /\ StackSize \in Nat \ {0}
  BY Constants
<1>3. PICK j \in Nat : i = j * PageSize
  BY <1>1 DEF Layout, WalkPlaced
<1>4. i % PageSize = 0
  <2>1. i \in Int /\ j \in Int
    OBVIOUS
  <2> QED
    BY <1>2, <1>3, <2>1, Multiple
<1>5. i < Req.size
  BY <1>1, MappingIs
<1>6. i < P => i + PageSize <= P
  <2>1. i \in Int /\ P \in Int
    OBVIOUS
  <2> QED
    BY <1>1, <1>2, <1>4, <2>1, Multiples
<1>7. i < PageSize => i + PageSize <= PageSize
  <2>1. i \in Int /\ PageSize \in Int /\ PageSize % PageSize = 0
    BY <1>2
  <2> QED
    BY <1>2, <1>4, <2>1, Multiples
<1>8. /\ ProgReq(op.task).va = 0 /\ ProgReq(op.task).size = size
      /\ StackReq(stack).va = S /\ DeviceReq.va = P /\ DeviceReq.size = PageSize
  BY <1>1 DEF ProgReq, StackReq, DeviceReq, Request, USER_PROG_START
<1>9. CASE q = ProgReq(op.task)
  <2>1. q.va + d < P /\ q.va + d \in Nat
    BY <1>1, <1>8, <1>9
  <2>2. CASE Req = StackReq(stack) \/ Req = DeviceReq
    <3>1. Req.va \in Nat /\ Req.va >= P
      BY <1>1, <1>2, <1>8, <2>2
    <3> QED
      BY <1>1, <2>1, <3>1
  <2> QED
    BY <1>9, <2>2
<1>10. CASE q = StackReq(stack)
  <2>1. q.va + d >= S /\ q.va + d \in Int
    <3>1. d \in Nat /\ q.va = S
      BY <1>8, <1>10
    <3> QED
      BY <1>1, <3>1
  <2>2. CASE Req = ProgReq(op.task)
    <3>1. Req.va = 0 /\ i + PageSize <= P
      BY <1>1, <1>5, <1>6, <1>8, <2>2
    <3> QED
      BY <1>1, <1>2, <2>1, <3>1
  <2>3. CASE Req = DeviceReq
    <3>1. Req.va = P /\ i + PageSize <= PageSize
      BY <1>5, <1>7, <1>8, <2>3
    <3> QED
      BY <1>1, <1>2, <2>1, <3>1
  <2> QED
    BY <1>10, <2>2, <2>3
<1> QED
  BY <1>9, <1>10

(* The requests of program and stack.                                      *)
LEMMA RequestsAre ==
  ASSUME TypeOK, Programs, op # Idle, NEW stack \in Nat, LaunchAt(stack)
  PROVE  /\ ProgReq(op.task) \in Requests /\ ProgReq(op.task).pa > 0
         /\ ProgReq(op.task).va + ProgReq(op.task).size <= NrVPages * PageSize
         /\ StackReq(stack) \in Requests /\ StackReq(stack).pa > 0
         /\ StackReq(stack).va + StackReq(stack).size <= NrVPages * PageSize
<1>1. op.task \in Tasks
  BY DEF TypeOK, Ops
<1>2. PICK size \in ProgSizes, prog \in Nat : size = mm[op.task].prog_sz /\ prog = mm[op.task].prog_addr
  BY <1>1 DEF Programs, TypeOK
<1>3. /\ size \in Nat /\ USER_PROG_START \in Nat /\ USER_PROG_START + size <= NrVPages * PageSize
      /\ StackSize \in Nat /\ USER_STACK_ADDR + StackSize <= NrVPages * PageSize
      /\ USER_STACK_ADDR \in Nat
  BY RegionsInRange, RegionsPlaced
<1>4. prog > 0 /\ stack > 0
  BY <1>2 DEF LaunchAt, Held
<1> QED
  BY <1>2, <1>3, <1>4 DEF ProgReq, StackReq, Request, Requests

(* The steps of walk() above the last level.                               *)
LEMMA WalkQuietSees ==
  ASSUME TypeOK, Programs, NEW where, Layout(where), SeesInv, Mapping,
         NEW where2, Trees(tables', brk', where2), Agree(where, where2),
         DOMAIN tables \subseteq DOMAIN tables', op' # Idle,
         op'.task = op.task, op'.parent = op.parent, op'.kind = op.kind, op'.image = op.image,
         op'.pgd = op.pgd, op'.reqs = op.reqs, op'.i = op.i,
         UNCHANGED <<state, pgd, mm, mem>>, brk' \in Nat, brk <= brk',
         \A x : \A va \in Nat : LeafKept(where, x, va)
  PROVE  SeesInv'
<1>1. op # Idle
  BY DEF Mapping
<1>2. /\ UsersPlaced' /\ (ImageCopied => ImageCopied')
      /\ \A stack : ParentCopied(stack) => ParentCopied(stack)'
  BY <1>1, WalkOthers
<1>3. PICK stack \in Nat : LaunchAt(stack) /\ ImageCopied /\ ParentCopied(stack)
  BY <1>1 DEF SeesInv, LaunchPlaced
<1>4. PICK p, s : p = ProgReq(op.task) /\ s = StackReq(stack)
  OBVIOUS
<1>5. /\ p \in Requests /\ p.pa > 0 /\ p.va + p.size <= NrVPages * PageSize
      /\ s \in Requests /\ s.pa > 0 /\ s.va + s.size <= NrVPages * PageSize
      /\ RegionAt(tables, op, p) /\ RegionAt(tables, op, s)
  BY <1>1, <1>3, <1>4, RequestsAre DEF LaunchAt
<1>6. RegionAt(tables', op', p) /\ RegionAt(tables', op', s)
  <2>1. RegionAt(tables', op', p)
    BY <1>5, RegionQuiet
  <2>2. RegionAt(tables', op', s)
    BY <1>5, RegionQuiet
  <2> QED
    BY <2>1, <2>2
<1>7. ProgReq(op.task)' = p /\ StackReq(stack)' = s
  BY <1>4 DEF ProgReq, StackReq
<1>8. Held(mm[op.task].prog_addr, mm[op.task].prog_sz)' /\ Held(stack, StackSize)'
  <2>1. PICK pa \in Nat, n \in Nat : pa = mm[op.task].prog_addr /\ n = mm[op.task].prog_sz
    BY <1>1 DEF TypeOK, Ops
  <2>2. Held(pa, n) /\ Held(stack, StackSize) /\ StackSize \in Nat
    BY <1>3, <2>1, Constants DEF LaunchAt
  <2>3. Held(pa, n)' /\ Held(stack, StackSize)'
    BY <2>2, HeldKept
  <2> QED
    BY <2>1, <2>3
<1>9. LaunchAt(stack)'
  BY <1>3, <1>4, <1>6, <1>7, <1>8 DEF LaunchAt, DeviceReq
<1> QED
  BY <1>2, <1>3, <1>9 DEF SeesInv, LaunchPlaced

(* A level of walk() that exists already.                                  *)
LEMMA WalkDownSees ==
  ASSUME TypeOK, Programs, NEW where, Layout(where), SeesInv, WalkDown
  PROVE  SeesInv'
<1>1. Mapping /\ UNCHANGED <<state, pgd, mm, tables, mem, brk>>
  BY DEF WalkDown
<1>2. op \in Ops /\ brk \in Nat
  BY <1>1, MappingIs DEF TypeOK
<1>3. op' = [op EXCEPT !.table = tables[op.table][Idx], !.level = @ + 1]
  BY DEF WalkDown
<1>4. /\ op'.task = op.task /\ op'.parent = op.parent /\ op'.kind = op.kind
      /\ op'.image = op.image /\ op'.pgd = op.pgd /\ op'.reqs = op.reqs /\ op'.i = op.i
  BY <1>2, <1>3 DEF Ops
<1>5. op' # Idle
  <2>1. "reqs" \in DOMAIN op'
    BY <1>2, <1>3 DEF Ops
  <2> QED
    BY <2>1 DEF Idle
<1>6. \A x : \A va \in Nat : LeafKept(where, x, va)
  BY <1>1 DEF LeafKept
<1>7. Trees(tables', brk', where) /\ Agree(where, where) /\ DOMAIN tables \subseteq DOMAIN tables'
  BY <1>1 DEF Layout, Agree
<1>8. UNCHANGED <<state, pgd, mm, mem>> /\ brk' \in Nat /\ brk <= brk'
  BY <1>1, <1>2
<1> QED
  BY <1>1, <1>4, <1>5, <1>6, <1>7, <1>8, WalkQuietSees

(* A level of walk() that is added.                                        *)
LEMMA WalkNewTableSees ==
  ASSUME TypeOK, Programs, NEW where, Layout(where), SeesInv, WalkNewTable
  PROVE  SeesInv'
<1>1. /\ Mapping /\ op.level < Levels - 1 /\ UNCHANGED <<state, pgd, mm, mem>> /\ brk' = brk + 1
      /\ tables' = WithTable([tables EXCEPT ![op.table][Idx] = brk], brk)
  BY DEF WalkNewTable
<1>2. /\ op \in Ops /\ brk \in Nat /\ op.table \in DOMAIN tables /\ op.level \in Nat
      /\ where[op.table][2] = op.level
  BY <1>1, MappingIs DEF TypeOK
<1>3. op' = [op EXCEPT !.table = brk, !.level = @ + 1]
  BY DEF WalkNewTable
<1>4. /\ op'.task = op.task /\ op'.parent = op.parent /\ op'.kind = op.kind
      /\ op'.image = op.image /\ op'.pgd = op.pgd /\ op'.reqs = op.reqs /\ op'.i = op.i
  BY <1>2, <1>3 DEF Ops
<1>5. op' # Idle
  <2>1. "reqs" \in DOMAIN op'
    BY <1>2, <1>3 DEF Ops
  <2> QED
    BY <2>1 DEF Idle
<1>6. PICK where2 : Layout(where2)' /\ Agree(where, where2)
  BY WalkNewTableKeeps
<1>7. \A f \in DOMAIN tables : f # brk
  BY <1>2 DEF Layout, Trees, TablesTyped
<1>8. \A f \in DOMAIN tables : f # op.table => tables'[f] = tables[f]
  BY <1>1, <1>7 DEF WithTable
<1>9. ASSUME NEW x, NEW va \in Nat PROVE LeafKept(where, x, va)
  <2> SUFFICES ASSUME NEW f \in DOMAIN tables, where[f] = OnPath(x, va, Levels - 1)
               PROVE  f # op.table
    BY <1>8 DEF LeafKept
  <2>1. where[f][2] = Levels - 1
    BY DEF OnPath
  <2> QED
    BY <1>1, <1>2, <2>1, Constants
<1>10. Trees(tables', brk', where2)
  BY <1>6 DEF Layout
<1>11. DOMAIN tables \subseteq DOMAIN tables'
  BY <1>1 DEF WithTable
<1>12. UNCHANGED <<state, pgd, mm, mem>> /\ brk' \in Nat /\ brk <= brk'
  BY <1>1, <1>2
<1>13. \A x : \A va \in Nat : LeafKept(where, x, va)
  BY <1>9
<1> QED
  BY <1>1, <1>4, <1>5, <1>6, <1>10, <1>11, <1>12, <1>13, WalkQuietSees

(* The last level of walk().                                               *)
LEMMA WalkLeafSees ==
  ASSUME TypeOK, Programs, NEW where, Layout(where), SeesInv, WalkLeaf
  PROVE  SeesInv'
<1>1. Mapping /\ op # Idle /\ UNCHANGED <<state, pgd, mm, mem, brk>>
  BY DEF WalkLeaf, Mapping
<1>2. /\ op'.kind = op.kind /\ op'.task = op.task /\ op'.parent = op.parent
      /\ op'.image = op.image /\ op'.pgd = op.pgd
  BY WalkLeafOp
<1>3. /\ op.i + PageSize < Req.size => op'.reqs = op.reqs
      /\ ~ (op.i + PageSize < Req.size) => op'.reqs = Tail(op.reqs)
  BY WalkLeafOp
<1>4. op \in Ops /\ op.reqs \in Seq(Requests) /\ Len(op.reqs) \in Nat \ {0} /\ brk \in Nat
  BY <1>1, MappingIs DEF TypeOK
<1>5. op' # Idle
  <2>1. "reqs" \in DOMAIN op'
    BY <1>4 DEF WalkLeaf, Ops
  <2> QED
    BY <2>1 DEF Idle
<1>6. \A x : x # op.pgd => \A va \in Nat : LeafKept(where, x, va)
  BY WalkLeafOthers
<1>7. Trees(tables', brk', where) /\ Agree(where, where)
  BY WalkLeafKeeps DEF Layout, Agree
<1>8. DOMAIN tables \subseteq DOMAIN tables'
  BY DEF WalkLeaf
<1>9. UNCHANGED <<state, pgd, mm, mem>> /\ brk' \in Nat /\ brk <= brk'
  BY <1>1, <1>4
<1>10. /\ UsersPlaced' /\ (ImageCopied => ImageCopied')
       /\ \A stack : ParentCopied(stack) => ParentCopied(stack)'
  BY <1>1, <1>2, <1>5, <1>6, <1>7, <1>8, <1>9, WalkOthers
<1>11. PICK stack \in Nat : LaunchAt(stack) /\ ImageCopied /\ ParentCopied(stack)
  BY <1>1 DEF SeesInv, LaunchPlaced
<1>12. PICK p, s : p = ProgReq(op.task) /\ s = StackReq(stack)
  OBVIOUS
<1>13. /\ p \in Requests /\ p.pa > 0 /\ p.va + p.size <= NrVPages * PageSize
       /\ s \in Requests /\ s.pa > 0 /\ s.va + s.size <= NrVPages * PageSize
       /\ RegionAt(tables, op, p) /\ RegionAt(tables, op, s)
  BY <1>1, <1>11, <1>12, RequestsAre DEF LaunchAt
<1>14. \A k \in 1 .. Len(op.reqs) : op.reqs[k] \in {p, s, DeviceReq}
  BY <1>11, <1>12 DEF LaunchAt
<1>15. Req \in {ProgReq(op.task), StackReq(stack), DeviceReq}
  <2>1. 1 \in 1 .. Len(op.reqs)
    BY <1>4
  <2> QED
    BY <1>12, <1>14, <2>1 DEF Req
<1>16. ASSUME NEW q \in {p, s}
       PROVE  \A d \in 0 .. q.size - 1 :
                Req = q \/ q.va + d \notin Req.va + op.i .. Req.va + op.i + PageSize - 1
  <2>1. q \in {ProgReq(op.task), StackReq(stack)}
    BY <1>12
  <2> QED
    BY <1>1, <1>15, <2>1, PagesApart
<1>17. RegionAt(tables', op', p) /\ RegionAt(tables', op', s)
  <2>1. RegionAt(tables', op', p)
    BY <1>13, <1>16, RegionLeaf
  <2>2. RegionAt(tables', op', s)
    BY <1>13, <1>16, RegionLeaf
  <2> QED
    BY <2>1, <2>2
<1>18. \A k \in 1 .. Len(op'.reqs) : op'.reqs[k] \in {p, s, DeviceReq}
  <2>1. CASE op.i + PageSize < Req.size
    BY <1>3, <1>14, <2>1
  <2>2. CASE ~ (op.i + PageSize < Req.size)
    <3>1. PICK rs \in Seq(Requests) : rs = op.reqs /\ Len(rs) \in Nat \ {0}
      BY <1>4
    <3>2. \A k \in 1 .. Len(Tail(rs)) : Tail(rs)[k] = rs[k + 1] /\ k + 1 \in 1 .. Len(rs)
      BY <3>1
    <3> QED
      BY <1>3, <1>14, <2>2, <3>1, <3>2
  <2> QED
    BY <2>1, <2>2
<1>19. ProgReq(op.task)' = p /\ StackReq(stack)' = s /\ DeviceReq' = DeviceReq
  BY <1>1, <1>2, <1>12 DEF ProgReq, StackReq, DeviceReq
<1>20. Held(mm[op.task].prog_addr, mm[op.task].prog_sz)' /\ Held(stack, StackSize)'
  BY <1>1, <1>2, <1>11 DEF LaunchAt, Held
<1>21. LaunchAt(stack)'
  BY <1>17, <1>18, <1>19, <1>20 DEF LaunchAt
<1> QED
  BY <1>10, <1>11, <1>21 DEF SeesInv, LaunchPlaced

(* A block that kmalloc() has handed out for a size holds it.              *)
LEMMA BlockHeld ==
  ASSUME SizesFit, NEW size \in ProgSizes \cup {StackSize}, NEW f \in Nat, f > 0,
         brk' \in Nat, brk' <= NrFrames, f + BlockLen(size) <= brk'
  PROVE  Held(f * PageSize, size)'
<1>1. PageSize \in Nat \ {0} /\ NrFrames \in Nat /\ size \in Nat
  BY Constants, RegionsPlaced
<1>2. PICK n \in Nat \ {0} : n = BlockLen(size)
  BY <1>1, BlockLenIs
<1>3. PICK b \in Nat : b = brk' /\ f + n <= b /\ b <= NrFrames
  BY <1>2
<1>4. (f + n) * PageSize <= b * PageSize /\ b * PageSize <= NrFrames * PageSize
  <2>1. f + n \in Nat
    OBVIOUS
  <2> QED
    BY <1>1, <1>3, <2>1, Scaled
<1>5. PICK v \in Nat, w \in Nat, x \in Nat, y \in Nat :
        v = f * PageSize /\ w = n * PageSize /\ x = b * PageSize /\ y = NrFrames * PageSize
  BY <1>1
<1>6. (f + n) * PageSize = f * PageSize + n * PageSize
  BY <1>1
<1>7. v + w <= x /\ x <= y /\ size <= w
  BY <1>2, <1>4, <1>5, <1>6 DEF SizesFit
<1>8. v > 0
  BY <1>1, <1>5
<1>9. v + size <= x /\ v + size <= y
  BY <1>1, <1>7
<1> QED
  BY <1>3, <1>5, <1>8, <1>9 DEF Held

(* At the beginning of a launch every region waits.                        *)
LEMMA RegionsWait ==
  ASSUME NEW o, NEW q1, NEW q2, NEW q3,
         Len(o.reqs) = 3, o.reqs[1] = q1, o.reqs[2] = q2, o.reqs[3] = q3, o.i = 0, NEW ts
  PROVE  /\ RegionAt(ts, o, q1) /\ RegionAt(ts, o, q2)
         /\ \A k \in 1 .. Len(o.reqs) : o.reqs[k] \in {q1, q2, q3}
<1>1. Shown(ts, o.pgd, q1.va, q1.pa, o.i)
  BY DEF Shown
<1>2. 1 \in 1 .. Len(o.reqs) /\ 2 \in 1 .. Len(o.reqs) /\ \A k \in 1 .. 3 : k = 1 \/ k = 2 \/ k = 3
  OBVIOUS
<1> QED
  BY <1>1, <1>2 DEF RegionAt

(* do_exec() and sys_fork() leave the tables there are: the other tasks    *)
(* see what they saw.                                                      *)
LEMMA LaunchOthers ==
  ASSUME TypeOK, Programs, NEW where, Layout(where), SeesInv, op = Idle,
         NEW where2, Trees(tables', brk', where2), Agree(where, where2),
         DOMAIN tables \subseteq DOMAIN tables', \A f \in DOMAIN tables : tables'[f] = tables[f],
         brk' \in Nat, brk <= brk', NEW u \in Tasks, state[u] = "user",
         pgd'[u] = pgd[u], mm'[u] = mm[u]
  PROVE  /\ Placed(u) /\ Placed(u)'
         /\ \A d \in 0 .. mm[u].prog_sz - 1 :
              WalkIn(tables', pgd[u], USER_PROG_START + d) = WalkIn(tables, pgd[u], USER_PROG_START + d)
         /\ \A d \in 0 .. StackSize - 1 :
              WalkIn(tables', pgd[u], USER_STACK_ADDR + d) = WalkIn(tables, pgd[u], USER_STACK_ADDR + d)
<1>1. Placed(u) /\ mm[u].prog_sz \in ProgSizes
  BY DEF SeesInv, UsersPlaced, Programs
<1>2. \A va \in Nat : LeafKept(where, pgd[u], va)
  BY DEF LeafKept
<1> QED
  BY <1>1, <1>2, PlacedKept

(* do_exec().                                                              *)
LEMMA DoExecSees ==
  ASSUME SizesFit, TypeOK, Programs, NEW where, Layout(where), SeesInv,
         NEW t \in Tasks, NEW size \in ProgSizes, NEW image \in Values, DoExec(t, size, image)
  PROVE  SeesInv'
<1>1. brk \in Nat /\ brk > 0 /\ pgd \in [Tasks -> Nat]
      /\ \A g \in DOMAIN tables : g \in Nat /\ g < brk /\ g > 0
  BY DEF Layout, TypeOK, Trees, TablesTyped
<1>2. size \in Nat /\ StackSize \in Nat /\ PageSize \in Nat \ {0} /\ NrFrames \in Nat /\ Levels \in Nat \ {0}
  BY Constants, RegionsPlaced
<1>3. PICK n \in Nat \ {0}, s \in Nat \ {0} : n = BlockLen(size) /\ s = BlockLen(StackSize)
  BY <1>2, BlockLenIs
<1>4. PICK prog \in Nat : prog = Block(brk, size) /\ prog >= brk
  BY <1>1, <1>2, BlockIs
<1>5. PICK top \in Nat : top = prog + n
  BY <1>3
<1>6. PICK table \in Nat : table = IF pgd[t] = 0 THEN top ELSE pgd[t]
  BY <1>1
<1>7. PICK lo \in Nat : lo = (IF pgd[t] = 0 THEN top + 1 ELSE top) /\ lo >= top
  BY <1>5
<1>8. PICK stack \in Nat : stack = Block(lo, StackSize) /\ stack >= lo
  BY <1>2, <1>7, BlockIs
<1>9. /\ op = Idle /\ RoomFor(stack + s) /\ brk' = stack + s
      /\ pgd' = [pgd EXCEPT ![t] = table]
      /\ tables' = IF pgd[t] = 0 THEN WithTable(tables, table) ELSE tables
      /\ mem' = Filled(mem, prog * PageSize, size, image)
      /\ mm' = [mm EXCEPT ![t] = [prog_addr |-> prog * PageSize, prog_sz |-> size]]
      /\ op' = Launch("exec", t, t, image, table, ExecRequests(prog, size, stack))
      /\ state' = state
  BY <1>3, <1>4, <1>5, <1>6, <1>7, <1>8 DEF DoExec
<1>10. brk' \in Nat /\ brk <= brk' /\ brk' <= NrFrames
  BY <1>1, <1>2, <1>3, <1>4, <1>5, <1>7, <1>8, <1>9 DEF RoomFor
<1>11. DOMAIN tables \subseteq DOMAIN tables' /\ \A f \in DOMAIN tables : tables'[f] = tables[f]
  <2>1. CASE pgd[t] = 0
    <3>1. \A f \in DOMAIN tables : f # table
      BY <1>1, <1>3, <1>4, <1>5, <1>6, <2>1
    <3> QED
      BY <1>9, <2>1, <3>1 DEF WithTable
  <2>2. CASE pgd[t] # 0
    BY <1>9, <2>2
  <2> QED
    BY <2>1, <2>2
<1>12. PICK where2 : Layout(where2)' /\ Agree(where, where2)
  BY DoExecKeeps
<1>13. Trees(tables', brk', where2)
  BY <1>12 DEF Layout
<1>14. ASSUME NEW u \in Tasks, state[u] = "user", u # t PROVE Placed(u)'
  <2>1. pgd'[u] = pgd[u] /\ mm'[u] = mm[u]
    BY <1>1, <1>9, <1>14 DEF TypeOK
  <2> QED
    BY <1>9, <1>10, <1>11, <1>12, <1>13, <1>14, <2>1, LaunchOthers
<1>15. PICK pa \in Nat, sa \in Nat : pa = prog * PageSize /\ sa = stack * PageSize
  BY <1>2
<1>16. mm'[t].prog_addr = pa /\ mm'[t].prog_sz = size
  BY <1>9, <1>15 DEF TypeOK
<1> DEFINE q1 == Request(USER_PROG_START, size, pa)
           q2 == Request(USER_STACK_ADDR, StackSize, sa)
           q3 == Request(PERIPHERAL_BASE, PageSize, PERIPHERAL_BASE)
<1>17. op' = Launch("exec", t, t, image, table, <<q1, q2, q3>>)
  BY <1>9, <1>15 DEF ExecRequests
<1>18. q1 \in Requests /\ q2 \in Requests /\ q3 \in Requests
  BY <1>2, RegionsPlaced DEF Request, Requests, USER_PROG_START
<1>19. PICK o : o = op' /\ Launched(o, "exec", t, t, image, table, q1, q2, q3)
  <2> HIDE DEF q1, q2, q3
  <2> QED
    BY <1>17, <1>18, LaunchIs
<1>20. /\ RegionAt(tables', op', q1) /\ RegionAt(tables', op', q2)
       /\ \A k \in 1 .. Len(op'.reqs) : op'.reqs[k] \in {q1, q2, q3}
  <2> HIDE DEF q1, q2, q3
  <2> QED
    BY <1>19, RegionsWait DEF Launched
<1>21. op'.task = t /\ op'.kind = "exec" /\ op'.image = image
  BY <1>19 DEF Launched
<1>22. ProgReq(op.task)' = q1 /\ StackReq(sa)' = q2 /\ DeviceReq' = q3
  BY <1>16, <1>21 DEF ProgReq, StackReq, DeviceReq
<1>23. Held(pa, size)' /\ Held(sa, StackSize)'
  <2>1. Held(prog * PageSize, size)'
    <3>1. prog > 0 /\ prog + BlockLen(size) <= brk'
      BY <1>1, <1>3, <1>4, <1>5, <1>7, <1>8, <1>9
    <3> QED
      BY <1>10, <3>1, BlockHeld
  <2>2. Held(stack * PageSize, StackSize)'
    <3>1. stack > 0 /\ stack + BlockLen(StackSize) <= brk'
      BY <1>1, <1>3, <1>4, <1>5, <1>7, <1>8, <1>9
    <3> QED
      BY <1>10, <3>1, BlockHeld
  <2> QED
    BY <1>15, <2>1, <2>2
<1> HIDE DEF q1, q2, q3
<1>24. LaunchAt(sa)'
  BY <1>16, <1>20, <1>21, <1>22, <1>23 DEF LaunchAt
<1>25. ImageCopied'
  <2>1. ASSUME NEW d \in 0 .. size - 1 PROVE mem'[pa + d] = image
    <3>1. PICK y \in Nat : y = NrFrames * PageSize /\ pa + size <= y
      BY <1>2, <1>23 DEF Held
    <3>2. pa + d \in 0 .. y - 1 /\ pa + d \in pa .. pa + size - 1
      BY <1>2, <3>1
    <3> QED
      BY <1>9, <1>15, <3>1, <3>2 DEF Filled, Words
  <2> QED
    BY <1>16, <1>21, <2>1 DEF ImageCopied
<1>26. ParentCopied(sa)'
  BY <1>21 DEF ParentCopied
<1>27. UsersPlaced'
  BY <1>9, <1>14, <1>19, <1>21, OpIs DEF UsersPlaced, Launched
<1> QED
  BY <1>24, <1>25, <1>26, <1>27 DEF SeesInv, LaunchPlaced

(* Two copies, one above the other, from below: each holds what is below,  *)
(* which stays.                                                            *)
SameWords(m2, to, m, from, len) == \A d \in 0 .. len - 1 : m2[to + d] = m[from + d]
BothCopied(m2, m, to1, from1, len1, to2, from2, len2) ==
  m2 = Copied(Copied(m, to1, from1, len1), to2, from2, len2)
LEMMA CopiedTwice ==
  ASSUME NEW m, NEW to1 \in Nat, NEW from1 \in Nat, NEW len1 \in Nat,
         NEW to2 \in Nat, NEW from2 \in Nat, NEW len2 \in Nat,
         from1 + len1 <= to1, from2 + len2 <= to1, to1 + len1 <= to2,
         to2 + len2 <= PERIPHERAL_BASE,
         NEW m2, BothCopied(m2, m, to1, from1, len1, to2, from2, len2)
  PROVE  /\ \A a \in Nat : a < to1 => m2[a] = m[a]
         /\ SameWords(m2, to1, m, from1, len1) /\ SameWords(m2, to2, m, from2, len2)
<1>1. PICK y \in Nat : y = PERIPHERAL_BASE /\ Words = 0 .. y - 1
  BY Constants DEF Words, PERIPHERAL_BASE
<1>2. PICK m1 : m1 = Copied(m, to1, from1, len1)
  OBVIOUS
<1>3. ASSUME NEW a \in 0 .. y - 1
      PROVE  /\ a \in to1 .. to1 + len1 - 1 => m1[a] = m[from1 + a - to1]
             /\ a \notin to1 .. to1 + len1 - 1 => m1[a] = m[a]
             /\ a \in to2 .. to2 + len2 - 1 => m2[a] = m1[from2 + a - to2]
             /\ a \notin to2 .. to2 + len2 - 1 => m2[a] = m1[a]
  BY <1>1, <1>2 DEF BothCopied, Copied
<1>4. to2 + len2 <= y
  BY <1>1
<1>5. ASSUME NEW a \in Nat, a < to1 PROVE m1[a] = m[a] /\ m2[a] = m[a]
  <2>1. a \in 0 .. y - 1 /\ a \notin to1 .. to1 + len1 - 1 /\ a \notin to2 .. to2 + len2 - 1
    BY <1>4, <1>5
  <2> QED
    BY <1>3, <2>1
<1>6. ASSUME NEW d \in 0 .. len1 - 1 PROVE m2[to1 + d] = m[from1 + d]
  <2>1. PICK a \in 0 .. y - 1 : a = to1 + d
    BY <1>4
  <2>2. a \in to1 .. to1 + len1 - 1 /\ a \notin to2 .. to2 + len2 - 1 /\ from1 + a - to1 = from1 + d
    BY <2>1
  <2> QED
    BY <1>3, <2>1, <2>2
<1>7. ASSUME NEW d \in 0 .. len2 - 1 PROVE m2[to2 + d] = m[from2 + d]
  <2>1. PICK a \in 0 .. y - 1 : a = to2 + d
    BY <1>4
  <2>2. a \in to2 .. to2 + len2 - 1 /\ from2 + a - to2 = from2 + d
    BY <2>1
  <2>3. from2 + d \in Nat /\ from2 + d < to1
    OBVIOUS
  <2> QED
    BY <1>3, <1>5, <2>1, <2>2, <2>3
<1> QED
  BY <1>5, <1>6, <1>7 DEF SameWords

(* sys_fork().                                                             *)
LEMMA SysForkSees ==
  ASSUME SizesFit, TypeOK, Programs, NEW where, Layout(where), SeesInv,
         NEW p \in Tasks, NEW c \in Tasks, SysFork(p, c)
  PROVE  SeesInv'
<1>1. brk \in Nat /\ brk > 0 /\ \A g \in DOMAIN tables : g \in Nat /\ g < brk /\ g > 0
  BY DEF Layout, TypeOK, Trees, TablesTyped
<1>2. PICK size \in ProgSizes, from \in Nat :
        size = mm[p].prog_sz /\ from = mm[p].prog_addr /\ state[p] = "user" /\ state[c] = "stopped"
  BY DEF SysFork, FirstStopped, Programs, TypeOK
<1>3. size \in Nat /\ StackSize \in Nat /\ PageSize \in Nat \ {0} /\ NrFrames \in Nat /\ Levels \in Nat \ {0}
  BY Constants, RegionsPlaced
<1>4. PICK n \in Nat \ {0}, s \in Nat \ {0} : n = BlockLen(size) /\ s = BlockLen(StackSize)
  BY <1>3, BlockLenIs
<1>5. PICK stack \in Nat : stack = Block(brk + 1, StackSize) /\ stack >= brk + 1
  <2>1. brk + 1 \in Nat
    BY <1>1
  <2> QED
    BY <1>3, <2>1, BlockIs
<1>6. PICK prog \in Nat : prog = Block(stack + s, size) /\ prog >= stack + s
  <2>1. stack + s \in Nat
    BY <1>4
  <2> QED
    BY <1>3, <2>1, BlockIs
<1>7. /\ op = Idle /\ RoomFor(prog + n) /\ brk' = prog + n
      /\ tables' = WithTable(tables, brk)
      /\ mem' = Copied(Copied(mem, stack * PageSize, ParentStack(p), StackSize),
                       prog * PageSize, from, size)
      /\ mm' = [mm EXCEPT ![c] = [prog_addr |-> prog * PageSize, prog_sz |-> size]]
      /\ op' = Launch("fork", c, p, 0, brk, ForkRequests(prog, size, stack))
      /\ state' = state /\ pgd' = pgd
  BY <1>2, <1>4, <1>5, <1>6 DEF SysFork
<1>8. brk' \in Nat /\ brk <= brk' /\ brk' <= NrFrames
  BY <1>1, <1>3, <1>4, <1>5, <1>6, <1>7 DEF RoomFor
<1>9. DOMAIN tables \subseteq DOMAIN tables' /\ \A f \in DOMAIN tables : tables'[f] = tables[f]
  BY <1>1, <1>7 DEF WithTable
<1>10. PICK where2 : Layout(where2)' /\ Agree(where, where2)
  BY SysForkKeeps
<1>11. Trees(tables', brk', where2)
  BY <1>10 DEF Layout
<1>12. ASSUME NEW u \in Tasks, state[u] = "user"
       PROVE  /\ u # c /\ mm'[u] = mm[u] /\ Placed(u) /\ Placed(u)'
              /\ \A d \in 0 .. mm[u].prog_sz - 1 :
                   WalkIn(tables', pgd[u], USER_PROG_START + d) = WalkIn(tables, pgd[u], USER_PROG_START + d)
              /\ \A d \in 0 .. StackSize - 1 :
                   WalkIn(tables', pgd[u], USER_STACK_ADDR + d) = WalkIn(tables, pgd[u], USER_STACK_ADDR + d)
  <2>1. u # c /\ pgd'[u] = pgd[u] /\ mm'[u] = mm[u]
    BY <1>2, <1>7, <1>12 DEF TypeOK
  <2> QED
    BY <1>7, <1>8, <1>9, <1>10, <1>11, <1>12, <2>1, LaunchOthers
<1>13. PICK pa \in Nat, sa \in Nat : pa = prog * PageSize /\ sa = stack * PageSize
  BY <1>3
<1>14. mm'[c].prog_addr = pa /\ mm'[c].prog_sz = size
  BY <1>7, <1>13 DEF TypeOK
<1> DEFINE q1 == Request(USER_STACK_ADDR, StackSize, sa)
           q2 == Request(USER_PROG_START, size, pa)
           q3 == Request(PERIPHERAL_BASE, PageSize, PERIPHERAL_BASE)
<1>15. op' = Launch("fork", c, p, 0, brk, <<q1, q2, q3>>)
  BY <1>7, <1>13 DEF ForkRequests
<1>16. q1 \in Requests /\ q2 \in Requests /\ q3 \in Requests
  BY <1>3, RegionsPlaced DEF Request, Requests, USER_PROG_START
<1>17. PICK o : o = op' /\ Launched(o, "fork", c, p, 0, brk, q1, q2, q3)
  <2> HIDE DEF q1, q2, q3
  <2>1. 0 \in Values \cup {0} /\ "fork" \in {"exec", "fork"}
    OBVIOUS
  <2> QED
    BY <1>1, <1>15, <1>16, <2>1, LaunchIs
<1>18. /\ RegionAt(tables', op', q1) /\ RegionAt(tables', op', q2)
       /\ \A k \in 1 .. Len(op'.reqs) : op'.reqs[k] \in {q1, q2, q3}
  <2> HIDE DEF q1, q2, q3
  <2> QED
    BY <1>17, RegionsWait DEF Launched
<1>19. op'.task = c /\ op'.parent = p /\ op'.kind = "fork" /\ op' # Idle
  BY <1>17, OpIs DEF Launched
<1>20. ProgReq(op.task)' = q2 /\ StackReq(sa)' = q1 /\ DeviceReq' = q3
  BY <1>14, <1>19 DEF ProgReq, StackReq, DeviceReq
<1>21. Held(pa, size)' /\ Held(sa, StackSize)'
  <2>1. Held(prog * PageSize, size)'
    <3>1. prog > 0 /\ prog + BlockLen(size) <= brk'
      BY <1>1, <1>4, <1>5, <1>6, <1>7
    <3> QED
      BY <1>8, <3>1, BlockHeld
  <2>2. Held(stack * PageSize, StackSize)'
    <3>1. stack > 0 /\ stack + BlockLen(StackSize) <= brk'
      BY <1>1, <1>4, <1>5, <1>6, <1>7
    <3> QED
      BY <1>8, <3>1, BlockHeld
  <2> QED
    BY <1>13, <2>1, <2>2
<1> HIDE DEF q1, q2, q3
<1>22. LaunchAt(sa)'
  BY <1>14, <1>18, <1>19, <1>20, <1>21 DEF LaunchAt
<1>23. UsersPlaced'
  BY <1>7, <1>12 DEF UsersPlaced
<1>24. ImageCopied'
  BY <1>19 DEF ImageCopied
<1>25. Placed(p)
  BY <1>2, <1>12
<1>26. PICK sp \in Nat : Held(sp, StackSize) /\ Shown(tables, pgd[p], USER_STACK_ADDR, sp, StackSize)
  BY <1>25 DEF Placed
<1>27. Held(from, size) /\ Shown(tables, pgd[p], USER_PROG_START, from, size)
  BY <1>2, <1>25 DEF Placed
<1>28. ParentStack(p) = sp
  <2>1. USER_STACK_ADDR + 0 = USER_STACK_ADDR /\ 0 \in 0 .. StackSize - 1 /\ sp + 0 = sp
    BY RegionsPlaced, Constants
  <2>2. WalkIn(tables, pgd[p], USER_STACK_ADDR + 0) = sp + 0
    BY <1>26, <2>1 DEF Shown
  <2> QED
    BY <2>1, <2>2, SimulateWalkIs DEF ParentStack
<1>29. PICK b \in Nat : b = brk * PageSize
  BY <1>1, <1>3
<1>30. b <= sa
  <2>1. brk <= stack
    BY <1>1, <1>5
  <2> QED
    BY <1>1, <1>3, <1>13, <1>29, <2>1, Scaled
<1>31. sa + StackSize <= pa
  <2>1. PICK e \in Nat : e = stack + s /\ e <= prog
    BY <1>4, <1>6
  <2>2. e * PageSize <= prog * PageSize
    BY <1>3, <2>1, Scaled
  <2>3. e * PageSize = stack * PageSize + s * PageSize
    BY <1>3, <2>1
  <2>4. PICK w \in Nat : w = s * PageSize /\ StackSize <= w
    BY <1>3, <1>4 DEF SizesFit
  <2> QED
    BY <1>3, <1>13, <2>2, <2>3, <2>4
<1>32. pa + size <= PERIPHERAL_BASE
  BY <1>21 DEF Held, PERIPHERAL_BASE
<1>33. sp + StackSize <= b /\ from + size <= b
  BY <1>26, <1>27, <1>29 DEF Held
<1>34. /\ \A a \in Nat : a < b => mem'[a] = mem[a]
       /\ \A d \in 0 .. StackSize - 1 : mem'[sa + d] = mem[sp + d]
       /\ \A d \in 0 .. size - 1 : mem'[pa + d] = mem[from + d]
  <2>1. mem' = Copied(Copied(mem, sa, sp, StackSize), pa, from, size)
    BY <1>7, <1>13, <1>28
  <2>2. PICK m2 : m2 = mem'
    OBVIOUS
  <2>3. BothCopied(m2, mem, sa, sp, StackSize, pa, from, size)
    BY <2>1, <2>2 DEF BothCopied
  <2>4. sp + StackSize <= sa /\ from + size <= sa
    BY <1>3, <1>30, <1>33
  <2>5. /\ \A a \in Nat : a < sa => m2[a] = mem[a]
        /\ SameWords(m2, sa, mem, sp, StackSize) /\ SameWords(m2, pa, mem, from, size)
    BY <1>3, <1>31, <1>32, <2>3, <2>4, CopiedTwice
  <2> QED
    BY <1>30, <2>2, <2>5 DEF SameWords
<1>35. \A d \in 0 .. size - 1 :
         mem'[pa + d] = mem'[WalkIn(tables', pgd[p], USER_PROG_START + d)]
  <2> TAKE d \in 0 .. size - 1
  <2>1. WalkIn(tables', pgd[p], USER_PROG_START + d) = from + d
    BY <1>2, <1>12, <1>27 DEF Shown
  <2>2. from + d \in Nat /\ from + d < b
    BY <1>3, <1>33
  <2> QED
    BY <1>34, <2>1, <2>2
<1>36. \A d \in 0 .. StackSize - 1 :
         mem'[sa + d] = mem'[WalkIn(tables', pgd[p], USER_STACK_ADDR + d)]
  <2> TAKE d \in 0 .. StackSize - 1
  <2>1. WalkIn(tables', pgd[p], USER_STACK_ADDR + d) = sp + d
    BY <1>2, <1>12, <1>26 DEF Shown
  <2>2. sp + d \in Nat /\ sp + d < b
    BY <1>3, <1>33
  <2> QED
    BY <1>34, <2>1, <2>2
<1>37. ParentCopied(sa)'
  <2>1. p # c /\ state'[p] = "user" /\ mm'[p].prog_sz = size /\ pgd' = pgd
    BY <1>2, <1>7, <1>12
  <2> QED
    BY <1>14, <1>19, <1>35, <1>36, <2>1 DEF ParentCopied
<1> QED
  BY <1>22, <1>23, <1>24, <1>37 DEF SeesInv, LaunchPlaced

(* At the end of a launch both regions are mapped.                         *)
LEMMA LaunchShown ==
  ASSUME op.reqs = <<>>, NEW stack \in Nat, LaunchAt(stack)
  PROVE  /\ Shown(tables, op.pgd, USER_PROG_START, mm[op.task].prog_addr, mm[op.task].prog_sz)
         /\ Shown(tables, op.pgd, USER_STACK_ADDR, stack, StackSize)
<1>1. \A q : RegionAt(tables, op, q) => Shown(tables, op.pgd, q.va, q.pa, q.size)
  BY DEF RegionAt
<1> QED
  BY <1>1 DEF LaunchAt, ProgReq, StackReq, Request

(* The end of an exec or a fork.                                           *)
LEMMA LaunchEndsSees ==
  ASSUME TypeOK, NEW where, Layout(where), SeesInv, LaunchEnds
  PROVE  SeesInv'
<1>1. /\ op # Idle /\ op.reqs = <<>> /\ op \in Ops
      /\ state' = [state EXCEPT ![op.task] = "user"]
      /\ pgd' = [pgd EXCEPT ![op.task] = op.pgd]
      /\ op' = Idle /\ UNCHANGED <<mm, tables, mem, brk>>
  BY DEF LaunchEnds, ChildPgd, TypeOK
<1>2. op.task \in Tasks /\ op.pgd \in DOMAIN tables
  BY <1>1 DEF Ops, Layout, LaunchRooted
<1>3. op.pgd # 0
  BY <1>2 DEF Layout, Trees, TablesTyped
<1>4. PICK stack \in Nat : LaunchAt(stack)
  BY <1>1 DEF SeesInv, LaunchPlaced
<1>5. /\ Shown(tables, op.pgd, USER_PROG_START, mm[op.task].prog_addr, mm[op.task].prog_sz)
      /\ Shown(tables, op.pgd, USER_STACK_ADDR, stack, StackSize)
  BY <1>1, <1>4, LaunchShown
<1>6. /\ pgd'[op.task] = op.pgd /\ \A u \in Tasks : u # op.task => pgd'[u] = pgd[u] /\ state'[u] = state[u]
  BY <1>1, <1>2 DEF TypeOK
<1>7. ASSUME NEW u \in Tasks, state'[u] = "user" PROVE Placed(u)'
  <2>1. CASE u = op.task
    <3>1. Held(mm[u].prog_addr, mm[u].prog_sz) /\ Held(stack, StackSize)
      BY <1>4, <2>1 DEF LaunchAt
    <3>2. pgd'[u] = op.pgd /\ tables' = tables /\ mm' = mm /\ brk' = brk
      BY <1>1, <1>6, <2>1
    <3>3. Held(mm[u].prog_addr, mm[u].prog_sz)' /\ Held(stack, StackSize)'
      BY <3>1, <3>2 DEF Held
    <3> QED
      BY <1>3, <1>5, <2>1, <3>2, <3>3 DEF Placed
  <2>2. CASE u # op.task
    <3>1. Placed(u)
      BY <1>6, <1>7, <2>2 DEF SeesInv, UsersPlaced
    <3>2. pgd'[u] = pgd[u] /\ tables' = tables /\ mm' = mm /\ brk' = brk
      BY <1>1, <1>6, <2>2
    <3> QED
      BY <3>1, <3>2 DEF Placed, Held
  <2> QED
    BY <2>1, <2>2
<1> QED
  BY <1>1, <1>7 DEF SeesInv, UsersPlaced, LaunchPlaced

(* The other steps take place when no launch is under way, and launch no   *)
(* task.                                                                   *)
LEMMA QuietSees ==
  ASSUME SeesInv, op = Idle, UNCHANGED <<pgd, mm, tables, brk, op>>,
         \A u \in Tasks : state'[u] = "user" => state[u] = "user"
  PROVE  SeesInv'
<1>1. ASSUME NEW u \in Tasks, state'[u] = "user" PROVE Placed(u)'
  <2>1. Placed(u)
    BY <1>1 DEF SeesInv, UsersPlaced
  <2> QED
    BY <2>1 DEF Placed, Held
<1> QED
  BY <1>1 DEF SeesInv, UsersPlaced, LaunchPlaced

(* Every step keeps what the tasks see.                                    *)
LEMMA SeesInvNext ==
  ASSUME SizesFit, IndInv, SeesInv, [Next]_vars
  PROVE  SeesInv'
<1>1. PICK where : Layout(where)
  BY DEF IndInv
<1>2. TypeOK /\ Programs
  BY DEF IndInv
<1>3. CASE WalkNewTable
  BY <1>1, <1>2, <1>3, WalkNewTableSees
<1>4. CASE WalkDown
  BY <1>1, <1>2, <1>4, WalkDownSees
<1>5. CASE WalkLeaf
  BY <1>1, <1>2, <1>5, WalkLeafSees
<1>6. CASE LaunchEnds
  BY <1>1, <1>2, <1>6, LaunchEndsSees
<1>7. ASSUME NEW t \in Tasks, NEW size \in ProgSizes, NEW image \in Values, DoExec(t, size, image)
      PROVE  SeesInv'
  BY <1>1, <1>2, <1>7, DoExecSees
<1>8. ASSUME NEW t \in Tasks, NEW c \in Tasks, SysFork(t, c)
      PROVE  SeesInv'
  BY <1>1, <1>2, <1>8, SysForkSees
<1>9. ASSUME NEW t \in Tasks, NEW va \in UserWords, NEW v \in Values \cup {0}, Store(t, va, v)
      PROVE  SeesInv'
  <2>1. op = Idle /\ UNCHANGED <<pgd, mm, tables, brk, op>> /\ state' = state
    BY <1>9 DEF Store
  <2> QED
    BY <2>1, QuietSees
<1>10. ASSUME NEW t \in Tasks, Exit(t)
       PROVE  SeesInv'
  <2>1. op = Idle /\ UNCHANGED <<pgd, mm, tables, brk, op>>
    BY <1>10 DEF Exit
  <2>2. state' = [state EXCEPT ![t] = "stopped"]
    BY <1>10 DEF Exit
  <2>3. \A u \in Tasks : state'[u] = "user" => state[u] = "user"
    BY <1>2, <2>2 DEF TypeOK
  <2> QED
    BY <2>1, <2>3, QuietSees
<1>11. CASE UNCHANGED vars
  <2>1. UNCHANGED <<state, pgd, mm, tables, mem, brk, op>>
    BY <1>11 DEF vars
  <2> QED
    BY <2>1 DEF SeesInv, UsersPlaced, Placed, Held, LaunchPlaced, LaunchAt, ProgReq, StackReq,
                DeviceReq, ImageCopied, ParentCopied
<1> QED
  BY <1>3, <1>4, <1>5, <1>6, <1>7, <1>8, <1>9, <1>10, <1>11 DEF Next, Walk

(* What a task sees is what its tables lead to.                            *)
LEMMA ViewIs ==
  ASSUME NEW t, NEW va
  PROVE  /\ View(t, va) = mem[WalkIn(tables, pgd[t], va)]
         /\ View(t, va)' = mem'[WalkIn(tables', pgd'[t], va)]
BY Zenon DEF View, SimulateWalk, WalkIn, Below, BelowIn

(* The end of an exec shows the program, the end of a fork what the parent *)
(* sees.                                                                   *)
LEMMA LaunchEndsShows ==
  ASSUME TypeOK, SeesInv, LaunchEnds, NEW t \in Tasks, NEW p \in Tasks, op.task = t, op.parent = p
  PROVE  IF op.kind = "exec" THEN \A va \in ProgWords(t) : View(t, va)' = op.image
         ELSE \A va \in ProgWords(t) \cup StackWords : View(t, va)' = View(p, va)
<1>1. /\ op # Idle /\ op.reqs = <<>> /\ op \in Ops
      /\ pgd'[t] = op.pgd /\ UNCHANGED <<mm, tables, mem>>
  BY DEF LaunchEnds, ChildPgd, TypeOK
<1>2. PICK stack \in Nat : LaunchAt(stack) /\ ImageCopied /\ ParentCopied(stack)
  BY <1>1 DEF SeesInv, LaunchPlaced
<1>3. PICK size \in Nat, prog \in Nat : size = mm[t].prog_sz /\ prog = mm[t].prog_addr
  BY DEF TypeOK
<1>4. Shown(tables, op.pgd, 0, prog, size) /\ Shown(tables, op.pgd, USER_STACK_ADDR, stack, StackSize)
  BY <1>1, <1>2, <1>3, LaunchShown DEF USER_PROG_START
<1>5. ASSUME NEW va \in ProgWords(t)
      PROVE  va \in 0 .. size - 1 /\ 0 + va = va /\ View(t, va)' = mem[prog + va]
  <2>1. va \in 0 .. size - 1 /\ 0 + va = va
    BY <1>3 DEF ProgWords
  <2>2. WalkIn(tables, op.pgd, va) = prog + va
    BY <1>4, <2>1 DEF Shown
  <2> QED
    BY <1>1, <2>1, <2>2, ViewIs
<1>6. ASSUME NEW va \in StackWords
      PROVE  \E d \in 0 .. StackSize - 1 : va = USER_STACK_ADDR + d /\ View(t, va)' = mem[stack + d]
  <2>1. PICK d \in 0 .. StackSize - 1 : va = USER_STACK_ADDR + d
    <3>1. PICK u \in Nat : u = USER_STACK_ADDR
      BY RegionsPlaced
    <3>2. va \in u .. u + StackSize - 1 /\ StackSize \in Nat
      BY <3>1, Constants DEF StackWords
    <3>3. va - u \in 0 .. StackSize - 1 /\ va = u + (va - u)
      BY <3>2
    <3> QED
      BY <3>1, <3>3
  <2>2. WalkIn(tables, op.pgd, va) = stack + d
    BY <1>4, <2>1 DEF Shown
  <2> QED
    BY <1>1, <2>1, <2>2, ViewIs
<1>7. CASE op.kind = "exec"
  <2>1. \A d \in 0 .. size - 1 : mem[prog + d] = op.image
    BY <1>2, <1>3, <1>7 DEF ImageCopied
  <2> QED
    BY <1>5, <1>7, <2>1
<1>8. CASE op.kind # "exec"
  <2>1. op.kind = "fork"
    BY <1>1, <1>8 DEF Ops
  <2>2. /\ \A d \in 0 .. size - 1 : mem[prog + d] = mem[WalkIn(tables, pgd[p], 0 + d)]
        /\ \A d \in 0 .. StackSize - 1 : mem[stack + d] = mem[WalkIn(tables, pgd[p], USER_STACK_ADDR + d)]
    BY <1>2, <1>3, <2>1 DEF ParentCopied, USER_PROG_START
  <2>3. \A va \in ProgWords(t) : View(t, va)' = View(p, va)
    BY <1>5, <2>2, ViewIs
  <2>4. \A va \in StackWords : View(t, va)' = View(p, va)
    BY <1>6, <2>2, ViewIs
  <2> QED
    BY <1>8, <2>3, <2>4
<1> QED
  BY <1>7, <1>8

(* When do_exec() ends the task sees the whole program from address 0, and *)
(* when sys_fork() ends the child sees what the parent sees, at every      *)
(* address of program and stack: for programs and stacks of any size that  *)
(* the blocks of kmalloc() hold.                                           *)
THEOREM LaunchSeesHolds ==
  ASSUME SizesFit
  PROVE  Spec => LaunchSees
<1> DEFINE Shows ==
      \A t, p \in Tasks :
        LaunchEnds /\ op.task = t /\ op.parent = p =>
          IF op.kind = "exec" THEN \A va \in ProgWords(t) : View(t, va)' = op.image
          ELSE \A va \in ProgWords(t) \cup StackWords : View(t, va)' = View(p, va)
<1>1. Init => IndInv /\ SeesInv
  <2>1. Init => SeesInv
    BY DEF Init, SeesInv, UsersPlaced, LaunchPlaced
  <2> QED
    BY <2>1, IndInvInit
<1>2. IndInv /\ SeesInv /\ [Next]_vars => (IndInv /\ SeesInv)'
  BY IndInvNext, SeesInvNext
<1>3. IndInv /\ SeesInv /\ [Next]_vars => [Shows]_vars
  BY LaunchEndsShows DEF IndInv
<1>4. LaunchSees <=> [][Shows]_vars
  BY DEF LaunchSees
<1> HIDE DEF Shows
<1> QED
  BY <1>1, <1>2, <1>3, <1>4, PTL DEF Spec

-----------------------------------------------------------------------------
(* The allocator of the boot: Memblock.                                    *)

(* ALIGN rounds up to the next multiple.                                   *)
LEMMA AlignIs ==
  ASSUME NEW x \in Nat, NEW a \in Nat \ {0}
  PROVE  /\ ALIGN(x, a) \in Nat /\ x <= ALIGN(x, a)
         /\ ALIGN(x, a) % a = 0
         /\ \A m \in Nat : m % a = 0 /\ x <= m => ALIGN(x, a) <= m
<1>1. PICK y \in Nat : y = x + a - 1
  OBVIOUS
<1>2. PICK q, r : q = y \div a /\ r = y % a
  OBVIOUS
<1>3. q \in Int /\ r \in 0 .. a - 1 /\ y = a * q + r
  BY <1>1, <1>2
<1>4. q \in Nat
  BY <1>1, <1>2, Quotient
<1>5. PICK p \in Nat : p = q * a /\ p = a * q
  BY <1>4
<1>6. ALIGN(x, a) = p
  BY <1>1, <1>2, <1>5 DEF ALIGN
<1>7. p % a = 0
  <2>1. p \in Int /\ q \in Int
    BY <1>3
  <2> QED
    BY <1>5, <2>1, Multiple
<1>8. x <= p /\ p < x + a
  BY <1>1, <1>3, <1>5
<1>9. ASSUME NEW m \in Nat, m % a = 0, x <= m, m < p PROVE FALSE
  <2>1. m + a <= p
    <3>1. m \in Int /\ p \in Int
      OBVIOUS
    <3> QED
      BY <1>7, <1>9, <3>1, Multiples
  <2> QED
    BY <1>8, <1>9, <2>1
<1> QED
  BY <1>6, <1>7, <1>8, <1>9

-----------------------------------------------------------------------------
(* Arrays of regions                                                       *)

(* The address a is in the region r, in one of the regions s.              *)
In(r, a) == r.base <= a /\ a < r.base + r.size
Has(s, a) == \E i \in 1 .. Len(s) : In(s[i], a)

(* Regions in ascending order; regions that do not even touch.             *)
Proper(s) == s \in Seq(Regions) /\ \A i \in 1 .. Len(s) : s[i].size > 0
Ordered(s) ==
  Proper(s) /\ \A i, j \in 1 .. Len(s) : i < j => s[i].base + s[i].size <= s[j].base
Apart(s) ==
  Proper(s) /\ \A i, j \in 1 .. Len(s) : i < j => s[i].base + s[i].size < s[j].base
EndBy(s, x) == \A i \in 1 .. Len(s) : s[i].base + s[i].size <= x
BeginAt(s, x) == \A i \in 1 .. Len(s) : x <= s[i].base

(* A region of the array.                                                  *)
LEMMA RegionIs ==
  ASSUME NEW s, s \in Seq(Regions), NEW i \in 1 .. Len(s)
  PROVE  s[i] \in Regions /\ s[i].base \in Nat /\ s[i].size \in Nat
<1>1. s[i] \in Regions
  OBVIOUS
<1> QED
  BY <1>1 DEF Regions

(* The region of a base and a size.                                        *)
LEMMA RegionOf ==
  ASSUME NEW b \in Nat, NEW l \in Nat
  PROVE  /\ Region(b, l) \in Regions
         /\ Region(b, l).base = b /\ Region(b, l).size = l
BY DEF Region, Regions

(* The addresses covered.                                                  *)
LEMMA CoveredIs ==
  ASSUME NEW s, s \in Seq(Regions)
  PROVE  Covered(s) = {a \in Nat : Has(s, a)}
<1>1. DOMAIN s = 1 .. Len(s)
  OBVIOUS
<1>2. ASSUME NEW i \in 1 .. Len(s), NEW a
      PROVE  a \in Span(s[i].base, s[i].size) <=> a \in Nat /\ In(s[i], a)
  BY RegionIs DEF Span, In
<1>3. ASSUME NEW a PROVE a \in Covered(s) <=> a \in Nat /\ Has(s, a)
  BY <1>1, <1>2, Zenon DEF Covered, Has
<1> QED
  BY <1>3, Zenon

(* An array that ends by one address ends by every later one.              *)
LEMMA EndByLater ==
  ASSUME NEW s, s \in Seq(Regions), NEW x \in Nat, NEW y \in Nat, x <= y, EndBy(s, x)
  PROVE  EndBy(s, y)
<1> SUFFICES ASSUME NEW i \in 1 .. Len(s) PROVE s[i].base + s[i].size <= y
  BY DEF EndBy
<1>1. s[i].base \in Nat /\ s[i].size \in Nat
  BY RegionIs
<1>2. PICK e \in Nat : e = s[i].base + s[i].size
  BY <1>1
<1>3. e <= x
  BY <1>2 DEF EndBy
<1> QED
  BY <1>2, <1>3

(* Two arrays, one after the other.                                        *)
LEMMA Joined ==
  ASSUME NEW s, NEW t, Ordered(s), Ordered(t), NEW x \in Nat, EndBy(s, x), BeginAt(t, x)
  PROVE  /\ Ordered(s \o t) /\ Len(s \o t) = Len(s) + Len(t)
         /\ \A a : Has(s \o t, a) <=> Has(s, a) \/ Has(t, a)
<1>1. /\ s \in Seq(Regions) /\ t \in Seq(Regions)
      /\ \A i \in 1 .. Len(s) : s[i].size > 0
      /\ \A i \in 1 .. Len(t) : t[i].size > 0
  BY DEF Ordered, Proper
<1>2. PICK m \in Nat, n \in Nat : m = Len(s) /\ n = Len(t)
  BY <1>1
<1>3. PICK u : u = s \o t
  OBVIOUS
<1>4. /\ u \in Seq(Regions) /\ Len(u) = m + n
      /\ \A i \in 1 .. m : u[i] = s[i] /\ i \in 1 .. m + n
      /\ \A i \in 1 .. n : u[m + i] = t[i] /\ m + i \in 1 .. m + n
      /\ \A i \in 1 .. m + n : i \in 1 .. m \/ \E j \in 1 .. n : i = m + j
  <2>1. u \in Seq(Regions) /\ Len(u) = m + n
    BY <1>1, <1>2, <1>3
  <2>2. \A i \in 1 .. m : u[i] = s[i] /\ i \in 1 .. m + n
    BY <1>1, <1>2, <1>3
  <2>3. \A i \in 1 .. n : u[m + i] = t[i] /\ m + i \in 1 .. m + n
    BY <1>1, <1>2, <1>3
  <2>4. ASSUME NEW i \in 1 .. m + n, i \notin 1 .. m PROVE \E j \in 1 .. n : i = m + j
    <3>1. i - m \in 1 .. n /\ i = m + (i - m)
      BY <2>4
    <3> QED
      BY <3>1
  <2> QED
    BY <2>1, <2>2, <2>3, <2>4
<1>5. \A a : Has(u, a) <=> Has(s, a) \/ Has(t, a)
  <2> TAKE a
  <2>1. ASSUME NEW i \in 1 .. Len(u), In(u[i], a) PROVE Has(s, a) \/ Has(t, a)
    BY <1>2, <1>4, <2>1 DEF Has
  <2>2. ASSUME NEW i \in 1 .. Len(s), In(s[i], a) PROVE Has(u, a)
    BY <1>2, <1>4, <2>2 DEF Has
  <2>3. ASSUME NEW i \in 1 .. Len(t), In(t[i], a) PROVE Has(u, a)
    BY <1>2, <1>4, <2>3 DEF Has
  <2> QED
    BY <2>1, <2>2, <2>3 DEF Has
<1>6. Proper(u)
  <2> SUFFICES ASSUME NEW i \in 1 .. m + n PROVE u[i].size > 0
    BY <1>4 DEF Proper
  <2> QED
    BY <1>1, <1>2, <1>4
<1>7. ASSUME NEW i \in 1 .. m + n, NEW j \in 1 .. m + n, i < j
      PROVE  u[i].base + u[i].size <= u[j].base
  <2>1. CASE i \in 1 .. m /\ j \in 1 .. m
    BY <1>2, <1>4, <1>7, <2>1 DEF Ordered
  <2>2. ASSUME i \in 1 .. m, NEW k \in 1 .. n, j = m + k PROVE u[i].base + u[i].size <= u[j].base
    <3>1. s[i].base + s[i].size <= x /\ x <= t[k].base
      BY <1>2, <2>2 DEF EndBy, BeginAt
    <3>2. s[i].base \in Nat /\ s[i].size \in Nat /\ t[k].base \in Nat
      BY <1>1, <1>2, <2>2, RegionIs
    <3>3. u[i] = s[i] /\ u[j] = t[k]
      BY <1>4, <2>2
    <3> QED
      BY <3>1, <3>2, <3>3
  <2>3. ASSUME NEW k \in 1 .. n, NEW l \in 1 .. n, i = m + l, j = m + k
        PROVE  u[i].base + u[i].size <= u[j].base
    <3>1. l < k
      BY <1>7, <2>3
    <3> QED
      BY <1>2, <1>4, <2>3, <3>1 DEF Ordered
  <2>4. ASSUME NEW l \in 1 .. n, i = m + l, j \in 1 .. m PROVE FALSE
    BY <1>7, <2>4
  <2> QED
    BY <1>4, <2>1, <2>2, <2>3, <2>4
<1> QED
  BY <1>2, <1>3, <1>4, <1>5, <1>6, <1>7 DEF Ordered

(* Where two arrays end, one after the other.                              *)
LEMMA JoinedEnds ==
  ASSUME NEW s, NEW t, s \in Seq(Regions), t \in Seq(Regions), NEW x, EndBy(s, x), EndBy(t, x)
  PROVE  EndBy(s \o t, x)
<1>1. PICK m \in Nat, n \in Nat : m = Len(s) /\ n = Len(t)
  OBVIOUS
<1>2. PICK u : u = s \o t
  OBVIOUS
<1>3. Len(u) = m + n /\ (\A i \in 1 .. m : u[i] = s[i]) /\ \A i \in 1 .. n : u[m + i] = t[i]
  BY <1>1, <1>2
<1> SUFFICES ASSUME NEW i \in 1 .. m + n PROVE u[i].base + u[i].size <= x
  BY <1>2, <1>3 DEF EndBy
<1>4. CASE i \in 1 .. m
  BY <1>1, <1>3, <1>4 DEF EndBy
<1>5. CASE i \notin 1 .. m
  <2>1. PICK j \in 1 .. n : i = m + j
    <3>1. i - m \in 1 .. n /\ i = m + (i - m)
      BY <1>5
    <3> QED
      BY <3>1
  <2> QED
    BY <1>1, <1>3, <2>1 DEF EndBy
<1> QED
  BY <1>4, <1>5

(* One region.                                                             *)
LEMMA SingleIs ==
  ASSUME NEW r \in Regions, r.size > 0
  PROVE  /\ Ordered(<<r>>) /\ Len(<<r>>) = 1 /\ <<r>>[1] = r /\ <<r>> \in Seq(Regions)
         /\ \A a : Has(<<r>>, a) <=> In(r, a)
         /\ EndBy(<<r>>, r.base + r.size) /\ BeginAt(<<r>>, r.base)
<1>1. /\ Len(<<r>>) = 1 /\ <<r>>[1] = r /\ <<r>> \in Seq(Regions)
      /\ \A i \in 1 .. 1 : i = 1
  OBVIOUS
<1>2. r.base \in Nat /\ r.size \in Nat
  BY DEF Regions
<1>3. Ordered(<<r>>)
  BY <1>1 DEF Ordered, Proper
<1>4. \A a : Has(<<r>>, a) <=> In(r, a)
  BY <1>1 DEF Has
<1>5. EndBy(<<r>>, r.base + r.size) /\ BeginAt(<<r>>, r.base)
  BY <1>1, <1>2 DEF EndBy, BeginAt
<1> QED
  BY <1>1, <1>3, <1>4, <1>5

(* A piece, which may be empty.                                            *)
LEMMA PieceIs ==
  ASSUME NEW b \in Nat, NEW e \in Nat
  PROVE  /\ Ordered(Piece(b, e)) /\ Piece(b, e) \in Seq(Regions)
         /\ Len(Piece(b, e)) \in 0 .. 1
         /\ \A a \in Nat : Has(Piece(b, e), a) <=> b <= a /\ a < e
         /\ b < e => EndBy(Piece(b, e), e) /\ BeginAt(Piece(b, e), b) /\ Len(Piece(b, e)) = 1
         /\ ~ (b < e) => Piece(b, e) = <<>>
<1>1. CASE b < e
  <2>1. PICK r \in Regions : r = Region(b, e - b) /\ r.base = b /\ r.size = e - b /\ r.size > 0
    <3>1. PICK l \in Nat : l = e - b /\ l > 0
      BY <1>1
    <3>2. Region(b, l) \in Regions /\ Region(b, l).base = b /\ Region(b, l).size = l
      BY RegionOf
    <3> QED
      BY <3>1, <3>2
  <2>2. Piece(b, e) = <<r>>
    BY <1>1, <2>1 DEF Piece
  <2>3. r.base + r.size = e
    BY <2>1
  <2>4. \A a \in Nat : In(r, a) <=> b <= a /\ a < e
    BY <2>1, <2>3 DEF In
  <2> QED
    BY <1>1, <2>1, <2>2, <2>3, <2>4, SingleIs
<1>2. CASE ~ (b < e)
  <2>1. Piece(b, e) = <<>> /\ Len(<<>>) = 0 /\ <<>> \in Seq(Regions)
    BY <1>2 DEF Piece
  <2>2. Ordered(<<>>) /\ \A a : ~ Has(<<>>, a)
    BY DEF Ordered, Proper, Has
  <2>3. \A a \in Nat : ~ (b <= a /\ a < e)
    BY <1>2
  <2> QED
    BY <1>2, <2>1, <2>2, <2>3
<1> QED
  BY <1>1, <1>2

-----------------------------------------------------------------------------
(* The loop of memblock_add_range()                                        *)

(* After k regions: what out holds, and what base says of it.              *)
Loops == [out : Seq(Regions), base : Nat]
Adding(rs, obase, end, l, k) ==
  /\ l \in Loops /\ Ordered(l.out)
  /\ obase <= l.base /\ l.base <= end
  /\ l.base = end \/ EndBy(l.out, l.base)
  /\ \A j \in k + 1 .. Len(rs) : EndBy(l.out, rs[j].base)
  /\ \A a \in Nat : Has(l.out, a) <=> (\E i \in 1 .. k : In(rs[i], a)) \/ (obase <= a /\ a < l.base)
  /\ k <= Len(l.out) /\ Len(l.out) <= 2 * k
  /\ Len(l.out) = k => \A i \in 1 .. k : l.out[i] = rs[i]

(* A step of the loop.                                                     *)
LEMMA AddStepIs ==
  ASSUME NEW l \in Loops, NEW r \in Regions, NEW end \in Nat
  PROVE  /\ r.base + r.size <= l.base =>
              /\ AddStep(r, end)[l].out = l.out \o <<r>>
              /\ AddStep(r, end)[l].base = l.base
         /\ ~ (r.base + r.size <= l.base) =>
              /\ AddStep(r, end)[l].out = l.out \o Piece(l.base, r.base) \o <<r>>
              /\ AddStep(r, end)[l].base = Lower(r.base + r.size, end)
         /\ AddStep(r, end)[l] \in Loops
<1>1. AddStep(r, end)[l] =
        IF r.base + r.size <= l.base THEN [out |-> l.out \o <<r>>, base |-> l.base]
        ELSE [out |-> l.out \o Piece(l.base, r.base) \o <<r>>, base |-> Lower(r.base + r.size, end)]
  BY DEF AddStep, Loops, End
<1>2. /\ l.out \in Seq(Regions) /\ l.base \in Nat /\ r.base \in Nat /\ r.size \in Nat
      /\ <<r>> \in Seq(Regions)
  BY DEF Loops, Regions
<1>3. Lower(r.base + r.size, end) \in Nat
  BY <1>2 DEF Lower
<1>4. Piece(l.base, r.base) \in Seq(Regions)
  BY <1>2, PieceIs
<1>5. l.out \o <<r>> \in Seq(Regions) /\ l.out \o Piece(l.base, r.base) \o <<r>> \in Seq(Regions)
  BY <1>2, <1>4
<1>6. CASE r.base + r.size <= l.base
  <2>1. AddStep(r, end)[l] = [out |-> l.out \o <<r>>, base |-> l.base]
    BY <1>1, <1>6
  <2> QED
    BY <1>2, <1>5, <1>6, <2>1 DEF Loops
<1>7. CASE ~ (r.base + r.size <= l.base)
  <2>1. AddStep(r, end)[l] =
          [out |-> l.out \o Piece(l.base, r.base) \o <<r>>, base |-> Lower(r.base + r.size, end)]
    BY <1>1, <1>7
  <2> QED
    BY <1>3, <1>5, <1>7, <2>1 DEF Loops
<1> QED
  BY <1>6, <1>7

(* A region is gone past, the gap in front of it filled.                   *)
LEMMA AddingRegion ==
  ASSUME NEW rs, Ordered(rs), NEW k \in 1 .. Len(rs), NEW obase \in Nat, NEW end \in Nat,
         rs[k].base < end, NEW l, Adding(rs, obase, end, l, k - 1)
  PROVE  Adding(rs, obase, end, AddStep(rs[k], end)[l], k)
<1>1. PICK r \in Regions, rb \in Nat, re \in Nat :
        r = rs[k] /\ rb = r.base /\ re = r.base + r.size /\ rb < re /\ rb < end
  <2>1. rs[k] \in Regions /\ rs[k].base \in Nat /\ rs[k].size \in Nat /\ rs[k].size > 0
    BY RegionIs DEF Ordered, Proper
  <2>2. rs[k].base + rs[k].size \in Nat /\ rs[k].base < rs[k].base + rs[k].size
    BY <2>1
  <2> QED
    BY <2>1, <2>2
<1>2. PICK s \in Seq(Regions), b \in Nat, n \in Nat : s = l.out /\ b = l.base /\ n = Len(s)
  BY DEF Adding, Loops
<1>3. /\ l \in Loops /\ Ordered(s) /\ obase <= b /\ b <= end /\ (b = end \/ EndBy(s, b))
      /\ \A j \in k .. Len(rs) : EndBy(s, rs[j].base)
      /\ \A a \in Nat : Has(s, a) <=> (\E i \in 1 .. k - 1 : In(rs[i], a)) \/ (obase <= a /\ a < b)
      /\ k - 1 <= n /\ n <= 2 * (k - 1)
      /\ n = k - 1 => \A i \in 1 .. k - 1 : s[i] = rs[i]
  BY <1>2 DEF Adding
<1>4. PICK m : m = AddStep(r, end)[l]
  OBVIOUS
<1>5. /\ m \in Loops
      /\ re <= b => m.out = s \o <<r>> /\ m.base = b
      /\ ~ (re <= b) => m.out = s \o Piece(b, rb) \o <<r>> /\ m.base = Lower(re, end)
  <2>1. /\ m \in Loops
        /\ r.base + r.size <= l.base => m.out = l.out \o <<r>> /\ m.base = l.base
        /\ ~ (r.base + r.size <= l.base) =>
             m.out = l.out \o Piece(l.base, r.base) \o <<r>> /\ m.base = Lower(r.base + r.size, end)
    BY <1>3, <1>4, AddStepIs, ZenonT(30)
  <2>2. r.base + r.size = re /\ r.base = rb /\ l.out = s /\ l.base = b
    BY <1>1, <1>2
  <2> QED
    BY <2>1, <2>2, Zenon
<1>6. /\ Ordered(<<r>>) /\ Len(<<r>>) = 1 /\ <<r>>[1] = r /\ <<r>> \in Seq(Regions)
      /\ \A a : Has(<<r>>, a) <=> In(r, a)
      /\ EndBy(<<r>>, re) /\ BeginAt(<<r>>, rb)
  <2>1. r.size > 0
    BY <1>1 DEF Regions
  <2> QED
    BY <1>1, <2>1, SingleIs
<1>7. \A a : In(r, a) <=> rb <= a /\ a < re
  BY <1>1 DEF In
<1>8. \A a : (\E i \in 1 .. k : In(rs[i], a)) <=> (\E i \in 1 .. k - 1 : In(rs[i], a)) \/ In(r, a)
  <2>1. \A i \in 1 .. k : i \in 1 .. k - 1 \/ i = k
    OBVIOUS
  <2>2. k \in 1 .. k /\ \A i \in 1 .. k - 1 : i \in 1 .. k
    OBVIOUS
  <2> QED
    BY <1>1, <2>1, <2>2
<1>9. \A j \in k + 1 .. Len(rs) : EndBy(s, rs[j].base) /\ EndBy(<<r>>, rs[j].base)
  <2> TAKE j \in k + 1 .. Len(rs)
  <2>1. j \in k .. Len(rs) /\ j \in 1 .. Len(rs) /\ k < j
    OBVIOUS
  <2>2. r.base + r.size <= rs[j].base
    BY <1>1, <2>1 DEF Ordered
  <2>3. EndBy(<<r>>, rs[j].base)
    <3>1. \A i \in 1 .. Len(<<r>>) : <<r>>[i] = r
      BY <1>6
    <3> QED
      BY <2>2, <3>1 DEF EndBy
  <2> QED
    BY <1>3, <2>1, <2>3
<1>10. EndBy(s, rb)
  <2>1. k \in k .. Len(rs)
    OBVIOUS
  <2> QED
    BY <1>1, <1>3, <2>1
<1>11. k \in Nat /\ k >= 1
  OBVIOUS
<1>12. CASE re <= b \/ ~ (b < rb)
  <2>1. m.out = s \o <<r>>
    <3>1. CASE re <= b
      BY <1>5, <3>1
    <3>2. CASE ~ (re <= b)
      <4>1. ~ (b < rb)
        BY <1>12, <3>2
      <4>2. Piece(b, rb) = <<>>
        BY <4>1, PieceIs
      <4>3. s \o <<>> = s
        BY <1>2
      <4> QED
        BY <1>5, <3>2, <4>2, <4>3
    <3> QED
      BY <3>1, <3>2
  <2>2. PICK b2 \in Nat : b2 = m.base /\ b <= b2 /\ b2 <= end /\ (b2 = end \/ re <= b2)
                          /\ (b2 = b \/ b2 <= re) /\ rb <= b2
    <3>0. rb < re /\ rb < end /\ b <= end
      BY <1>1, <1>3, Zenon
    <3>1. CASE re <= b
      <4>1. m.base = b
        BY <1>5, <3>1, Zenon
      <4> QED
        BY <3>0, <3>1, <4>1
    <3>2. CASE ~ (re <= b)
      <4>1. m.base = Lower(re, end)
        BY <1>5, <3>2, Zenon
      <4>2. PICK e \in Nat : e = Lower(re, end) /\ e <= re /\ e <= end /\ (e = re \/ e = end)
        BY DEF Lower
      <4> QED
        BY <3>0, <3>2, <4>1, <4>2
    <3> QED
      BY <3>1, <3>2
  <2>3. PICK u : u = s \o <<r>>
    OBVIOUS
  <2>4. /\ Ordered(u) /\ Len(u) = n + 1 /\ \A a : Has(u, a) <=> Has(s, a) \/ Has(<<r>>, a)
    BY <1>2, <1>3, <1>6, <1>10, <2>3, Joined
  <2>5. \A x : EndBy(s, x) /\ EndBy(<<r>>, x) => EndBy(u, x)
    BY <1>2, <1>6, <2>3, JoinedEnds
  <2>6. \A j \in k + 1 .. Len(rs) : EndBy(u, rs[j].base)
    BY <1>9, <2>5
  <2>7. b2 = end \/ EndBy(u, b2)
    <3> SUFFICES ASSUME b2 # end PROVE EndBy(s, b2) /\ EndBy(<<r>>, b2)
      BY <2>5
    <3>1. b # end /\ re <= b2
      BY <1>3, <2>2
    <3>2. EndBy(s, b2)
      <4>1. EndBy(s, b) /\ b <= b2
        BY <1>3, <2>2, <3>1
      <4> QED
        BY <4>1, EndByLater
    <3>3. EndBy(<<r>>, b2)
      <4>1. \A i \in 1 .. Len(<<r>>) : <<r>>[i] = r
        BY <1>6
      <4> QED
        BY <1>1, <3>1, <4>1 DEF EndBy
    <3> QED
      BY <3>2, <3>3
  <2>8. ASSUME NEW a \in Nat
        PROVE  Has(u, a) <=> (\E i \in 1 .. k : In(rs[i], a)) \/ (obase <= a /\ a < b2)
    <3>1. Has(u, a) <=> (\E i \in 1 .. k - 1 : In(rs[i], a)) \/ (obase <= a /\ a < b) \/ In(r, a)
      BY <1>3, <1>6, <2>4
    <3>2. (obase <= a /\ a < b2) => (obase <= a /\ a < b) \/ In(r, a)
      <4>1. CASE b2 = b
        BY <4>1
      <4>2. CASE b2 # b
        <5>1. ~ (re <= b) /\ ~ (b < rb)
          BY <1>5, <1>12, <2>2, <4>2
        <5> QED
          BY <1>7, <2>2, <4>2, <5>1
      <4> QED
        BY <4>1, <4>2
    <3>3. (obase <= a /\ a < b) => (obase <= a /\ a < b2)
      BY <2>2
    <3> QED
      BY <1>8, <3>1, <3>2, <3>3
  <2>9. n + 1 = k => \A i \in 1 .. k : u[i] = rs[i]
    <3> SUFFICES ASSUME n + 1 = k, NEW i \in 1 .. k PROVE u[i] = rs[i]
      OBVIOUS
    <3>1. CASE i \in 1 .. n
      <4>1. u[i] = s[i]
        BY <1>2, <1>6, <2>3, <3>1
      <4>2. n = k - 1 /\ i \in 1 .. k - 1
        BY <3>1
      <4> QED
        BY <1>3, <4>1, <4>2
    <3>2. CASE i = n + 1
      <4>1. u[n + 1] = r
        BY <1>2, <2>3
      <4> QED
        BY <1>1, <3>2, <4>1
    <3> QED
      BY <3>1, <3>2
  <2>10. k <= n + 1 /\ n + 1 <= 2 * k /\ obase <= b2
    BY <1>3, <1>11, <2>2
  <2>11. Adding(rs, obase, end, m, k)
    BY <1>5, <2>1, <2>2, <2>3, <2>4, <2>6, <2>7, <2>8, <2>9, <2>10 DEF Adding
  <2> QED
    BY <1>1, <1>4, <2>11
<1>13. CASE ~ (re <= b) /\ b < rb
  <2>1. PICK p \in Seq(Regions) : p = Piece(b, rb)
    BY PieceIs
  <2>2. /\ Ordered(p) /\ Len(p) = 1 /\ EndBy(p, rb) /\ BeginAt(p, b)
        /\ \A a \in Nat : Has(p, a) <=> b <= a /\ a < rb
    BY <1>13, <2>1, PieceIs
  <2>3. b # end /\ EndBy(s, b)
    BY <1>1, <1>3, <1>13
  <2>4. PICK v : v = s \o p
    OBVIOUS
  <2>5. /\ Ordered(v) /\ Len(v) = n + 1 /\ \A a : Has(v, a) <=> Has(s, a) \/ Has(p, a)
    <3>1. Ordered(v) /\ Len(v) = Len(s) + Len(p) /\ \A a : Has(v, a) <=> Has(s, a) \/ Has(p, a)
      BY <1>3, <2>2, <2>3, <2>4, Joined
    <3> QED
      BY <1>2, <2>2, <3>1
  <2>6. v \in Seq(Regions) /\ \A x : EndBy(s, x) /\ EndBy(p, x) => EndBy(v, x)
    BY <1>2, <2>1, <2>4, JoinedEnds
  <2>7. EndBy(v, rb)
    BY <1>10, <2>2, <2>6
  <2>8. PICK u : u = v \o <<r>>
    OBVIOUS
  <2>9. /\ Ordered(u) /\ Len(u) = n + 2 /\ \A a : Has(u, a) <=> Has(v, a) \/ Has(<<r>>, a)
    <3>1. Ordered(u) /\ Len(u) = Len(v) + 1 /\ \A a : Has(u, a) <=> Has(v, a) \/ Has(<<r>>, a)
      BY <1>6, <2>5, <2>7, <2>8, Joined
    <3> QED
      BY <2>5, <3>1
  <2>10. \A x : EndBy(v, x) /\ EndBy(<<r>>, x) => EndBy(u, x)
    BY <1>6, <2>6, <2>8, JoinedEnds
  <2>11. m.out = u
    BY <1>5, <1>13, <2>1, <2>4, <2>8
  <2>12. PICK b2 \in Nat : b2 = m.base /\ b2 = Lower(re, end)
    BY <1>5, <1>13 DEF Loops
  <2>13. b <= b2 /\ b2 <= end /\ b2 <= re /\ rb <= b2 /\ (b2 = end \/ b2 = re)
    BY <1>1, <1>3, <1>13, <2>12 DEF Lower
  <2>14. EndBy(v, re)
    <3>1. rb <= re
      BY <1>1
    <3> QED
      BY <2>6, <2>7, <3>1, EndByLater
  <2>15. b2 = end \/ EndBy(u, b2)
    BY <1>6, <2>10, <2>13, <2>14
  <2>16. \A j \in k + 1 .. Len(rs) : EndBy(u, rs[j].base)
    <3> TAKE j \in k + 1 .. Len(rs)
    <3>1. EndBy(p, rs[j].base)
      <4>1. PICK jb \in Nat : jb = rs[j].base /\ re <= jb
        <5>0. rs \in Seq(Regions)
          BY DEF Ordered, Proper
        <5>1. j \in 1 .. Len(rs) /\ k < j /\ rs \in Seq(Regions)
          <6>1. j \in k + 1 .. Len(rs) /\ k \in 1 .. Len(rs)
            OBVIOUS
          <6> QED
            BY <5>0, <6>1
        <5>2. rs[j].base \in Nat
          BY <5>1, RegionIs
        <5>3. rs[k].base + rs[k].size <= rs[j].base
          BY <5>1 DEF Ordered
        <5> QED
          BY <1>1, <5>2, <5>3
      <4>2. rb <= jb
        BY <1>1, <4>1
      <4> QED
        BY <2>1, <2>2, <4>1, <4>2, EndByLater
    <3> QED
      BY <1>9, <2>6, <2>10, <3>1
  <2>17. ASSUME NEW a \in Nat
         PROVE  Has(u, a) <=> (\E i \in 1 .. k : In(rs[i], a)) \/ (obase <= a /\ a < b2)
    <3>1. Has(u, a) <=> (\E i \in 1 .. k - 1 : In(rs[i], a)) \/ (obase <= a /\ a < b)
                        \/ (b <= a /\ a < rb) \/ In(r, a)
      BY <1>3, <1>6, <2>2, <2>5, <2>9
    <3>2. (obase <= a /\ a < b2) => (obase <= a /\ a < b) \/ (b <= a /\ a < rb) \/ In(r, a)
      BY <1>7, <2>13
    <3>3. (obase <= a /\ a < b) \/ (b <= a /\ a < rb) => (obase <= a /\ a < b2)
      BY <1>3, <2>13
    <3> QED
      BY <1>8, <3>1, <3>2, <3>3
  <2>18. k <= n + 2 /\ n + 2 <= 2 * k /\ n + 2 # k /\ obase <= b2
    BY <1>3, <1>11, <2>13
  <2>19. Adding(rs, obase, end, m, k)
    BY <1>5, <2>9, <2>11, <2>12, <2>13, <2>15, <2>16, <2>17, <2>18 DEF Adding
  <2> QED
    BY <1>1, <1>4, <2>19
<1> QED
  BY <1>12, <1>13

(* The regions that begin before end.                                      *)
LEMMA VisitedIs ==
  ASSUME NEW rs, rs \in Seq(Regions), NEW end \in Nat
  PROVE  /\ Visited(rs, end) \in 0 .. Len(rs)
         /\ \A i \in 1 .. Visited(rs, end) : rs[i].base < end
         /\ Visited(rs, end) < Len(rs) => rs[Visited(rs, end) + 1].base >= end
<1> DEFINE Q(n) == (\A i \in 1 .. n : rs[i].base < end) /\ (n < Len(rs) => rs[n + 1].base >= end)
           T == {n \in Nat : n <= Len(rs) /\ (n < Len(rs) => rs[n + 1].base >= end)}
<1>1. PICK len \in Nat : len = Len(rs)
  OBVIOUS
<1>2. len \in T /\ T \subseteq Nat
  BY <1>1
<1>3. PICK n \in T : \A y \in T : n <= y
  BY <1>2, LeastElement
<1>4. n \in 0 .. Len(rs) /\ n \in Nat /\ (n < Len(rs) => rs[n + 1].base >= end)
  BY <1>1, <1>3
<1>5. ASSUME NEW i \in 1 .. n PROVE rs[i].base < end
  <2>1. PICK j \in Nat : j = i - 1 /\ i = j + 1
    BY <1>4
  <2>2. ~ (n <= j) /\ j < Len(rs)
    BY <1>1, <1>4, <2>1
  <2>3. j \notin T
    BY <1>3, <2>2
  <2>4. ~ (rs[i].base >= end)
    BY <2>1, <2>2, <2>3, <1>1
  <2>5. rs[i].base \in Nat
    <3>1. i \in 1 .. Len(rs)
      BY <1>1, <1>4
    <3> QED
      BY <3>1, RegionIs
  <2> QED
    BY <2>4, <2>5
<1>6. \E x \in 0 .. Len(rs) : Q(x)
  BY <1>4, <1>5
<1>7. Visited(rs, end) = CHOOSE x \in 0 .. Len(rs) : Q(x)
  BY Zenon DEF Visited
<1> HIDE DEF Q
<1>8. Visited(rs, end) \in 0 .. Len(rs) /\ Q(Visited(rs, end))
  BY <1>6, <1>7, Zenon
<1> QED
  BY <1>8 DEF Q

(* The record that the loop ends with, and what is made of it.             *)
LEMMA InsertLoop ==
  ASSUME NEW rs, Ordered(rs), NEW obase \in Nat, NEW end \in Nat, obase <= end
  PROVE  \E l : /\ Adding(rs, obase, end, l, Visited(rs, end))
                /\ InsertPieces(rs, obase, end) =
                     l.out \o Piece(l.base, end) \o SubSeq(rs, Visited(rs, end) + 1, Len(rs))
<1> DEFINE n == Len(rs)
           v == Visited(rs, end)
           V == [k \in 0 .. n |-> Loops]
           S == [z \in Loops \X (1 .. n) |-> AddStep(rs[z[2]], end)[z[1]]]
           a == [out |-> <<>>, base |-> obase]
           body(f, k) == IF k = 0 THEN a ELSE AddStep(rs[k], end)[f[k - 1]]
           F == CHOOSE f : f = [k \in 0 .. n |-> body(f, k)]
<1>1. /\ n \in Nat /\ 0 \in 0 .. n /\ rs \in Seq(Regions)
      /\ \A k \in 1 .. n : k \in 0 .. n /\ k - 1 \in 0 .. n /\ k # 0
      /\ \A k \in 0 .. n : k # 0 => k \in 1 .. n
  BY DEF Ordered, Proper
<1>2. InsertPieces(rs, obase, end) =
        F[v].out \o Piece(F[v].base, end) \o SubSeq(rs, v + 1, n)
  BY Zenon DEF InsertPieces
<1>3. ASSUME NEW l \in Loops, NEW k \in 1 .. n PROVE AddStep(rs[k], end)[l] \in Loops
  <2>1. rs[k] \in Regions
    BY <1>1, RegionIs
  <2> QED
    BY <2>1, AddStepIs
<1>4. a \in Loops
  BY DEF Loops
<1>5. a \in V[0] /\ \A k \in 0 .. n : V[k] = Loops
  BY <1>1, <1>4
<1>6. \A l \in Loops, k \in 1 .. n : S[<<l, k>>] = AddStep(rs[k], end)[l]
  OBVIOUS
<1>7. Adding(rs, obase, end, a, 0)
  <2>1. a.out = <<>> /\ a.base = obase /\ Len(<<>>) = 0 /\ <<>> \in Seq(Regions)
    OBVIOUS
  <2>2. Ordered(<<>>) /\ (\A x : EndBy(<<>>, x)) /\ \A x : ~ Has(<<>>, x)
    BY DEF Ordered, Proper, EndBy, Has
  <2>3. \A x \in Nat : ~ (obase <= x /\ x < obase)
    OBVIOUS
  <2> QED
    BY <1>4, <2>1, <2>2, <2>3 DEF Adding
<1>8. /\ v \in 0 .. n /\ \A i \in 1 .. v : rs[i].base < end
  BY <1>1, VisitedIs
<1> HIDE DEF n, V, S, a, v
<1>9. LoopKeeps(n, a, V, S)
  BY <1>1, <1>3, <1>5, <1>6 DEF LoopKeeps
<1>10. PICK f0 : LoopIn(f0, n, a, V, S)
  BY <1>1, <1>9, LoopExists
<1>11. \A k \in 0 .. n : f0[k] = body(f0, k)
  BY <1>1, <1>5, <1>6, <1>10 DEF LoopIn
<1>12. f0 = [k \in 0 .. n |-> body(f0, k)]
  BY <1>10, <1>11 DEF LoopIn
<1>13. F = [k \in 0 .. n |-> body(F, k)]
  BY <1>12, Zenon
<1> HIDE DEF F
<1>14. \A k \in 0 .. n : F[k] = body(F, k)
  BY <1>13
<1> DEFINE W == [k \in 0 .. v |-> {l \in Loops : Adding(rs, obase, end, l, k)}]
<1>15. /\ v \in Nat /\ 0 \in 0 .. v /\ v \in 0 .. v
       /\ \A k \in 0 .. v : k \in 0 .. n
       /\ \A k \in 1 .. v : k \in 1 .. n /\ k - 1 \in 0 .. v /\ k \in 0 .. v /\ k # 0
  BY <1>1, <1>8
<1>16. \A k \in 0 .. v : \A l : l \in W[k] <=> Adding(rs, obase, end, l, k)
  BY DEF Adding
<1> HIDE DEF W
<1>17. \A k \in 0 .. v : F[k] \in W[k]
  <2>1. F[0] \in W[0]
    BY <1>1, <1>7, <1>14, <1>15, <1>16
  <2>2. ASSUME NEW k \in 1 .. v, F[k - 1] \in W[k - 1] PROVE F[k] \in W[k]
    <3>1. Adding(rs, obase, end, F[k - 1], k - 1)
      BY <1>15, <1>16, <2>2
    <3>2. k \in 1 .. Len(rs) /\ rs[k].base < end
      BY <1>8, <1>15 DEF n
    <3>3. Adding(rs, obase, end, AddStep(rs[k], end)[F[k - 1]], k)
      BY <3>1, <3>2, AddingRegion
    <3>4. F[k] = AddStep(rs[k], end)[F[k - 1]]
      BY <1>14, <1>15
    <3> QED
      BY <1>15, <1>16, <3>3, <3>4
  <2> QED
    BY <1>15, <2>1, <2>2, LoopInvariant
<1>18. Adding(rs, obase, end, F[v], v)
  BY <1>15, <1>16, <1>17
<1> QED
  BY <1>2, <1>18 DEF n, v

(* The end of an array.                                                    *)
LEMMA TailIs ==
  ASSUME NEW rs, Ordered(rs), NEW v \in 0 .. Len(rs)
  PROVE  /\ Ordered(SubSeq(rs, v + 1, Len(rs))) /\ Len(SubSeq(rs, v + 1, Len(rs))) = Len(rs) - v
         /\ \A i \in 1 .. Len(rs) - v : SubSeq(rs, v + 1, Len(rs))[i] = rs[v + i]
<1>1. rs \in Seq(Regions)
  BY DEF Ordered, Proper
<1>2. PICK n \in Nat, c \in Nat : n = Len(rs) /\ c = n - v /\ v \in Nat
  BY <1>1
<1>3. PICK t : t = SubSeq(rs, v + 1, Len(rs))
  OBVIOUS
<1>4. t \in Seq(Regions) /\ Len(t) = c /\ \A i \in 1 .. c : t[i] = rs[v + i]
  BY <1>1, <1>2, <1>3
<1>5. \A i \in 1 .. c : v + i \in 1 .. Len(rs)
  BY <1>2
<1>6. Proper(t)
  BY <1>4, <1>5 DEF Proper, Ordered
<1>7. \A i, j \in 1 .. c : i < j => v + i < v + j
  BY <1>2
<1>8. Ordered(t)
  BY <1>4, <1>5, <1>6, <1>7 DEF Ordered
<1> QED
  BY <1>2, <1>3, <1>4, <1>8

(* What memblock_add_range() makes of the array: the same regions and the  *)
(* gaps of the new range, in ascending order, with at most one gap more    *)
(* than there are regions.                                                 *)
LEMMA Inserted ==
  ASSUME NEW rs, Ordered(rs), NEW obase \in Nat, NEW end \in Nat, obase <= end
  PROVE  /\ Ordered(InsertPieces(rs, obase, end))
         /\ \A a \in Nat : Has(InsertPieces(rs, obase, end), a) <=>
                             Has(rs, a) \/ (obase <= a /\ a < end)
         /\ Len(rs) <= Len(InsertPieces(rs, obase, end))
         /\ Len(InsertPieces(rs, obase, end)) <= 2 * Len(rs) + 1
         /\ Len(InsertPieces(rs, obase, end)) = Len(rs) => InsertPieces(rs, obase, end) = rs
<1>1. rs \in Seq(Regions)
  BY DEF Ordered, Proper
<1>2. PICK n \in Nat, v \in Nat : n = Len(rs) /\ v = Visited(rs, end)
  <2>1. Visited(rs, end) \in 0 .. Len(rs) /\ Len(rs) \in Nat
    BY <1>1, VisitedIs
  <2> QED
    BY <2>1
<1>3. v \in 0 .. Len(rs) /\ v <= n /\ (v < n => rs[v + 1].base >= end)
  <2>1. /\ Visited(rs, end) \in 0 .. Len(rs)
        /\ Visited(rs, end) < Len(rs) => rs[Visited(rs, end) + 1].base >= end
    BY <1>1, VisitedIs
  <2> QED
    BY <1>2, <2>1
<1>4. PICK l : /\ Adding(rs, obase, end, l, v)
               /\ InsertPieces(rs, obase, end) = l.out \o Piece(l.base, end) \o SubSeq(rs, v + 1, Len(rs))
  <2>1. \E l : /\ Adding(rs, obase, end, l, Visited(rs, end))
               /\ InsertPieces(rs, obase, end) =
                    l.out \o Piece(l.base, end) \o SubSeq(rs, Visited(rs, end) + 1, Len(rs))
    BY InsertLoop
  <2> QED
    BY <1>2, <2>1, Zenon
<1>5. PICK s \in Seq(Regions), b \in Nat, m \in Nat : s = l.out /\ b = l.base /\ m = Len(s)
  <2>1. l.out \in Seq(Regions) /\ l.base \in Nat
    BY <1>4 DEF Adding, Loops
  <2> QED
    BY <2>1
<1>6. /\ Ordered(s) /\ obase <= b /\ b <= end /\ (b = end \/ EndBy(s, b))
      /\ \A j \in v + 1 .. Len(rs) : EndBy(s, rs[j].base)
      /\ \A a \in Nat : Has(s, a) <=> (\E i \in 1 .. v : In(rs[i], a)) \/ (obase <= a /\ a < b)
      /\ v <= m /\ m <= 2 * v
      /\ m = v => \A i \in 1 .. v : s[i] = rs[i]
  BY <1>4, <1>5 DEF Adding
<1>7. PICK p \in Seq(Regions), c \in 0 .. 1 : p = Piece(b, end) /\ c = Len(p)
  BY PieceIs
<1>8. PICK w : w = s \o p
  OBVIOUS
<1>9. /\ Ordered(w) /\ Len(w) = m + c /\ w \in Seq(Regions)
      /\ \A a \in Nat : Has(w, a) <=> Has(s, a) \/ (b <= a /\ a < end)
      /\ \A j \in v + 1 .. Len(rs) : EndBy(w, rs[j].base)
      /\ c = 0 => w = s
  <2>1. CASE b < end
    <3>1. /\ Ordered(p) /\ EndBy(p, end) /\ BeginAt(p, b) /\ Len(p) = 1
          /\ \A a \in Nat : Has(p, a) <=> b <= a /\ a < end
      BY <1>7, <2>1, PieceIs
    <3>2. EndBy(s, b)
      BY <1>6, <2>1
    <3>3. Ordered(w) /\ Len(w) = Len(s) + Len(p) /\ \A a : Has(w, a) <=> Has(s, a) \/ Has(p, a)
      BY <1>6, <1>8, <3>1, <3>2, Joined
    <3>4. \A x : EndBy(s, x) /\ EndBy(p, x) => EndBy(w, x)
      BY <1>5, <1>7, <1>8, JoinedEnds
    <3>5. ASSUME NEW j \in v + 1 .. Len(rs) PROVE EndBy(w, rs[j].base)
      <4>1. j \in 1 .. Len(rs) /\ v + 1 \in 1 .. Len(rs) /\ (v + 1 = j \/ v + 1 < j) /\ v < n
        BY <1>2, <1>3
      <4>2. rs[v + 1].base \in Nat /\ rs[v + 1].size \in Nat /\ rs[j].base \in Nat
        BY <1>1, <4>1, RegionIs
      <4>3. end <= rs[v + 1].base
        BY <1>3, <4>1, <4>2
      <4>4. v + 1 < j => rs[v + 1].base + rs[v + 1].size <= rs[j].base
        BY <4>1 DEF Ordered
      <4>5. end <= rs[j].base
        BY <4>1, <4>2, <4>3, <4>4
      <4>6. EndBy(p, rs[j].base)
        BY <1>7, <3>1, <4>2, <4>5, EndByLater
      <4> QED
        BY <1>6, <3>4, <4>6
    <3>6. w \in Seq(Regions)
      BY <1>5, <1>7, <1>8
    <3> QED
      BY <1>5, <1>7, <3>1, <3>3, <3>5, <3>6
  <2>2. CASE ~ (b < end)
    <3>1. p = <<>>
      BY <1>7, <2>2, PieceIs
    <3>2. w = s /\ c = 0
      BY <1>5, <1>7, <1>8, <3>1
    <3>3. \A a \in Nat : ~ (b <= a /\ a < end)
      BY <2>2
    <3> QED
      BY <1>5, <1>6, <3>2, <3>3
  <2> QED
    BY <2>1, <2>2
<1>10. PICK t : t = SubSeq(rs, v + 1, Len(rs))
  OBVIOUS
<1>11. Ordered(t) /\ t \in Seq(Regions) /\ Len(t) = n - v /\ \A i \in 1 .. n - v : t[i] = rs[v + i]
  <2>1. Ordered(t) /\ Len(t) = Len(rs) - v /\ \A i \in 1 .. Len(rs) - v : t[i] = rs[v + i]
    BY <1>3, <1>10, TailIs
  <2> QED
    BY <1>2, <2>1 DEF Ordered, Proper
<1>12. PICK u : u = w \o t
  OBVIOUS
<1>13. InsertPieces(rs, obase, end) = u
  BY <1>4, <1>5, <1>7, <1>8, <1>10, <1>12
<1>14. /\ Ordered(u) /\ Len(u) = m + c + (n - v) /\ \A a : Has(u, a) <=> Has(w, a) \/ Has(t, a)
  <2>1. CASE v < n
    <3>1. v + 1 \in 1 .. Len(rs) /\ v + 1 \in v + 1 .. Len(rs)
      BY <1>2, <2>1
    <3>2. PICK x \in Nat : x = rs[v + 1].base
      BY <1>1, <3>1, RegionIs
    <3>3. EndBy(w, x)
      BY <1>9, <3>1, <3>2
    <3>4. BeginAt(t, x)
      <4> SUFFICES ASSUME NEW i \in 1 .. n - v PROVE x <= rs[v + i].base
        BY <1>11 DEF BeginAt
      <4>1. v + i \in 1 .. Len(rs) /\ (v + i = v + 1 \/ v + 1 < v + i)
        BY <1>2, <1>3
      <4>2. rs[v + 1].size \in Nat /\ rs[v + i].base \in Nat
        BY <1>1, <3>1, <4>1, RegionIs
      <4>3. v + 1 < v + i => rs[v + 1].base + rs[v + 1].size <= rs[v + i].base
        BY <3>1, <4>1 DEF Ordered
      <4> QED
        BY <3>2, <4>1, <4>2, <4>3
    <3>5. Ordered(u) /\ Len(u) = Len(w) + Len(t) /\ \A a : Has(u, a) <=> Has(w, a) \/ Has(t, a)
      BY <1>9, <1>11, <1>12, <3>3, <3>4, Joined
    <3> QED
      BY <1>9, <1>11, <3>5
  <2>2. CASE ~ (v < n)
    <3>1. v = n /\ Len(t) = 0
      BY <1>3, <1>11, <2>2
    <3>2. t = <<>>
      BY <1>11, <3>1
    <3>3. u = w /\ \A a : ~ Has(t, a)
      BY <1>9, <1>12, <3>1, <3>2 DEF Has
    <3> QED
      BY <1>9, <3>1, <3>3
  <2> QED
    BY <2>1, <2>2
<1>15. ASSUME NEW a \in Nat PROVE Has(u, a) <=> Has(rs, a) \/ (obase <= a /\ a < end)
  <2>1. Has(t, a) <=> \E i \in v + 1 .. n : In(rs[i], a)
    <3>1. ASSUME NEW i \in 1 .. n - v, In(t[i], a) PROVE \E j \in v + 1 .. n : In(rs[j], a)
      <4>1. v + i \in v + 1 .. n /\ t[i] = rs[v + i]
        BY <1>3, <1>11
      <4> QED
        BY <3>1, <4>1
    <3>2. ASSUME NEW j \in v + 1 .. n, In(rs[j], a) PROVE \E i \in 1 .. n - v : In(t[i], a)
      <4>1. PICK i \in 1 .. n - v : j = v + i
        <5>1. j - v \in 1 .. n - v /\ j = v + (j - v)
          BY <1>3
        <5> QED
          BY <5>1
      <4> QED
        BY <1>11, <3>2, <4>1
    <3> QED
      BY <1>11, <3>1, <3>2 DEF Has
  <2>2. Has(rs, a) <=> (\E i \in 1 .. v : In(rs[i], a)) \/ \E i \in v + 1 .. n : In(rs[i], a)
    <3>1. \A i \in 1 .. n : i \in 1 .. v \/ i \in v + 1 .. n
      OBVIOUS
    <3>2. (\A i \in 1 .. v : i \in 1 .. n) /\ \A i \in v + 1 .. n : i \in 1 .. n
      BY <1>3
    <3> QED
      BY <1>2, <3>1, <3>2 DEF Has
  <2>3. (obase <= a /\ a < b) \/ (b <= a /\ a < end) <=> (obase <= a /\ a < end)
    BY <1>6
  <2>4. Has(u, a) <=> Has(w, a) \/ Has(t, a)
    BY <1>14
  <2>5. Has(w, a) <=> (\E i \in 1 .. v : In(rs[i], a)) \/ (obase <= a /\ a < b) \/ (b <= a /\ a < end)
    BY <1>6, <1>9
  <2> QED
    BY <2>1, <2>2, <2>3, <2>4, <2>5
<1>16. n <= Len(u) /\ Len(u) <= 2 * n + 1
  BY <1>3, <1>6, <1>14
<1>17. ASSUME Len(u) = n PROVE u = rs
  <2>1. m = v /\ c = 0
    BY <1>3, <1>6, <1>14, <1>17
  <2>2. w = s /\ Len(s) = v
    BY <1>5, <1>9, <2>1
  <2>3. u \in Seq(Regions)
    BY <1>14 DEF Ordered, Proper
  <2>4. ASSUME NEW i \in 1 .. n PROVE u[i] = rs[i]
    <3>1. CASE i \in 1 .. v
      <4>1. u[i] = s[i]
        BY <1>5, <1>11, <1>12, <2>2, <3>1
      <4> QED
        BY <1>6, <2>1, <3>1, <4>1
    <3>2. CASE i \notin 1 .. v
      <4>1. PICK j \in 1 .. n - v : i = v + j
        <5>1. i - v \in 1 .. n - v /\ i = v + (i - v)
          BY <1>3, <3>2
        <5> QED
          BY <5>1
      <4>2. u[v + j] = t[j]
        <5>1. j \in 1 .. Len(t) /\ Len(w) = v /\ w \in Seq(Regions) /\ t \in Seq(Regions)
          BY <1>9, <1>11, <2>2
        <5> QED
          BY <1>12, <5>1
      <4> QED
        BY <1>11, <4>1, <4>2
    <3> QED
      BY <3>1, <3>2
  <2> QED
    BY <1>1, <1>2, <1>17, <2>3, <2>4
<1> QED
  BY <1>2, <1>13, <1>14, <1>15, <1>16, <1>17

-----------------------------------------------------------------------------
(* memblock_merge_regions()                                                *)

(* After k regions: what has been gone through covers the same addresses   *)
(* and ends where the last of them does.                                   *)
Arrays == {s \in Seq(Regions) : Len(s) > 0}
Merging(rs, s, k) ==
  /\ s \in Arrays /\ Apart(s)
  /\ s[Len(s)].base + s[Len(s)].size = rs[k].base + rs[k].size
  /\ \A a \in Nat : Has(s, a) <=> \E i \in 1 .. k : In(rs[i], a)

(* A step of the loop.                                                     *)
LEMMA MergeStepIs ==
  ASSUME NEW s \in Arrays, NEW r \in Regions
  PROVE  /\ s[Len(s)].base + s[Len(s)].size = r.base =>
              MergeStep(r)[s] =
                [s EXCEPT ![Len(s)] = Region(s[Len(s)].base, s[Len(s)].size + r.size)]
         /\ s[Len(s)].base + s[Len(s)].size # r.base => MergeStep(r)[s] = s \o <<r>>
         /\ MergeStep(r)[s] \in Arrays
<1>1. s \in Seq(Regions) /\ Len(s) > 0 /\ Len(s) \in 1 .. Len(s)
  BY DEF Arrays
<1>2. MergeStep(r)[s] =
        IF s[Len(s)].base + s[Len(s)].size = r.base
        THEN [s EXCEPT ![Len(s)] = Region(s[Len(s)].base, s[Len(s)].size + r.size)]
        ELSE s \o <<r>>
  BY <1>1 DEF MergeStep, End
<1>3. s[Len(s)].base \in Nat /\ s[Len(s)].size \in Nat /\ r.size \in Nat
  <2>1. r.size \in Nat
    BY DEF Regions
  <2> QED
    BY <1>1, <2>1, RegionIs
<1>4. Region(s[Len(s)].base, s[Len(s)].size + r.size) \in Regions
  <2>1. s[Len(s)].size + r.size \in Nat
    BY <1>3
  <2> QED
    BY <1>3, <2>1, RegionOf
<1>5. [s EXCEPT ![Len(s)] = Region(s[Len(s)].base, s[Len(s)].size + r.size)] \in Arrays
  <2>1. PICK x \in Regions : x = Region(s[Len(s)].base, s[Len(s)].size + r.size)
    BY <1>4
  <2>2. [s EXCEPT ![Len(s)] = x] \in Arrays
    BY <1>1 DEF Arrays
  <2> QED
    BY <2>1, <2>2
<1>6. s \o <<r>> \in Arrays
  BY <1>1 DEF Arrays
<1> QED
  BY <1>2, <1>5, <1>6

(* A region is taken in or put behind.                                     *)
LEMMA MergingRegion ==
  ASSUME NEW rs, Ordered(rs), NEW k \in 2 .. Len(rs), NEW s, Merging(rs, s, k - 1)
  PROVE  Merging(rs, MergeStep(rs[k])[s], k)
<1>1. rs \in Seq(Regions) /\ k \in 1 .. Len(rs) /\ k - 1 \in 1 .. Len(rs) /\ k - 1 < k
  BY DEF Ordered, Proper
<1>2. PICK r \in Regions, rb \in Nat, rz \in Nat : r = rs[k] /\ rb = r.base /\ rz = r.size /\ rz > 0
  <2>1. rs[k].size > 0
    BY <1>1 DEF Ordered, Proper
  <2> QED
    BY <1>1, <2>1, RegionIs
<1>3. s \in Seq(Regions) /\ Len(s) > 0 /\ Apart(s) /\ s \in Arrays
  BY DEF Merging, Arrays
<1>4. PICK n \in Nat : n = Len(s) /\ n \in 1 .. n /\ n > 0
  BY <1>3
<1>5. PICK tb \in Nat, tz \in Nat : tb = s[n].base /\ tz = s[n].size /\ tz > 0
  <2>1. s[n].size > 0
    BY <1>3, <1>4 DEF Apart, Proper
  <2> QED
    BY <1>3, <1>4, <2>1, RegionIs
<1>6. tb + tz <= rb
  <2>1. rs[k - 1].base + rs[k - 1].size <= rs[k].base
    BY <1>1 DEF Ordered
  <2> QED
    BY <1>2, <1>4, <1>5, <2>1 DEF Merging
<1>7. PICK u : u = MergeStep(r)[s]
  OBVIOUS
<1>8. \A a \in Nat : (\E i \in 1 .. k : In(rs[i], a)) <=> Has(s, a) \/ In(r, a)
  <2>1. \A i \in 1 .. k : i \in 1 .. k - 1 \/ i = k
    OBVIOUS
  <2>2. k \in 1 .. k /\ \A i \in 1 .. k - 1 : i \in 1 .. k
    OBVIOUS
  <2> QED
    BY <1>2, <2>1, <2>2 DEF Merging
<1>9. /\ u \in Arrays
      /\ tb + tz = rb => u = [s EXCEPT ![n] = Region(tb, tz + rz)]
      /\ tb + tz # rb => u = s \o <<r>>
  <2>1. /\ u \in Arrays
        /\ s[Len(s)].base + s[Len(s)].size = r.base =>
             u = [s EXCEPT ![Len(s)] = Region(s[Len(s)].base, s[Len(s)].size + r.size)]
        /\ s[Len(s)].base + s[Len(s)].size # r.base => u = s \o <<r>>
    BY <1>3, <1>7, MergeStepIs
  <2> QED
    BY <1>2, <1>4, <1>5, <2>1
<1>10. /\ \A i \in 1 .. n : s[i].base \in Nat /\ s[i].size \in Nat /\ s[i].size > 0
       /\ \A i, j \in 1 .. n : i < j => s[i].base + s[i].size < s[j].base
  <2>1. \A i \in 1 .. n : s[i].base \in Nat /\ s[i].size \in Nat
    BY <1>3, <1>4, RegionIs
  <2> QED
    BY <1>3, <1>4, <2>1 DEF Apart, Proper
<1>11. CASE tb + tz = rb
  <2>1. PICK x \in Regions : x = Region(tb, tz + rz) /\ x.base = tb /\ x.size = tz + rz
    <3>1. PICK z \in Nat : z = tz + rz
      OBVIOUS
    <3> QED
      BY <3>1, RegionOf
  <2>2. u = [s EXCEPT ![n] = x]
    BY <1>9, <1>11, <2>1
  <2>3. /\ Len(u) = n /\ u[n] = x /\ \A i \in 1 .. n : i # n => u[i] = s[i]
        /\ u \in Seq(Regions)
    BY <1>3, <1>4, <2>2
  <2>4. \A i \in 1 .. n : u[i].base = s[i].base /\ u[i].size > 0
    <3>1. x.base = s[n].base /\ x.size > 0
      BY <1>5, <2>1
    <3>2. \A i \in 1 .. n : i # n => u[i].base = s[i].base /\ u[i].size > 0
      BY <1>10, <2>3
    <3> QED
      BY <2>3, <3>1, <3>2
  <2>5. \A i, j \in 1 .. n : i < j => u[i].base + u[i].size < u[j].base
    <3> SUFFICES ASSUME NEW i \in 1 .. n, NEW j \in 1 .. n, i < j
                 PROVE  u[i].base + u[i].size < u[j].base
      OBVIOUS
    <3>1. u[i] = s[i] /\ u[j].base = s[j].base
      BY <2>3, <2>4
    <3> QED
      BY <1>10, <3>1
  <2>6. Apart(u)
    BY <2>3, <2>4, <2>5 DEF Apart, Proper
  <2>7. \A a \in Nat : In(x, a) <=> In(s[n], a) \/ In(r, a)
    <3> TAKE a \in Nat
    <3>1. In(x, a) <=> tb <= a /\ a < tb + (tz + rz)
      BY <2>1 DEF In
    <3>2. In(s[n], a) <=> tb <= a /\ a < tb + tz
      BY <1>5 DEF In
    <3>3. In(r, a) <=> rb <= a /\ a < rb + rz
      BY <1>2 DEF In
    <3> QED
      BY <1>11, <3>1, <3>2, <3>3
  <2>8. ASSUME NEW a \in Nat PROVE Has(u, a) <=> Has(s, a) \/ In(r, a)
    <3>1. ASSUME NEW i \in 1 .. n, In(u[i], a) PROVE Has(s, a) \/ In(r, a)
      BY <1>4, <2>3, <2>7, <3>1 DEF Has
    <3>2. ASSUME NEW i \in 1 .. n, In(s[i], a) PROVE Has(u, a)
      BY <1>4, <2>3, <2>7, <3>2 DEF Has
    <3>3. In(r, a) => Has(u, a)
      BY <1>4, <2>3, <2>7 DEF Has
    <3> QED
      BY <1>4, <2>3, <3>1, <3>2, <3>3 DEF Has
  <2>9. u[Len(u)].base + u[Len(u)].size = rs[k].base + rs[k].size
    <3>1. x.base + x.size = rb + rz
      BY <1>5, <1>11, <2>1
    <3> QED
      BY <1>2, <1>5, <2>3, <3>1
  <2>10. Merging(rs, u, k)
    BY <1>8, <1>9, <2>6, <2>8, <2>9 DEF Merging
  <2> QED
    BY <1>2, <1>7, <2>10
<1>12. CASE tb + tz # rb
  <2>1. u = s \o <<r>>
    BY <1>9, <1>12
  <2>2. /\ u \in Seq(Regions) /\ Len(u) = n + 1 /\ u[n + 1] = r
        /\ \A i \in 1 .. n : u[i] = s[i]
    BY <1>3, <1>4, <2>1
  <2>3. \A i \in 1 .. n + 1 : i \in 1 .. n \/ i = n + 1
    OBVIOUS
  <2>4. \A i \in 1 .. n + 1 : u[i].size > 0
    BY <1>2, <1>10, <2>2, <2>3
  <2>5. ASSUME NEW i \in 1 .. n PROVE s[i].base + s[i].size < rb
    <3>1. i = n \/ i < n
      OBVIOUS
    <3>2. s[i].base \in Nat /\ s[i].size \in Nat /\ (i < n => s[i].base + s[i].size < s[n].base)
      BY <1>4, <1>10
    <3>3. CASE i = n
      BY <1>5, <1>6, <1>12, <3>3
    <3>4. CASE i < n
      <4>1. PICK e \in Nat : e = s[i].base + s[i].size
        BY <3>2
      <4>2. e < tb
        BY <1>5, <3>2, <3>4, <4>1
      <4>3. e < rb
        BY <1>6, <4>2
      <4> QED
        BY <4>1, <4>3
    <3> QED
      BY <3>1, <3>3, <3>4
  <2>6. ASSUME NEW i \in 1 .. n + 1, NEW j \in 1 .. n + 1, i < j
        PROVE  u[i].base + u[i].size < u[j].base
    <3>1. i \in 1 .. n /\ u[i] = s[i]
      BY <2>2, <2>6
    <3>2. CASE j \in 1 .. n
      BY <1>10, <2>2, <2>6, <3>1, <3>2
    <3>3. CASE j = n + 1
      BY <1>2, <2>2, <2>5, <3>1, <3>3
    <3> QED
      BY <2>3, <3>2, <3>3
  <2>7. Apart(u)
    BY <2>2, <2>4, <2>6 DEF Apart, Proper
  <2>8. ASSUME NEW a \in Nat PROVE Has(u, a) <=> Has(s, a) \/ In(r, a)
    <3>1. n + 1 \in 1 .. n + 1 /\ \A i \in 1 .. n : i \in 1 .. n + 1
      OBVIOUS
    <3> QED
      BY <1>4, <2>2, <2>3, <3>1 DEF Has
  <2>9. u[Len(u)].base + u[Len(u)].size = rs[k].base + rs[k].size
    BY <1>2, <2>2
  <2>10. Merging(rs, u, k)
    BY <1>8, <1>9, <2>7, <2>8, <2>9 DEF Merging
  <2> QED
    BY <1>2, <1>7, <2>10
<1> QED
  BY <1>11, <1>12

(* The merged array covers the same addresses, in regions that do not      *)
(* touch.                                                                  *)
LEMMA Merged ==
  ASSUME NEW rs, Ordered(rs), Len(rs) > 0
  PROVE  Merging(rs, MergeRegions(rs), Len(rs))
<1> DEFINE n == Len(rs) - 1
           V == [k \in 0 .. n |-> Arrays]
           S == [z \in Arrays \X (1 .. n) |-> MergeStep(rs[z[2] + 1])[z[1]]]
           a == <<rs[1]>>
           body(f, k) == IF k = 0 THEN a ELSE MergeStep(rs[k + 1])[f[k - 1]]
           F == CHOOSE f : f = [k \in 0 .. n |-> body(f, k)]
<1>1. /\ n \in Nat /\ 0 \in 0 .. n /\ n \in 0 .. n /\ rs \in Seq(Regions) /\ n + 1 = Len(rs)
      /\ \A k \in 1 .. n : k \in 0 .. n /\ k - 1 \in 0 .. n /\ k # 0 /\ k + 1 \in 2 .. Len(rs) /\ k + 1 \in 1 .. Len(rs)
                           /\ (k - 1) + 1 = (k + 1) - 1
      /\ \A k \in 0 .. n : k # 0 => k \in 1 .. n
      /\ 1 \in 1 .. Len(rs)
  BY DEF Ordered, Proper
<1>2. MergeRegions(rs) = F[n]
  BY Zenon DEF MergeRegions
<1>3. ASSUME NEW s \in Arrays, NEW k \in 1 .. n PROVE MergeStep(rs[k + 1])[s] \in Arrays
  <2>1. rs[k + 1] \in Regions
    BY <1>1, RegionIs
  <2> QED
    BY <2>1, MergeStepIs
<1>4. rs[1] \in Regions /\ rs[1].size > 0 /\ rs[1].base \in Nat /\ rs[1].size \in Nat
  BY <1>1, RegionIs DEF Ordered, Proper
<1>5. a \in Arrays /\ Merging(rs, a, 1)
  <2>1. /\ Ordered(a) /\ Len(a) = 1 /\ a[1] = rs[1] /\ a \in Seq(Regions)
        /\ \A x : Has(a, x) <=> In(rs[1], x)
    BY <1>4, SingleIs
  <2>2. a \in Arrays /\ \A i \in 1 .. 1 : i = 1
    BY <2>1 DEF Arrays
  <2>3. Apart(a)
    BY <1>4, <2>1, <2>2 DEF Apart, Proper
  <2>4. \A x : In(rs[1], x) <=> \E i \in 1 .. 1 : In(rs[i], x)
    BY <2>2
  <2> QED
    BY <2>1, <2>2, <2>3, <2>4 DEF Merging
<1>6. a \in V[0] /\ \A k \in 0 .. n : V[k] = Arrays
  BY <1>1, <1>5
<1>7. \A s \in Arrays, k \in 1 .. n : S[<<s, k>>] = MergeStep(rs[k + 1])[s]
  OBVIOUS
<1> HIDE DEF n, V, S, a
<1>8. LoopKeeps(n, a, V, S)
  BY <1>1, <1>3, <1>6, <1>7 DEF LoopKeeps
<1>9. PICK f0 : LoopIn(f0, n, a, V, S)
  BY <1>1, <1>8, LoopExists
<1>10. \A k \in 0 .. n : f0[k] = body(f0, k)
  BY <1>1, <1>6, <1>7, <1>9 DEF LoopIn
<1>11. f0 = [k \in 0 .. n |-> body(f0, k)]
  BY <1>9, <1>10 DEF LoopIn
<1>12. F = [k \in 0 .. n |-> body(F, k)]
  BY <1>11, Zenon
<1> HIDE DEF F
<1>13. \A k \in 0 .. n : F[k] = body(F, k)
  BY <1>12
<1> DEFINE W == [k \in 0 .. n |-> {s \in Arrays : Merging(rs, s, k + 1)}]
<1>14. \A k \in 0 .. n : \A s : s \in W[k] <=> Merging(rs, s, k + 1)
  BY DEF Merging
<1> HIDE DEF W
<1>15. \A k \in 0 .. n : F[k] \in W[k]
  <2>1. F[0] \in W[0]
    BY <1>1, <1>5, <1>13, <1>14
  <2>2. ASSUME NEW k \in 1 .. n, F[k - 1] \in W[k - 1] PROVE F[k] \in W[k]
    <3>1. Merging(rs, F[k - 1], (k - 1) + 1)
      BY <1>1, <1>14, <2>2
    <3>2. PICK j \in 2 .. Len(rs) : j = k + 1 /\ j - 1 = (k - 1) + 1
      BY <1>1
    <3>3. Merging(rs, F[k - 1], j - 1)
      BY <3>1, <3>2
    <3>4. Merging(rs, MergeStep(rs[j])[F[k - 1]], j)
      BY <3>3, MergingRegion
    <3>5. F[k] = MergeStep(rs[j])[F[k - 1]]
      BY <1>1, <1>13, <3>2
    <3> QED
      BY <1>1, <1>14, <3>2, <3>4, <3>5
  <2> QED
    BY <1>1, <2>1, <2>2, LoopInvariant
<1> QED
  BY <1>1, <1>2, <1>14, <1>15

-----------------------------------------------------------------------------
(* Sizes                                                                   *)

(* The sums of the first numbers of a sequence.                            *)
Sums(z, f) ==
  /\ f[0] = 0 /\ \A k \in 1 .. Len(z) : f[k] = f[k - 1] + z[k]
  /\ \A k \in 0 .. Len(z) : f[k] \in Nat
LEMMA SumIs ==
  ASSUME NEW z \in Seq(Nat)
  PROVE  SumSeq(z) \in Nat /\ \E f : Sums(z, f) /\ SumSeq(z) = f[Len(z)]
<1> DEFINE n == Len(z)
           V == [k \in 0 .. n |-> Nat]
           S == [y \in Nat \X (1 .. n) |-> y[1] + z[y[2]]]
           body(f, k) == IF k = 0 THEN 0 ELSE f[k - 1] + z[k]
           F == CHOOSE f : f = [k \in 0 .. n |-> body(f, k)]
<1>1. /\ n \in Nat /\ 0 \in 0 .. n /\ n \in 0 .. n
      /\ \A k \in 1 .. n : k \in 0 .. n /\ k - 1 \in 0 .. n /\ k # 0
      /\ \A k \in 0 .. n : k # 0 => k \in 1 .. n
  OBVIOUS
<1>2. SumSeq(z) = F[n]
  BY Zenon DEF SumSeq
<1>3. ASSUME NEW x \in Nat, NEW k \in 1 .. n PROVE x + z[k] \in Nat
  OBVIOUS
<1>4. 0 \in V[0] /\ \A k \in 0 .. n : V[k] = Nat
  BY <1>1
<1>5. \A x \in Nat, k \in 1 .. n : S[<<x, k>>] = x + z[k]
  OBVIOUS
<1> HIDE DEF n, V, S
<1>6. LoopKeeps(n, 0, V, S)
  <2>1. ASSUME NEW k \in 1 .. n, NEW x \in V[k - 1] PROVE S[<<x, k>>] \in V[k]
    <3>1. x \in Nat /\ V[k] = Nat
      BY <1>1, <1>4
    <3> QED
      BY <1>3, <1>5, <3>1
  <2> QED
    BY <1>4, <2>1 DEF LoopKeeps
<1>7. PICK f0 : LoopIn(f0, n, 0, V, S)
  BY <1>1, <1>6, LoopExists
<1>8. \A k \in 0 .. n : f0[k] = body(f0, k)
  BY <1>1, <1>4, <1>5, <1>7, ZenonT(30) DEF LoopIn
<1>9. f0 = [k \in 0 .. n |-> body(f0, k)]
  BY <1>7, <1>8 DEF LoopIn
<1>10. F = [k \in 0 .. n |-> body(F, k)]
  BY <1>9, Zenon
<1> HIDE DEF F
<1>11. \A k \in 0 .. n : F[k] = body(F, k)
  BY <1>10
<1>12. \A k \in 0 .. n : F[k] \in V[k]
  <2>1. F[0] \in V[0]
    BY <1>1, <1>4, <1>11
  <2>2. ASSUME NEW k \in 1 .. n, F[k - 1] \in V[k - 1] PROVE F[k] \in V[k]
    <3>1. F[k - 1] \in Nat /\ V[k] = Nat
      BY <1>1, <1>4, <2>2
    <3>2. F[k] = F[k - 1] + z[k]
      BY <1>1, <1>11
    <3> QED
      BY <1>3, <3>1, <3>2
  <2> QED
    BY <1>1, <2>1, <2>2, LoopInvariant
<1>13. \A k \in 0 .. n : F[k] \in Nat
  BY <1>4, <1>12
<1>14. F[0] = 0 /\ \A k \in 1 .. n : F[k] = F[k - 1] + z[k]
  BY <1>1, <1>11
<1>15. Sums(z, F)
  BY <1>13, <1>14 DEF Sums, n
<1> QED
  BY <1>1, <1>2, <1>13, <1>15 DEF n

(* The sizes of ordered regions add up to the number of addresses covered: *)
(* none is counted twice.                                                  *)
LEMMA TotalIs ==
  ASSUME NEW s, Ordered(s)
  PROVE  /\ IsFiniteSet(Covered(s))
         /\ Total(s) = Cardinality(Covered(s)) /\ Total(s) \in Nat
<1>1. s \in Seq(Regions) /\ DOMAIN s = 1 .. Len(s)
  BY DEF Ordered, Proper
<1>2. PICK n \in Nat : n = Len(s)
  <2>1. Len(s) \in Nat
    BY <1>1
  <2> QED
    BY <2>1
<1>3. PICK z \in Seq(Nat) : /\ z = [i \in DOMAIN s |-> s[i].size] /\ Len(z) = n
                            /\ \A i \in 1 .. n : z[i] = s[i].size
  <2>1. \A i \in 1 .. Len(s) : s[i].size \in Nat
    BY <1>1, RegionIs
  <2>2. [i \in 1 .. n |-> s[i].size] \in Seq(Nat) /\ Len([i \in 1 .. n |-> s[i].size]) = n
    BY <1>2, <2>1
  <2> QED
    BY <1>1, <1>2, <2>2
<1>4. PICK f : Sums(z, f) /\ SumSeq(z) = f[Len(z)]
  BY SumIs
<1>5. Total(s) = f[n]
  BY <1>3, <1>4, Zenon DEF Total
<1>6. /\ f[0] = 0 /\ \A k \in 1 .. n : f[k] = f[k - 1] + s[k].size
      /\ \A k \in 0 .. n : f[k] \in Nat
  BY <1>3, <1>4 DEF Sums
<1> DEFINE P(k) == {a \in Nat : \E i \in 1 .. k : In(s[i], a)}
           V == [k \in 0 .. n |-> {x \in Nat : IsFiniteSet(P(k)) /\ x = Cardinality(P(k))}]
<1>7. \A k \in 0 .. n : \A x : x \in V[k] <=> x \in Nat /\ IsFiniteSet(P(k)) /\ x = Cardinality(P(k))
  OBVIOUS
<1>8. Covered(s) = P(n)
  <2>1. Covered(s) = {a \in Nat : Has(s, a)}
    BY <1>1, CoveredIs
  <2> QED
    BY <1>2, <2>1 DEF Has
<1>9. P(0) = {}
  OBVIOUS
<1>10. ASSUME NEW k \in 1 .. n
       PROVE  \E b \in Nat : /\ P(k) = P(k - 1) \cup (b .. b + s[k].size - 1)
                             /\ P(k - 1) \cap (b .. b + s[k].size - 1) = {}
  <2>1. k \in 1 .. Len(s)
    BY <1>2
  <2>2. s[k].base \in Nat /\ s[k].size \in Nat
    BY <1>1, <2>1, RegionIs
  <2>3. PICK b \in Nat, c \in Nat : b = s[k].base /\ c = s[k].size
    BY <2>2
  <2>4. \A a \in Nat : In(s[k], a) <=> a \in b .. b + c - 1
    BY <2>3, SMTT(30) DEF In
  <2>5. \A i \in 1 .. k : i \in 1 .. k - 1 \/ i = k
    OBVIOUS
  <2>6. k \in 1 .. k /\ \A i \in 1 .. k - 1 : i \in 1 .. k
    OBVIOUS
  <2>7. P(k) = P(k - 1) \cup (b .. b + c - 1)
    <3>1. b .. b + c - 1 \subseteq Nat
      OBVIOUS
    <3> QED
      BY <2>4, <2>5, <2>6, <3>1
  <2>8. ASSUME NEW a \in Nat, NEW i \in 1 .. k - 1, In(s[i], a), a \in b .. b + c - 1 PROVE FALSE
    <3>1. i \in 1 .. Len(s) /\ i < k
      BY <2>1
    <3>2. s[i].base \in Nat /\ s[i].size \in Nat
      BY <1>1, <3>1, RegionIs
    <3>3. s[i].base + s[i].size <= s[k].base
      BY <2>1, <3>1 DEF Ordered
    <3>4. a < s[i].base + s[i].size
      BY <2>8 DEF In
    <3>5. PICK e \in Nat : e = s[i].base + s[i].size
      BY <3>2
    <3> QED
      BY <2>3, <2>8, <3>3, <3>4, <3>5
  <2>9. P(k - 1) \cap (b .. b + c - 1) = {}
    BY <2>8
  <2> QED
    BY <2>3, <2>7, <2>9
<1>11. \A k \in 0 .. n : f[k] \in V[k]
  <2>1. f[0] \in V[0]
    <3>1. 0 \in 0 .. n /\ 0 \in Nat
      OBVIOUS
    <3>2. IsFiniteSet(P(0)) /\ Cardinality(P(0)) = 0
      BY <1>9, FS_EmptySet
    <3> HIDE DEF P, V
    <3> QED
      BY <1>6, <1>7, <3>1, <3>2
  <2>2. ASSUME NEW k \in 1 .. n, f[k - 1] \in V[k - 1] PROVE f[k] \in V[k]
    <3>1. k \in 0 .. n /\ k - 1 \in 0 .. n
      OBVIOUS
    <3>2. IsFiniteSet(P(k - 1)) /\ f[k - 1] = Cardinality(P(k - 1))
      BY <1>7, <2>2, <3>1
    <3>3. PICK b \in Nat : /\ P(k) = P(k - 1) \cup (b .. b + s[k].size - 1)
                           /\ P(k - 1) \cap (b .. b + s[k].size - 1) = {}
      BY <1>10
    <3>4. PICK c \in Nat : c = s[k].size
      BY <1>1, <1>2, RegionIs
    <3> HIDE DEF P, V
    <3>5. PICK J : J = b .. b + c - 1
      OBVIOUS
    <3>6. IsFiniteSet(J) /\ Cardinality(J) = c
      BY <3>5, FS_Interval
    <3>7. P(k) = P(k - 1) \cup J /\ P(k - 1) \cap J = {}
      BY <3>3, <3>4, <3>5
    <3>8. IsFiniteSet(P(k)) /\ Cardinality(P(k)) = Cardinality(P(k - 1)) + Cardinality(J) - Cardinality({})
      <4>1. /\ IsFiniteSet(P(k - 1) \cup J)
            /\ Cardinality(P(k - 1) \cup J) =
                 Cardinality(P(k - 1)) + Cardinality(J) - Cardinality(P(k - 1) \cap J)
        BY <3>2, <3>6, FS_Union, Zenon
      <4> QED
        BY <3>7, <4>1, Zenon
    <3>9. Cardinality({}) = 0
      BY FS_EmptySet
    <3>10. f[k] = Cardinality(P(k))
      <4>1. f[k] = f[k - 1] + c /\ f[k - 1] \in Nat
        BY <1>6, <3>1, <3>4
      <4> QED
        BY <3>2, <3>6, <3>8, <3>9, <4>1
    <3> QED
      BY <1>6, <1>7, <3>1, <3>8, <3>10
  <2> QED
    BY <2>1, <2>2, LoopInvariant
<1>12. f[n] \in Nat /\ IsFiniteSet(P(n)) /\ f[n] = Cardinality(P(n))
  <2> HIDE DEF P, V
  <2>1. n \in 0 .. n
    OBVIOUS
  <2> QED
    BY <1>7, <1>11, <2>1
<1> HIDE DEF P, V
<1> QED
  BY <1>5, <1>8, <1>12

-----------------------------------------------------------------------------
(* memblock_reserve()                                                      *)

(* The array says exactly what was asked for.                              *)
Kept ==
  /\ Apart(reserved.regions) /\ Len(reserved.regions) > 0
  /\ Covered(reserved.regions) = asked
  /\ reserved.total_size = Cardinality(asked)
Untouched ==
  /\ reserved.regions = <<Region(0, 0)>> /\ reserved.total_size = 0 /\ asked = {}
PeakFits == peak \in Nat /\ peak <= MaxRegions
ReservedInv ==
  /\ PeakFits
  /\ stage = "kernel" => Untouched
  /\ stage # "kernel" => Kept

(* Regions that do not touch are in ascending order.                       *)
LEMMA ApartIsOrdered ==
  ASSUME NEW s, Apart(s)
  PROVE  Ordered(s)
<1>1. s \in Seq(Regions) /\ Proper(s)
  BY DEF Apart, Proper
<1> SUFFICES ASSUME NEW i \in 1 .. Len(s), NEW j \in 1 .. Len(s), i < j
             PROVE  s[i].base + s[i].size <= s[j].base
  BY <1>1 DEF Ordered
<1>2. s[i].base \in Nat /\ s[i].size \in Nat /\ s[j].base \in Nat
  BY <1>1, RegionIs
<1>3. s[i].base + s[i].size < s[j].base
  BY DEF Apart
<1> QED
  BY <1>2, <1>3

(* The array after the insertions and the merge.                           *)
Repieced(rs, base, size, pieces, new) ==
  /\ pieces = InsertPieces(rs, base, base + size)
  /\ new = IF Len(pieces) = Len(rs) THEN pieces ELSE MergeRegions(pieces)
LEMMA PiecesKept ==
  ASSUME NEW rs, Apart(rs), Len(rs) > 0, NEW base \in Nat, NEW size \in Nat,
         NEW pieces, NEW new, Repieced(rs, base, size, pieces, new)
  PROVE  /\ Apart(new) /\ Len(new) > 0
         /\ Covered(new) = Covered(rs) \cup Span(base, size)
         /\ Covered(new) = Covered(pieces) /\ Ordered(pieces)
         /\ Len(pieces) <= 2 * Len(rs) + 1
<1>1. Ordered(rs) /\ rs \in Seq(Regions)
  BY ApartIsOrdered DEF Apart, Proper
<1>2. PICK end \in Nat : end = base + size /\ base <= end
  OBVIOUS
<1>3. /\ Ordered(pieces)
      /\ \A a \in Nat : Has(pieces, a) <=> Has(rs, a) \/ (base <= a /\ a < end)
      /\ Len(rs) <= Len(pieces)
      /\ Len(pieces) <= 2 * Len(rs) + 1
      /\ Len(pieces) = Len(rs) => pieces = rs
  BY <1>1, <1>2, Inserted DEF Repieced
<1>4. pieces \in Seq(Regions) /\ Len(pieces) > 0
  <2>1. pieces \in Seq(Regions)
    BY <1>3 DEF Ordered, Proper
  <2>2. PICK x \in Nat, y \in Nat : x = Len(pieces) /\ y = Len(rs)
    BY <1>1, <2>1
  <2> QED
    BY <1>3, <2>1, <2>2
<1>5. Covered(pieces) = Covered(rs) \cup Span(base, size)
  <2>1. Covered(pieces) = {a \in Nat : Has(pieces, a)}
    BY <1>4, CoveredIs
  <2>2. Covered(rs) = {a \in Nat : Has(rs, a)}
    BY <1>1, CoveredIs
  <2>3. Span(base, size) = {a \in Nat : base <= a /\ a < end}
    BY <1>2 DEF Span
  <2> QED
    BY <1>3, <2>1, <2>2, <2>3
<1>6. CASE Len(pieces) = Len(rs)
  BY <1>3, <1>5, <1>6 DEF Repieced
<1>7. CASE Len(pieces) # Len(rs)
  <2>1. Merging(pieces, new, Len(pieces))
    BY <1>3, <1>4, <1>7, Merged DEF Repieced
  <2>2. Apart(new) /\ new \in Seq(Regions) /\ Len(new) > 0
    BY <2>1 DEF Merging, Arrays
  <2>3. \A a \in Nat : Has(new, a) <=> Has(pieces, a)
    BY <2>1 DEF Merging, Has
  <2>4. Covered(new) = {a \in Nat : Has(new, a)}
    BY <2>2, CoveredIs
  <2>5. Covered(pieces) = {a \in Nat : Has(pieces, a)}
    BY <1>4, CoveredIs
  <2>6. Covered(new) = Covered(pieces)
    BY <2>3, <2>4, <2>5
  <2> QED
    BY <1>3, <1>5, <2>2, <2>6
<1> QED
  BY <1>6, <1>7

(* A range reserved after the kernel's.                                    *)
LEMMA ReserveKeeps ==
  ASSUME Kept, PeakFits, NEW base \in Nat, NEW size0 \in Nat, NEW next,
         Reserve(base, size0, next)
  PROVE  Kept' /\ PeakFits' /\ stage' \in {next, "hung"}
<1>1. Word \in Nat \ {0} /\ MaxRegions \in Nat \ {0}
  BY MemblockAssumption
<1>2. PICK size \in Nat : size = ALIGN(size0, Word)
  BY <1>1, AlignIs
<1>3. PICK rs : rs = reserved.regions
  OBVIOUS
<1>4. Apart(rs) /\ Len(rs) > 0 /\ Covered(rs) = asked /\ reserved.total_size = Cardinality(asked)
  BY <1>3 DEF Kept
<1>5. rs[1].size # 0
  <2>1. rs \in Seq(Regions)
    BY <1>4 DEF Apart, Proper
  <2>2. 1 \in 1 .. Len(rs)
    BY <1>4, <2>1
  <2>3. rs[1].size > 0 /\ rs[1].size \in Nat
    BY <1>4, <2>1, <2>2, RegionIs DEF Apart, Proper
  <2> QED
    BY <2>3
<1>6. PICK pieces : pieces = InsertPieces(rs, base, base + size)
  OBVIOUS
<1>7. PICK new : new = IF Len(pieces) = Len(rs) THEN pieces ELSE MergeRegions(pieces)
  OBVIOUS
<1>8. \/ stage' \in {next, "hung"} /\ UNCHANGED <<reserved, peak, asked>>
      \/ /\ ~ DoubleArrayHangs(rs, pieces)
         /\ stage' = next
         /\ reserved' = [regions |-> new, total_size |-> reserved.total_size + Total(pieces) - Total(rs)]
         /\ peak' = Upper(peak, Len(pieces))
         /\ asked' = asked \cup Span(base, size)
  BY <1>2, <1>3, <1>5, <1>6, <1>7, Zenon DEF Reserve
<1>9. CASE stage' \in {next, "hung"} /\ UNCHANGED <<reserved, peak, asked>>
  BY <1>9 DEF Kept, PeakFits
<1>10. CASE /\ ~ DoubleArrayHangs(rs, pieces)
            /\ stage' = next
            /\ reserved' = [regions |-> new, total_size |-> reserved.total_size + Total(pieces) - Total(rs)]
            /\ peak' = Upper(peak, Len(pieces))
            /\ asked' = asked \cup Span(base, size)
  <2>1. /\ Apart(new) /\ Len(new) > 0
        /\ Covered(new) = Covered(rs) \cup Span(base, size)
        /\ Covered(new) = Covered(pieces) /\ Ordered(pieces)
        /\ Len(pieces) <= 2 * Len(rs) + 1
    <3>1. Repieced(rs, base, size, pieces, new)
      BY <1>6, <1>7 DEF Repieced
    <3> QED
      BY <1>4, <3>1, PiecesKept
  <2>2. reserved'.regions = new /\ reserved'.total_size = reserved.total_size + Total(pieces) - Total(rs)
    BY <1>10
  <2>3. Covered(new) = asked'
    BY <1>4, <1>10, <2>1
  <2>4. reserved'.total_size = Cardinality(asked')
    <3>1. Total(rs) = Cardinality(asked) /\ Total(rs) \in Nat
      BY <1>4, ApartIsOrdered, TotalIs
    <3>2. Total(pieces) = Cardinality(asked') /\ Total(pieces) \in Nat
      BY <2>1, <2>3, TotalIs
    <3> QED
      BY <1>4, <2>2, <3>1, <3>2
  <2>5. Kept'
    BY <2>1, <2>2, <2>3, <2>4 DEF Kept
  <2>6. PICK n \in Nat, m \in Nat : n = Len(rs) /\ m = Len(pieces)
    <3>1. rs \in Seq(Regions) /\ pieces \in Seq(Regions)
      BY <1>4, <2>1 DEF Apart, Ordered, Proper
    <3> QED
      BY <3>1
  <2>7. m <= MaxRegions
    <3>1. n * 2 + 1 < MaxRegions \/ ~ (m > MaxRegions)
      BY <1>10, <2>6 DEF DoubleArrayHangs, RoomWithoutCounting
    <3>2. m <= 2 * n + 1
      BY <2>1, <2>6
    <3> QED
      BY <1>1, <3>1, <3>2
  <2>8. PeakFits'
    BY <1>10, <2>6, <2>7 DEF PeakFits, Upper
  <2> QED
    BY <1>10, <2>5, <2>8
<1> QED
  BY <1>8, <1>9, <1>10

(* The first range, the kernel's, takes the place of the dummy region.     *)
LEMMA ReserveFirst ==
  ASSUME Untouched, PeakFits, Reserve(0, KernelEnd, "initrd")
  PROVE  Kept' /\ PeakFits' /\ stage' = "initrd"
<1>1. Word \in Nat \ {0} /\ MaxRegions \in Nat \ {0} /\ KernelEnd \in Nat \ {0}
  BY MemblockAssumption
<1>2. PICK size \in Nat : size = ALIGN(KernelEnd, Word) /\ size > 0
  <2>1. ALIGN(KernelEnd, Word) \in Nat /\ KernelEnd <= ALIGN(KernelEnd, Word)
    BY <1>1, AlignIs
  <2> QED
    BY <1>1, <2>1
<1>3. reserved.regions[1].size = 0
  <2>1. Region(0, 0).size = 0
    BY RegionOf
  <2> QED
    BY <2>1 DEF Untouched
<1>4. PICK r \in Regions : r = Region(0, size) /\ r.base = 0 /\ r.size = size
  BY RegionOf
<1>5. /\ stage' = "initrd"
      /\ reserved' = [regions |-> <<r>>, total_size |-> size]
      /\ peak' = Upper(peak, Len(<<r>>))
      /\ asked' = asked \cup Span(0, size)
  <2>1. size # 0
    BY <1>2
  <2> QED
    BY <1>2, <1>3, <1>4, <2>1, Zenon DEF Reserve
<1>6. /\ Ordered(<<r>>) /\ Len(<<r>>) = 1 /\ <<r>>[1] = r /\ <<r>> \in Seq(Regions)
      /\ \A a : Has(<<r>>, a) <=> In(r, a)
  BY <1>2, <1>4, SingleIs
<1>7. Apart(<<r>>)
  <2>1. \A i \in 1 .. 1 : i = 1
    OBVIOUS
  <2> QED
    BY <1>6, <2>1 DEF Apart, Ordered, Proper
<1>8. asked' = 0 .. size - 1
  BY <1>5 DEF Untouched, Span
<1>9. Covered(<<r>>) = 0 .. size - 1
  <2>1. Covered(<<r>>) = {a \in Nat : Has(<<r>>, a)}
    BY <1>6, CoveredIs
  <2>2. \A a \in Nat : Has(<<r>>, a) <=> a < size
    BY <1>4, <1>6 DEF In
  <2>3. {a \in Nat : Has(<<r>>, a)} = {a \in Nat : a < size}
    BY <2>2, Zenon
  <2>4. {a \in Nat : a < size} = 0 .. size - 1
    OBVIOUS
  <2> QED
    BY <2>1, <2>3, <2>4
<1>10. Cardinality(0 .. size - 1) = size
  <2>1. PICK z \in Int : z = size - 1
    OBVIOUS
  <2>2. 0 \in Int /\ Cardinality(0 .. z) = IF 0 > z THEN 0 ELSE z - 0 + 1
    BY <2>1, FS_Interval
  <2> QED
    BY <1>2, <2>1, <2>2
<1>11. Kept'
  <2>1. reserved'.regions = <<r>> /\ reserved'.total_size = size
    BY <1>5
  <2> QED
    BY <2>1, <1>6, <1>7, <1>8, <1>9, <1>10 DEF Kept
<1>12. PeakFits'
  BY <1>1, <1>5, <1>6 DEF PeakFits, Upper
<1> QED
  BY <1>5, <1>11, <1>12

-----------------------------------------------------------------------------
(* memblock_find_in_range()                                                *)

Regs == reserved.regions

(* The gaps between the regions.                                           *)
LEMMA GapIs ==
  ASSUME Kept, NEW g \in 0 .. Len(Regs)
  PROVE  /\ GapStart(g) \in Nat /\ GapEnd(g) \in Nat
         /\ \A h \in 0 .. Len(Regs) :
              g < h => GapEnd(g) <= GapStart(h) /\ GapStart(g) <= GapStart(h)
         /\ \A x \in Nat : GapStart(g) <= x /\ x < GapEnd(g) => x \notin asked
         /\ GapEnd(g) \in asked \/ GapEnd(g) = PhysMax
<1>1. PICK s : s = Regs
  OBVIOUS
<1>2. Apart(s) /\ s \in Seq(Regions) /\ PhysMax \in Nat \ {0}
  BY <1>1, MemblockAssumption DEF Kept, Regs, Apart, Proper
<1>3. PICK n \in Nat : n = Len(s) /\ g \in 0 .. n
  BY <1>1, <1>2
<1>4. \A i \in 1 .. n : s[i].base \in Nat /\ s[i].size \in Nat /\ s[i].size > 0
  <2>1. \A i \in 1 .. Len(s) : s[i].base \in Nat /\ s[i].size \in Nat
    BY <1>2, RegionIs
  <2>2. \A i \in 1 .. Len(s) : s[i].size > 0
    BY <1>2 DEF Apart, Proper
  <2> QED
    BY <1>3, <2>1, <2>2
<1>5. \A i, j \in 1 .. n : i < j => s[i].base + s[i].size < s[j].base
  BY <1>2, <1>3 DEF Apart
<1>6. asked = {a \in Nat : Has(s, a)}
  BY <1>1, <1>2, CoveredIs DEF Kept, Regs
<1>7. \A h \in 0 .. n : /\ GapStart(h) = IF h = 0 THEN 0 ELSE s[h].base + s[h].size
                        /\ GapEnd(h) = IF h < n THEN s[h + 1].base ELSE PhysMax
  BY <1>1, <1>3 DEF GapStart, GapEnd, End, Regs
<1>8. \A h \in 0 .. n : (h = 0 \/ h \in 1 .. n) /\ (h < n => h + 1 \in 1 .. n)
  OBVIOUS
<1>9. \A h \in 0 .. n : GapStart(h) \in Nat /\ GapEnd(h) \in Nat
  <2> TAKE h \in 0 .. n
  <2>1. h # 0 => s[h].base + s[h].size \in Nat
    BY <1>4, <1>8
  <2>2. h < n => s[h + 1].base \in Nat
    BY <1>4, <1>8
  <2> QED
    BY <1>2, <1>7, <2>1, <2>2
<1>10. ASSUME NEW h \in 0 .. n, g < h
       PROVE  GapEnd(g) <= GapStart(h) /\ GapStart(g) <= GapStart(h)
  <2>1. g < n /\ g + 1 \in 1 .. n /\ h \in 1 .. n /\ h # 0 /\ (g + 1 = h \/ g + 1 < h)
    BY <1>3, <1>10
  <2>2. PICK eb \in Nat, ez \in Nat : eb = s[g + 1].base /\ ez = s[g + 1].size
    BY <1>4, <2>1
  <2>3. PICK hb \in Nat, hz \in Nat : hb = s[h].base /\ hz = s[h].size
    BY <1>4, <2>1
  <2>4. GapEnd(g) = eb /\ GapStart(h) = hb + hz
    BY <1>3, <1>7, <2>1, <2>2, <2>3
  <2>5. eb <= hb
    <3>1. CASE g + 1 = h
      BY <2>2, <2>3, <3>1
    <3>2. CASE g + 1 < h
      <4>1. eb + ez < hb
        BY <1>5, <2>1, <2>2, <2>3, <3>2
      <4> QED
        BY <4>1
    <3> QED
      BY <2>1, <3>1, <3>2
  <2>6. GapStart(g) <= eb
    <3>1. CASE g = 0
      BY <1>3, <1>7, <3>1
    <3>2. CASE g # 0
      <4>1. g \in 1 .. n /\ g < g + 1
        BY <1>3, <3>2
      <4>2. s[g].base + s[g].size < s[g + 1].base
        BY <1>5, <2>1, <4>1
      <4>3. GapStart(g) = s[g].base + s[g].size /\ GapStart(g) \in Nat
        BY <1>3, <1>7, <1>9, <3>2
      <4> QED
        BY <2>2, <4>2, <4>3
    <3> QED
      BY <3>1, <3>2
  <2>7. GapStart(g) \in Nat
    BY <1>3, <1>9
  <2> QED
    BY <2>4, <2>5, <2>6, <2>7
<1>11. ASSUME NEW x \in Nat, GapStart(g) <= x, x < GapEnd(g) PROVE ~ Has(s, x)
  <2> SUFFICES ASSUME NEW i \in 1 .. n, In(s[i], x) PROVE FALSE
    BY <1>3 DEF Has
  <2>1. PICK ib \in Nat, iz \in Nat : ib = s[i].base /\ iz = s[i].size
    BY <1>4
  <2>2. ib <= x /\ x < ib + iz
    BY <2>1 DEF In
  <2>3. CASE i <= g
    <3>1. g \in 1 .. n /\ g # 0 /\ (i = g \/ i < g)
      BY <1>3, <2>3
    <3>2. PICK gb \in Nat, gz \in Nat : gb = s[g].base /\ gz = s[g].size
      BY <1>4, <3>1
    <3>3. gb + gz <= x
      BY <1>3, <1>7, <1>11, <3>1, <3>2
    <3>4. i < g => ib + iz < gb
      BY <1>5, <2>1, <3>1, <3>2
    <3>5. ib + iz <= gb + gz
      <4>1. CASE i = g
        BY <2>1, <3>2, <4>1
      <4>2. CASE i < g
        BY <3>4, <4>2
      <4> QED
        BY <3>1, <4>1, <4>2
    <3> QED
      BY <2>2, <3>3, <3>5
  <2>4. CASE ~ (i <= g)
    <3>1. g < n /\ g + 1 \in 1 .. n /\ (i = g + 1 \/ g + 1 < i)
      BY <1>3, <2>4
    <3>2. PICK gb \in Nat, gz \in Nat : gb = s[g + 1].base /\ gz = s[g + 1].size
      BY <1>4, <3>1
    <3>3. x < gb
      BY <1>3, <1>7, <1>11, <3>1, <3>2
    <3>4. g + 1 < i => gb + gz < ib
      BY <1>5, <2>1, <3>1, <3>2
    <3>5. gb <= ib
      <4>1. CASE i = g + 1
        BY <2>1, <3>2, <4>1
      <4>2. CASE g + 1 < i
        BY <3>4, <4>2
      <4> QED
        BY <3>1, <4>1, <4>2
    <3> QED
      BY <2>2, <3>3, <3>5
  <2> QED
    BY <2>3, <2>4
<1>12. GapEnd(g) \in asked \/ GapEnd(g) = PhysMax
  <2>1. CASE g < n
    <3>1. g + 1 \in 1 .. n /\ GapEnd(g) = s[g + 1].base
      BY <1>3, <1>7, <1>8, <2>1
    <3>2. PICK eb \in Nat, ez \in Nat : eb = s[g + 1].base /\ ez = s[g + 1].size /\ ez > 0
      BY <1>4, <3>1
    <3>3. In(s[g + 1], eb)
      BY <3>2 DEF In
    <3>4. Has(s, eb)
      BY <1>3, <3>1, <3>3 DEF Has
    <3> QED
      BY <1>6, <3>1, <3>2, <3>4
  <2>2. CASE ~ (g < n)
    BY <1>3, <1>7, <2>2
  <2> QED
    BY <2>1, <2>2
<1> QED
  BY <1>1, <1>3, <1>6, <1>9, <1>10, <1>11, <1>12

(* An address that is not reserved is in a gap.                            *)
LEMMA GapOf ==
  ASSUME Kept, NEW x \in Nat, x < PhysMax, x \notin asked
  PROVE  \E g \in 0 .. Len(Regs) : GapStart(g) <= x /\ x < GapEnd(g)
<1>1. PICK s : s = Regs
  OBVIOUS
<1>2. Apart(s) /\ s \in Seq(Regions) /\ PhysMax \in Nat \ {0}
  BY <1>1, MemblockAssumption DEF Kept, Regs, Apart, Proper
<1>3. PICK n \in Nat : n = Len(s)
  BY <1>2
<1>4. ~ Has(s, x)
  BY <1>1, <1>2, CoveredIs DEF Kept, Regs
<1>5. \A h \in 0 .. n : /\ GapStart(h) = IF h = 0 THEN 0 ELSE s[h].base + s[h].size
                        /\ GapEnd(h) = IF h < n THEN s[h + 1].base ELSE PhysMax
  BY <1>1, <1>3 DEF GapStart, GapEnd, End, Regs
<1> DEFINE T == {g \in Nat : g <= n /\ x < GapEnd(g)}
<1>6. n \in T /\ T \subseteq Nat
  BY <1>3, <1>5
<1>7. PICK g \in T : \A h \in T : g <= h
  BY <1>6, LeastElement
<1>8. g \in 0 .. n /\ x < GapEnd(g)
  BY <1>7
<1>9. GapStart(g) <= x
  <2>1. CASE g = 0
    BY <1>5, <1>8, <2>1
  <2>2. CASE g # 0
    <3>1. PICK h \in Nat : g = h + 1
      <4>1. g - 1 \in Nat /\ g = (g - 1) + 1
        BY <1>8, <2>2
      <4> QED
        BY <4>1
    <3>2. h \in 0 .. n /\ h < n /\ ~ (g <= h) /\ g \in 1 .. n
      BY <1>8, <3>1
    <3>3. ~ (x < GapEnd(h))
      BY <1>7, <3>2
    <3>4. PICK gb \in Nat, gz \in Nat : gb = s[g].base /\ gz = s[g].size
      BY <1>2, <1>3, <3>2, RegionIs
    <3>5. GapEnd(h) = gb
      BY <1>5, <3>1, <3>2, <3>4
    <3>6. ~ In(s[g], x)
      BY <1>3, <1>4, <3>2 DEF Has
    <3>7. gb + gz <= x
      BY <3>3, <3>4, <3>5, <3>6 DEF In
    <3> QED
      BY <1>5, <1>8, <2>2, <3>4, <3>7
  <2> QED
    BY <2>1, <2>2
<1> QED
  BY <1>1, <1>3, <1>8, <1>9

(* A gap of the memory; where the iterator stands after it.                *)
Usable(g) == GapStart(g) < PhysMax /\ 0 < GapEnd(g)
AtGap(g, i, r) ==
  /\ g \in 0 .. Len(Regs) /\ Usable(g)
  /\ r[1] = GapStart(g) /\ r[2] = Lower(PhysMax, GapEnd(g))
  /\ i = IF PhysMax <= GapEnd(g) THEN <<1, g>> ELSE <<0, g + 1>>

(* __next_mem_range() goes to the next gap, or leaves all as it is.        *)
LEMMA NextIs ==
  ASSUME Kept, NEW b \in Nat, NEW i, NEW r, NextAt(0, b, i, r)
  PROVE  \/ /\ idx' = i /\ range' = r
            /\ \A g \in 0 .. Len(Regs) : b <= g => ~ Usable(g)
         \/ \E g \in 0 .. Len(Regs) :
              /\ AtGap(g, idx', range')
              /\ \A h \in 0 .. Len(Regs) : b <= h /\ Usable(h) => g <= h
<1>1. PICK n \in Nat : n = Len(Regs)
  BY DEF Kept, Regs, Apart, Proper
<1>2. PhysMax \in Nat \ {0}
  BY MemblockAssumption
<1>3. PICK m : m = Memory[0 + 1]
  OBVIOUS
<1>4. m.base = 0 /\ End(m) = PhysMax
  <2>1. 0 + 1 = 1 /\ Memory[1] = Region(0, PhysMax)
    BY DEF Memory
  <2>2. m.base = 0 /\ m.size = PhysMax
    BY <1>2, <1>3, <2>1, RegionOf
  <2> QED
    BY <1>2, <2>2 DEF End
<1>5. ~ (0 >= Len(Memory))
  BY DEF Memory
<1>6. PICK G : G = {g \in b .. Len(Regs) : GapStart(g) < End(m) /\ m.base < GapEnd(g)}
  OBVIOUS
<1>7. PICK c : c = CHOOSE x \in G : \A y \in G : x <= y
  OBVIOUS
<1>8. IF G = {} THEN idx' = i /\ range' = r
      ELSE /\ range' = <<Upper(m.base, GapStart(c)), Lower(End(m), GapEnd(c))>>
           /\ idx' = IF End(m) <= GapEnd(c) THEN <<0 + 1, c>> ELSE <<0, c + 1>>
  BY <1>3, <1>5, <1>6, <1>7, Zenon DEF NextAt, Regs
<1>9. \A g : g \in G <=> g \in b .. n /\ Usable(g)
  BY <1>1, <1>4, <1>6 DEF Usable
<1>10. CASE G = {}
  <2>1. \A g \in 0 .. n : b <= g => ~ Usable(g)
    BY <1>9, <1>10
  <2> QED
    BY <1>1, <1>8, <1>10, <2>1
<1>11. CASE G # {}
  <2>1. G \subseteq Nat
    BY <1>9
  <2>2. \E x \in G : \A y \in G : x <= y
    BY <1>11, <2>1, LeastElement
  <2>3. c \in G /\ \A y \in G : c <= y
    BY <1>7, <2>2, Zenon
  <2>4. c \in 0 .. n /\ Usable(c)
    BY <1>9, <2>3
  <2>5. GapStart(c) \in Nat
    BY <1>1, <2>4, GapIs
  <2>6. range' = <<Upper(0, GapStart(c)), Lower(PhysMax, GapEnd(c))>>
    BY <1>4, <1>8, <1>11
  <2>7. range'[1] = GapStart(c) /\ range'[2] = Lower(PhysMax, GapEnd(c))
    <3>1. Upper(0, GapStart(c)) = GapStart(c)
      BY <2>5 DEF Upper
    <3> QED
      BY <2>6, <3>1
  <2>8. idx' = IF PhysMax <= GapEnd(c) THEN <<1, c>> ELSE <<0, c + 1>>
    BY <1>4, <1>8, <1>11
  <2>9. AtGap(c, idx', range')
    BY <1>1, <2>4, <2>7, <2>8 DEF AtGap
  <2>10. \A h \in 0 .. n : b <= h /\ Usable(h) => c <= h
    BY <1>9, <2>3
  <2> QED
    BY <1>1, <2>4, <2>9, <2>10
<1> QED
  BY <1>10, <1>11

(* The request and the range looked at: no hole lies below the range.      *)
RequestFits ==
  /\ req.size \in Nat \ {0} /\ req.align \in Nat \ {0}
  /\ req.start \in Nat /\ req.end = PhysMax /\ req.start <= PhysMax
Above(x, q) == \A a \in Holes(q) : x <= a
SearchInv ==
  stage = "find" =>
    RequestFits /\ \E g \in 0 .. Len(Regs) : AtGap(g, idx, range) /\ Above(range[1], req)

(* A hole of a request: free addresses of the memory.                      *)
HoleOf(q, a) ==
  /\ a \in Nat /\ q.start <= a /\ a < PhysMax /\ a % q.align = 0 /\ a + q.size <= PhysMax
  /\ \A x \in Nat : a <= x /\ x < a + q.size => x \notin asked
LEMMA HoleIs ==
  ASSUME NEW q, q.size \in Nat \ {0}, q.start \in Nat, q.end = PhysMax, NEW a
  PROVE  a \in Holes(q) <=> HoleOf(q, a)
<1>1. PhysMax \in Nat \ {0}
  BY MemblockAssumption
<1>2. PICK c \in Nat, st \in Nat : c = q.size /\ c > 0 /\ st = q.start
  OBVIOUS
<1>3. a \in st .. PhysMax - 1 <=> a \in Nat /\ st <= a /\ a < PhysMax
  BY <1>1, <1>2
<1>4. ASSUME a \in Nat
      PROVE  Span(a, c) \cap asked = {} <=> \A x \in Nat : a <= x /\ x < a + c => x \notin asked
  <2>1. \A x : x \in Span(a, c) <=> x \in Nat /\ a <= x /\ x < a + c
    BY <1>2, <1>4 DEF Span
  <2> QED
    BY <2>1
<1>5. a \in Holes(q) <=> /\ a \in st .. PhysMax - 1
                              /\ a % q.align = 0 /\ a + c <= PhysMax /\ Span(a, c) \cap asked = {}
  BY <1>2 DEF Holes
<1>6. HoleOf(q, a) <=> /\ a \in Nat /\ st <= a /\ a < PhysMax
                       /\ a % q.align = 0 /\ a + c <= PhysMax
                       /\ \A x \in Nat : a <= x /\ x < a + c => x \notin asked
  BY <1>2 DEF HoleOf
<1> QED
  BY <1>3, <1>4, <1>5, <1>6

(* The gap that a hole is in, and that it is all in.                       *)
LEMMA HoleGap ==
  ASSUME Kept, NEW q, q.size \in Nat \ {0}, NEW a, HoleOf(q, a)
  PROVE  \E g \in 0 .. Len(Regs) :
           /\ Usable(g) /\ GapStart(g) <= a /\ a < GapEnd(g)
           /\ a + q.size <= Lower(PhysMax, GapEnd(g))
<1>1. PhysMax \in Nat \ {0}
  BY MemblockAssumption
<1>2. PICK c \in Nat : c = q.size /\ c > 0
  OBVIOUS
<1>3. /\ a \in Nat /\ a < PhysMax /\ a + c <= PhysMax
      /\ \A x \in Nat : a <= x /\ x < a + c => x \notin asked
  BY <1>2 DEF HoleOf
<1>4. a \notin asked
  BY <1>2, <1>3
<1>5. PICK g \in 0 .. Len(Regs) : GapStart(g) <= a /\ a < GapEnd(g)
  BY <1>3, <1>4, GapOf
<1>6. /\ GapStart(g) \in Nat /\ GapEnd(g) \in Nat
      /\ GapEnd(g) \in asked \/ GapEnd(g) = PhysMax
  BY <1>5, GapIs
<1>7. PICK gs \in Nat, ge \in Nat : gs = GapStart(g) /\ ge = GapEnd(g)
  BY <1>6
<1>8. a + c <= ge
  <2>1. CASE ge = PhysMax
    BY <1>3, <2>1
  <2>2. CASE ge \in asked
    <3>1. ~ (a <= ge /\ ge < a + c)
      BY <1>3, <2>2
    <3> QED
      BY <1>3, <1>5, <1>7, <3>1
  <2> QED
    BY <1>6, <1>7, <2>1, <2>2
<1>9. a + c <= Lower(PhysMax, ge)
  BY <1>1, <1>3, <1>8 DEF Lower
<1>10. Usable(g)
  BY <1>1, <1>3, <1>5, <1>7 DEF Usable
<1> QED
  BY <1>2, <1>5, <1>7, <1>9, <1>10

(* The candidate of a range of the memory: it is at or above the start of  *)
(* the gap and of the window, and the lowest such multiple.                *)
LEMMA CandidateIs ==
  ASSUME Kept, RequestFits, NEW g, AtGap(g, idx, range)
  PROVE  /\ Candidate \in Nat /\ Candidate % req.align = 0
         /\ GapStart(g) <= Candidate /\ req.start <= Candidate
         /\ \A a \in Nat : a % req.align = 0 /\ GapStart(g) <= a /\ req.start <= a => Candidate <= a
         /\ ThisEnd \in Nat /\ ThisEnd <= PhysMax /\ Lower(PhysMax, GapEnd(g)) <= ThisEnd
         /\ ThisEnd = Lower(PhysMax, GapEnd(g)) \/ ThisEnd <= req.start
<1>1. PICK pm \in Nat, st \in Nat : pm = PhysMax /\ st = req.start /\ st <= pm /\ req.end = pm
  BY MemblockAssumption DEF RequestFits
<1>2. g \in 0 .. Len(Regs) /\ Usable(g)
  BY DEF AtGap
<1>3. PICK gs \in Nat, ge \in Nat : gs = GapStart(g) /\ ge = GapEnd(g) /\ gs < pm
  <2>1. GapStart(g) \in Nat /\ GapEnd(g) \in Nat
    BY <1>2, GapIs
  <2> QED
    BY <1>1, <1>2, <2>1 DEF Usable
<1>4. PICK r2 \in Nat : r2 = Lower(pm, ge) /\ r2 <= pm
  BY DEF Lower
<1>5. range[1] = gs /\ range[2] = r2
  BY <1>1, <1>3, <1>4 DEF AtGap
<1>6. PICK lo \in Nat : lo = Clamp(gs, st, pm) /\ gs <= lo /\ st <= lo /\ (lo = gs \/ lo = st)
  BY <1>1, <1>3 DEF Clamp, Lower, Upper
<1>7. PICK hi \in Nat : hi = Clamp(r2, st, pm) /\ hi <= pm /\ r2 <= hi /\ (hi = r2 \/ hi <= st)
  BY <1>1, <1>4 DEF Clamp, Lower, Upper
<1>8. ThisEnd = hi
  BY <1>1, <1>5, <1>7 DEF ThisEnd
<1>9. PICK al \in Nat \ {0} : al = req.align
  BY DEF RequestFits
<1>10. Candidate = ALIGN(lo, al)
  BY <1>1, <1>5, <1>6, <1>9 DEF Candidate
<1>11. /\ ALIGN(lo, al) \in Nat /\ lo <= ALIGN(lo, al)
       /\ ALIGN(lo, al) % al = 0
       /\ \A m \in Nat : m % al = 0 /\ lo <= m => ALIGN(lo, al) <= m
  BY AlignIs
<1>12. PICK ca \in Nat : ca = Candidate /\ ca = ALIGN(lo, al)
  BY <1>10, <1>11
<1>13. /\ gs <= ca /\ st <= ca /\ ca % al = 0
       /\ \A a \in Nat : a % al = 0 /\ gs <= a /\ st <= a => ca <= a
  <2>1. gs <= ca /\ st <= ca /\ ca % al = 0
    BY <1>6, <1>11, <1>12
  <2>2. \A a \in Nat : gs <= a /\ st <= a => lo <= a
    BY <1>6
  <2> QED
    BY <1>11, <1>12, <2>1, <2>2
<1>14. ThisEnd \in Nat /\ ThisEnd <= pm /\ r2 <= ThisEnd /\ (ThisEnd = r2 \/ ThisEnd <= st)
  BY <1>7, <1>8
<1>15. r2 = Lower(PhysMax, GapEnd(g))
  BY <1>1, <1>3, <1>4
<1> QED
  BY <1>1, <1>3, <1>9, <1>12, <1>13, <1>14, <1>15

(* The candidate that fits is the lowest hole.                             *)
LEMMA FitsIsFresh ==
  ASSUME Kept, RequestFits, NEW g, AtGap(g, idx, range), Above(range[1], req), Fits
  PROVE  Candidate \in Holes(req) /\ \A a \in Holes(req) : Candidate <= a
<1>1. PICK pm \in Nat, st \in Nat, sz \in Nat : pm = PhysMax /\ st = req.start /\ sz = req.size /\ sz > 0
  BY MemblockAssumption DEF RequestFits
<1>2. g \in 0 .. Len(Regs) /\ range[1] = GapStart(g)
  BY DEF AtGap
<1>3. PICK gs \in Nat, ge \in Nat : gs = GapStart(g) /\ ge = GapEnd(g)
  BY <1>2, GapIs
<1>4. \A x \in Nat : gs <= x /\ x < ge => x \notin asked
  BY <1>2, <1>3, GapIs
<1>5. PICK r2 \in Nat : r2 = Lower(pm, ge) /\ r2 <= ge
  BY DEF Lower
<1>6. PICK ca \in Nat, te \in Nat : ca = Candidate /\ te = ThisEnd
  BY CandidateIs
<1>7. /\ ca % req.align = 0 /\ gs <= ca /\ st <= ca
      /\ \A a \in Nat : a % req.align = 0 /\ gs <= a /\ st <= a => ca <= a
      /\ te <= pm /\ (te = r2 \/ te <= st)
  BY <1>1, <1>3, <1>5, <1>6, CandidateIs
<1>8. ca < te /\ te - ca >= sz
  BY <1>1, <1>6 DEF Fits
<1>9. te = r2 /\ ca + sz <= te /\ ca < pm /\ ca + sz <= pm
  BY <1>7, <1>8
<1>10. ASSUME NEW x \in Nat, ca <= x, x < ca + sz PROVE x \notin asked
  <2>1. gs <= x /\ x < ge
    BY <1>5, <1>7, <1>9, <1>10
  <2> QED
    BY <1>4, <2>1
<1>11. HoleOf(req, ca)
  BY <1>1, <1>7, <1>9, <1>10 DEF HoleOf
<1>12. ASSUME NEW a \in Holes(req) PROVE ca <= a
  <2>1. HoleOf(req, a)
    BY HoleIs DEF RequestFits
  <2>2. a \in Nat /\ st <= a /\ a % req.align = 0
    BY <1>1, <2>1 DEF HoleOf
  <2>3. gs <= a
    BY <1>2, <1>3 DEF Above
  <2> QED
    BY <1>7, <2>2, <2>3
<1>13. ca \in Holes(req)
  BY <1>11, HoleIs DEF RequestFits
<1> QED
  BY <1>6, <1>12, <1>13

(* A gap from which on all holes are: its start is below them.             *)
LEMMA GapsAbove ==
  ASSUME Kept, NEW q, q.size \in Nat \ {0}, q.start \in Nat, q.end = PhysMax,
         NEW g \in 0 .. Len(Regs), NEW b \in Nat,
         \A h \in 0 .. Len(Regs) : b <= h /\ Usable(h) => g <= h,
         \A a \in Nat, h \in 0 .. Len(Regs) :
           HoleOf(q, a) /\ GapStart(h) <= a
             /\ a + q.size <= Lower(PhysMax, GapEnd(h)) => b <= h
  PROVE  Above(GapStart(g), q)
<1> SUFFICES ASSUME NEW a \in Holes(q) PROVE GapStart(g) <= a
  BY DEF Above
<1>1. HoleOf(q, a) /\ a \in Nat
  BY HoleIs DEF HoleOf
<1>2. PICK h \in 0 .. Len(Regs) :
        /\ Usable(h) /\ GapStart(h) <= a /\ a < GapEnd(h)
        /\ a + q.size <= Lower(PhysMax, GapEnd(h))
  BY <1>1, HoleGap
<1>3. g <= h
  BY <1>1, <1>2
<1>4. PICK x \in Nat, y \in Nat : x = GapStart(g) /\ y = GapStart(h)
  BY <1>2, GapIs
<1>5. CASE g = h
  BY <1>2, <1>5
<1>6. CASE g < h
  <2>1. x <= y
    BY <1>4, <1>6, GapIs
  <2> QED
    BY <1>1, <1>2, <1>4, <2>1
<1> QED
  BY <1>3, <1>5, <1>6

(* The search of an address while nothing is reserved.                     *)
LEMMA SearchSame ==
  ASSUME reserved' = reserved, asked' = asked, RequestFits',
         NEW g \in 0 .. Len(Regs), AtGap(g, idx', range'), Above(range'[1], req')
  PROVE  SearchInv'
<1>1. Regs' = Regs /\ GapStart(g)' = GapStart(g) /\ GapEnd(g)' = GapEnd(g)
  BY DEF Regs, GapStart, GapEnd
<1>2. AtGap(g, idx, range)'
  BY <1>1 DEF AtGap, Usable
<1>3. Above(range[1], req)'
  BY DEF Above, Holes
<1> QED
  BY <1>1, <1>2, <1>3 DEF SearchInv

(* memblock_phys_alloc_range(): there is memory left, so there is a first  *)
(* gap.                                                                    *)
LEMMA SearchStarts ==
  ASSUME Kept, CallPhysAlloc
  PROVE  SearchInv'
<1>1. PhysMax \in Nat \ {0} /\ Sizes \subseteq Nat /\ Aligns \subseteq Nat \ {0}
  BY MemblockAssumption
<1>2. PICK size \in Sizes \ {0}, align \in Aligns, start \in {0, PhysMax \div 2} :
        req' = [size |-> size, align |-> align, start |-> start, end |-> PhysMax]
  BY DEF CallPhysAlloc
<1>3. PICK q : q = req'
  OBVIOUS
<1>4. q.size \in Nat \ {0} /\ q.align \in Nat \ {0} /\ q.start \in Nat /\ q.end = PhysMax /\ q.start <= PhysMax
  <2>1. start \in Nat /\ start <= PhysMax
    BY <1>1
  <2> QED
    BY <1>1, <1>2, <1>3, <2>1
<1>5. RequestFits'
  BY <1>3, <1>4 DEF RequestFits
<1>6. reserved' = reserved /\ asked' = asked
  BY DEF CallPhysAlloc
<1>7. PICK x \in Nat : x < PhysMax /\ x \notin asked
  <2>1. ~ (0 .. PhysMax - 1 \subseteq asked)
    BY DEF CallPhysAlloc, Kept
  <2>2. PICK x \in 0 .. PhysMax - 1 : x \notin asked
    BY <2>1
  <2>3. x \in Nat /\ x < PhysMax
    BY <1>1
  <2> QED
    BY <2>2, <2>3
<1>8. PICK g0 \in 0 .. Len(Regs) : GapStart(g0) <= x /\ x < GapEnd(g0)
  BY <1>7, GapOf
<1>9. Usable(g0) /\ 0 <= g0
  <2>1. GapStart(g0) \in Nat /\ GapEnd(g0) \in Nat
    BY <1>8, GapIs
  <2> QED
    BY <1>1, <1>7, <1>8, <2>1 DEF Usable
<1>10. NextAt(0, 0, <<0, 0>>, range)
  BY DEF CallPhysAlloc, NextMemRange
<1>11. PICK g \in 0 .. Len(Regs) :
         /\ AtGap(g, idx', range')
         /\ \A h \in 0 .. Len(Regs) : 0 <= h /\ Usable(h) => g <= h
  BY <1>8, <1>9, <1>10, NextIs
<1>12. \A h \in 0 .. Len(Regs) : 0 <= h
  OBVIOUS
<1>13. Above(GapStart(g), q)
  BY <1>4, <1>11, <1>12, GapsAbove
<1>14. Above(range'[1], req')
  BY <1>3, <1>11, <1>13 DEF AtGap
<1> QED
  BY <1>5, <1>6, <1>11, <1>14, SearchSame

(* The next range: what does not fit leaves no hole behind.                *)
LEMMA SearchGoesOn ==
  ASSUME Kept, SearchInv, FindNext
  PROVE  SearchInv'
<1>1. /\ stage = "find" /\ ~ Fits /\ reserved' = reserved /\ asked' = asked /\ req' = req
      /\ NextMemRange(idx, range)
  BY DEF FindNext
<1>2. RequestFits /\ RequestFits'
  BY <1>1 DEF SearchInv, RequestFits
<1>3. PICK g \in 0 .. Len(Regs) : AtGap(g, idx, range) /\ Above(range[1], req)
  BY <1>1 DEF SearchInv
<1>4. NextAt(idx[1], idx[2], idx, range)
  BY <1>1 DEF NextMemRange
<1>5. CASE idx' = idx /\ range' = range
  <2>1. AtGap(g, idx', range') /\ Above(range'[1], req')
    BY <1>1, <1>3, <1>5
  <2> QED
    BY <1>1, <1>2, <1>3, <2>1, SearchSame
<1>6. CASE PhysMax <= GapEnd(g)
  <2>1. idx[1] = 1
    BY <1>3, <1>6 DEF AtGap
  <2>2. 1 >= Len(Memory)
    BY DEF Memory
  <2>3. idx' = idx /\ range' = range
    BY <1>4, <2>1, <2>2 DEF NextAt
  <2> QED
    BY <1>5, <2>3
<1>7. CASE ~ (PhysMax <= GapEnd(g))
  <2>1. idx[1] = 0 /\ idx[2] = g + 1
    BY <1>3, <1>7 DEF AtGap
  <2>2. PICK b \in Nat : b = g + 1
    OBVIOUS
  <2>3. NextAt(0, b, idx, range)
    BY <1>4, <2>1, <2>2
  <2>4. CASE ~ (idx' = idx /\ range' = range)
    <3>1. PICK g2 \in 0 .. Len(Regs) :
            /\ AtGap(g2, idx', range')
            /\ \A h \in 0 .. Len(Regs) : b <= h /\ Usable(h) => g2 <= h
      BY <2>3, <2>4, NextIs
    <3>2. PICK sz \in Nat, st \in Nat, pm \in Nat :
            sz = req.size /\ sz > 0 /\ st = req.start /\ pm = PhysMax /\ req.end = pm
      BY <1>2, MemblockAssumption DEF RequestFits
    <3>3. ASSUME NEW a \in Nat, NEW h \in 0 .. Len(Regs), HoleOf(req, a), GapStart(h) <= a,
                 a + req.size <= Lower(PhysMax, GapEnd(h))
          PROVE  b <= h
      <4>1. PICK gs \in Nat, he \in Nat : gs = GapStart(g) /\ he = GapEnd(h)
        BY <1>3, <3>3, GapIs
      <4>2. a + sz <= he
        <5>1. Lower(pm, he) <= he
          BY DEF Lower
        <5>2. Lower(pm, he) \in Nat
          BY DEF Lower
        <5> QED
          BY <3>2, <3>3, <4>1, <5>1, <5>2
      <4>3. gs <= a
        <5>1. a \in Holes(req)
          BY <1>2, <3>3, HoleIs DEF RequestFits
        <5> QED
          BY <1>3, <4>1, <5>1 DEF Above, AtGap
      <4>4. ~ (h < g)
        <5> SUFFICES ASSUME h < g PROVE FALSE
          OBVIOUS
        <5>1. he <= gs
          BY <1>3, <3>3, <4>1, GapIs
        <5> QED
          BY <3>2, <4>2, <4>3, <5>1
      <4>5. h # g
        <5> SUFFICES ASSUME h = g PROVE FALSE
          OBVIOUS
        <5>1. PICK ca \in Nat, te \in Nat : ca = Candidate /\ te = ThisEnd
          BY <1>2, <1>3, CandidateIs
        <5>2. st <= a /\ a % req.align = 0
          BY <3>2, <3>3 DEF HoleOf
        <5>3. ca <= a
          BY <1>2, <1>3, <3>2, <4>1, <4>3, <5>1, <5>2, CandidateIs
        <5>4. Lower(PhysMax, GapEnd(g)) <= te
          BY <1>2, <1>3, <5>1, CandidateIs
        <5>5. Lower(PhysMax, GapEnd(g)) \in Nat
          BY <3>2, <4>1 DEF Lower
        <5>6. a + sz <= te
          BY <3>2, <3>3, <5>4, <5>5
        <5>7. ca < te /\ te - ca >= sz
          BY <3>2, <5>3, <5>6
        <5> QED
          BY <1>1, <3>2, <5>1, <5>7 DEF Fits
      <4> QED
        BY <2>2, <4>4, <4>5
    <3>4. Above(GapStart(g2), req)
      <4>1. \A a \in Nat, h \in 0 .. Len(Regs) :
              HoleOf(req, a) /\ GapStart(h) <= a
                /\ a + req.size <= Lower(PhysMax, GapEnd(h)) => b <= h
        BY <3>3
      <4>2. req.size \in Nat \ {0} /\ req.start \in Nat /\ req.end = PhysMax
        BY <1>2 DEF RequestFits
      <4> QED
        BY <3>1, <4>1, <4>2, GapsAbove
    <3>5. Above(range'[1], req')
      BY <1>1, <3>1, <3>4 DEF AtGap
    <3> QED
      BY <1>1, <1>2, <3>1, <3>5, SearchSame
  <2> QED
    BY <1>5, <2>4
<1> QED
  BY <1>6, <1>7

-----------------------------------------------------------------------------
(* The specification                                                       *)

BootInv == ReservedInv /\ SearchInv

(* The archive has a size.                                                 *)
LEMMA ArchiveIs ==
  ASSUME NEW files \in Archives
  PROVE  ArchiveSize(files) \in Nat /\ ALIGN(ArchiveSize(files), Word) \in Nat
<1>1. Word \in Nat \ {0} /\ HeaderSize \in Nat /\ files \in Seq(Nat)
  BY MemblockAssumption
<1>2. \A i \in 1 .. Len(files) : HeaderSize + ALIGN(files[i], Word) \in Nat
  <2> TAKE i \in 1 .. Len(files)
  <2>1. files[i] \in Nat
    BY <1>1
  <2>2. ALIGN(files[i], Word) \in Nat
    BY <1>1, <2>1, AlignIs
  <2> QED
    BY <1>1, <2>2
<1>3. [i \in DOMAIN files |-> HeaderSize + ALIGN(files[i], Word)] \in Seq(Nat)
  <2>1. PICK n \in Nat : n = Len(files) /\ DOMAIN files = 1 .. n
    BY <1>1
  <2>2. [i \in 1 .. n |-> HeaderSize + ALIGN(files[i], Word)] \in Seq(Nat)
    BY <1>2, <2>1
  <2> QED
    BY <2>1, <2>2
<1>4. SumSeq([i \in DOMAIN files |-> HeaderSize + ALIGN(files[i], Word)]) \in Nat
  BY <1>3, SumIs
<1>5. ArchiveSize(files) \in Nat
  BY <1>1, <1>4 DEF ArchiveSize
<1> QED
  BY <1>1, <1>5, AlignIs

(* The invariant holds when the boot starts.                               *)
LEMMA BootInvInit ==
  ASSUME BootInit
  PROVE  BootInv
<1>1. MaxRegions \in Nat \ {0}
  BY MemblockAssumption
<1>2. stage = "kernel" /\ stage # "find" /\ peak = 1 /\ asked = {}
  BY DEF BootInit
<1>3. reserved.regions = <<Region(0, 0)>> /\ reserved.total_size = 0
  BY DEF BootInit
<1> QED
  BY <1>1, <1>2, <1>3 DEF BootInv, ReservedInv, SearchInv, PeakFits, Untouched

(* A range reserved by a caller keeps it.                                  *)
LEMMA ReserveStep ==
  ASSUME BootInv, stage # "kernel", NEW base \in Nat, NEW size \in Nat,
         NEW next, next \notin {"kernel", "find"}, Reserve(base, size, next)
  PROVE  BootInv'
<1>1. Kept /\ PeakFits
  BY DEF BootInv, ReservedInv
<1>2. Kept' /\ PeakFits' /\ stage' \in {next, "hung"}
  BY <1>1, ReserveKeeps
<1> QED
  BY <1>2 DEF BootInv, ReservedInv, SearchInv

(* Every step keeps the invariant.                                         *)
LEMMA BootStep ==
  ASSUME BootInv, [BootNext]_bootVars
  PROVE  BootInv'
<1>1. PeakFits /\ (stage = "kernel" => Untouched) /\ (stage # "kernel" => Kept) /\ SearchInv
  BY DEF BootInv, ReservedInv
<1>2. ASSUME stage # "kernel", stage' \notin {"kernel", "find"}, UNCHANGED <<reserved, peak, asked>>
      PROVE  BootInv'
  BY <1>1, <1>2 DEF BootInv, ReservedInv, SearchInv, PeakFits, Kept
<1>3. CASE ReserveKernel
  <2>1. stage = "kernel" /\ Reserve(0, KernelEnd, "initrd")
    BY <1>3 DEF ReserveKernel
  <2>2. Kept' /\ PeakFits' /\ stage' = "initrd"
    BY <1>1, <2>1, ReserveFirst
  <2> QED
    BY <2>2 DEF BootInv, ReservedInv, SearchInv
<1>4. CASE InitrdReserveMemory
  <2>1. stage = "initrd"
    BY <1>4 DEF InitrdReserveMemory
  <2>2. CASE stage' = "dtb" /\ UNCHANGED <<reserved, peak, asked>>
    BY <1>2, <2>1, <2>2
  <2>3. CASE \E base \in 0 .. PhysMax - 1, files \in Archives :
               Reserve(base, ALIGN(ArchiveSize(files), Word), "dtb")
    <3>1. PICK base \in 0 .. PhysMax - 1, files \in Archives :
            Reserve(base, ALIGN(ArchiveSize(files), Word), "dtb")
      BY <2>3
    <3>2. PICK size \in Nat : size = ALIGN(ArchiveSize(files), Word)
      BY ArchiveIs
    <3>3. base \in Nat /\ Reserve(base, size, "dtb") /\ stage # "kernel" /\ "dtb" \notin {"kernel", "find"}
      BY <2>1, <3>1, <3>2
    <3> QED
      BY <3>3, ReserveStep
  <2> QED
    BY <1>4, <2>2, <2>3 DEF InitrdReserveMemory
<1>5. CASE FdtReserveMemory
  <2>1. stage = "dtb" /\ HeaderSize \in Nat
    BY <1>5, MemblockAssumption DEF FdtReserveMemory
  <2>2. CASE stage' = "idle" /\ UNCHANGED <<reserved, peak, asked>>
    BY <1>2, <2>1, <2>2
  <2>3. CASE \E base \in 0 .. PhysMax - HeaderSize : Reserve(base, HeaderSize, "idle")
    <3>1. PICK base \in 0 .. PhysMax - HeaderSize : Reserve(base, HeaderSize, "idle")
      BY <2>3
    <3>2. base \in Nat /\ stage # "kernel" /\ "idle" \notin {"kernel", "find"}
      BY <2>1
    <3> QED
      BY <2>1, <3>1, <3>2, ReserveStep
  <2> QED
    BY <1>5, <2>2, <2>3 DEF FdtReserveMemory
<1>6. CASE CallReserve
  <2>1. PICK base \in 0 .. PhysMax - 1, size \in Sizes : Reserve(base, size, "idle")
    BY <1>6 DEF CallReserve
  <2>2. base \in Nat /\ size \in Nat /\ stage # "kernel" /\ "idle" \notin {"kernel", "find"}
    BY <1>6, MemblockAssumption DEF CallReserve
  <2> QED
    BY <2>1, <2>2, ReserveStep
<1>7. CASE CallPhysAlloc
  <2>1. stage = "idle" /\ stage' = "find" /\ UNCHANGED <<reserved, peak, asked>>
    BY <1>7 DEF CallPhysAlloc
  <2>2. Kept /\ Kept' /\ PeakFits'
    BY <1>1, <2>1 DEF Kept, PeakFits
  <2>3. SearchInv'
    BY <1>7, <2>2, SearchStarts
  <2> QED
    BY <2>1, <2>2, <2>3 DEF BootInv, ReservedInv
<1>8. CASE FindNext
  <2>1. stage = "find" /\ stage' = stage /\ UNCHANGED <<reserved, peak, asked>>
    BY <1>8 DEF FindNext
  <2>2. Kept /\ Kept' /\ PeakFits'
    BY <1>1, <2>1 DEF Kept, PeakFits
  <2>3. SearchInv'
    BY <1>1, <1>8, <2>2, SearchGoesOn
  <2> QED
    BY <2>1, <2>2, <2>3 DEF BootInv, ReservedInv
<1>9. CASE FindReturns
  <2>1. stage = "find" /\ Kept
    BY <1>1, <1>9 DEF FindReturns
  <2>2. CASE stage' = "idle" /\ UNCHANGED <<reserved, peak, asked>>
    BY <1>2, <2>1, <2>2
  <2>3. CASE Reserve(Candidate, req.size, "idle")
    <3>1. RequestFits /\ \E g \in 0 .. Len(Regs) : AtGap(g, idx, range)
      BY <1>1, <2>1 DEF SearchInv
    <3>2. PICK c \in Nat, size \in Nat : c = Candidate /\ size = req.size
      <4>1. Candidate \in Nat
        BY <2>1, <3>1, CandidateIs
      <4>2. req.size \in Nat
        BY <3>1 DEF RequestFits
      <4> QED
        BY <4>1, <4>2
    <3>3. Reserve(c, size, "idle") /\ stage # "kernel" /\ "idle" \notin {"kernel", "find"}
      BY <2>1, <2>3, <3>2
    <3> QED
      BY <3>3, ReserveStep
  <2> QED
    BY <1>9, <2>2, <2>3 DEF FindReturns
<1>10. CASE UNCHANGED bootVars
  BY <1>10 DEF BootInv, ReservedInv, SearchInv, PeakFits, Kept, Untouched, RequestFits, AtGap, Usable,
               Above, Regs, bootVars, GapStart, GapEnd, Holes
<1> QED
  BY <1>3, <1>4, <1>5, <1>6, <1>7, <1>8, <1>9, <1>10 DEF BootNext

(* The invariant of the boot holds.                                        *)
THEOREM BootInvHolds ==
  BootSpec => []BootInv
<1>1. BootInit => BootInv
  BY BootInvInit
<1>2. BootInv /\ [BootNext]_bootVars => BootInv'
  BY BootStep
<1> QED
  BY <1>1, <1>2, PTL DEF BootSpec

(* The array of memblock_reserve() covers exactly the addresses asked for, *)
(* in regions that do not touch, and total_size counts each of them once.  *)
THEOREM ReservedExactHolds ==
  BootSpec => []ReservedExact
<1>1. ASSUME BootInv PROVE ReservedExact
  <2>1. CASE stage = "kernel"
    <3>1. reserved.regions = <<Region(0, 0)>> /\ reserved.total_size = 0 /\ asked = {}
      BY <1>1, <2>1 DEF BootInv, ReservedInv, Untouched
    <3>2. Region(0, 0) \in Regions /\ Region(0, 0).base = 0 /\ Region(0, 0).size = 0
      BY RegionOf
    <3>3. PICK s : s = reserved.regions
      OBVIOUS
    <3>4. s \in Seq(Regions) /\ Len(s) = 1 /\ s[1] = Region(0, 0)
      BY <3>1, <3>2, <3>3
    <3>5. \A a \in Nat : ~ Has(s, a)
      <4>1. \A i \in 1 .. 1 : i = 1
        OBVIOUS
      <4> QED
        BY <3>2, <3>4, <4>1 DEF Has, In
    <3>6. Covered(s) = {}
      BY <3>4, <3>5, CoveredIs
    <3>7. \A i \in 1 .. Len(s) - 1 : FALSE
      BY <3>4
    <3>8. Cardinality({}) = 0
      BY FS_EmptySet
    <3> QED
      BY <3>1, <3>3, <3>6, <3>7, <3>8, Zenon DEF ReservedExact
  <2>2. CASE stage # "kernel"
    <3>1. Kept
      BY <1>1, <2>2 DEF BootInv, ReservedInv
    <3>2. PICK s : s = reserved.regions
      OBVIOUS
    <3>3. Apart(s) /\ s \in Seq(Regions)
      BY <3>1, <3>2 DEF Kept, Apart, Proper
    <3>4. \A i \in 1 .. Len(s) - 1 : s[i].base + s[i].size < s[i + 1].base
      <4>1. \A i \in 1 .. Len(s) - 1 : i \in 1 .. Len(s) /\ i + 1 \in 1 .. Len(s) /\ i < i + 1
        BY <3>3
      <4> QED
        BY <3>3, <4>1 DEF Apart
    <3>5. Covered(s) = asked /\ reserved.total_size = Cardinality(asked)
      BY <3>1, <3>2 DEF Kept
    <3> QED
      BY <3>2, <3>4, <3>5, Zenon DEF ReservedExact, End
  <2> QED
    BY <2>1, <2>2
<1> QED
  BY <1>1, BootInvHolds, PTL

(* The array never outgrows its elements, although memblock_add_range()    *)
(* does not count the pieces while cnt * 2 + 1 < max.                      *)
THEOREM ArrayBoundedHolds ==
  BootSpec => []ArrayBounded
<1>1. BootInv => ArrayBounded
  BY DEF BootInv, ReservedInv, PeakFits, ArrayBounded
<1> QED
  BY <1>1, BootInvHolds, PTL

(* memblock_find_in_range() hands out free memory, at the lowest address   *)
(* that serves the request.                                                *)
THEOREM AllocIsFreshHolds ==
  BootSpec => AllocIsFresh
<1> DEFINE A == stage = "find" /\ stage' # "find" =>
                  /\ Candidate \in Holes(req)
                  /\ \A a \in Holes(req) : Candidate <= a
<1>1. ASSUME BootInv, [BootNext]_bootVars PROVE [A]_bootVars
  <2> SUFFICES ASSUME stage = "find", stage' # "find"
               PROVE  /\ Candidate \in Holes(req)
                      /\ \A a \in Holes(req) : Candidate <= a
    OBVIOUS
  <2>1. FindReturns
    BY <1>1 DEF BootNext, bootVars, ReserveKernel, InitrdReserveMemory, FdtReserveMemory,
                CallReserve, CallPhysAlloc, FindNext
  <2>2. Fits
    BY <2>1 DEF FindReturns
  <2>3. Kept /\ SearchInv
    BY <1>1 DEF BootInv, ReservedInv
  <2>4. RequestFits /\ \E g \in 0 .. Len(Regs) : AtGap(g, idx, range) /\ Above(range[1], req)
    BY <2>3 DEF SearchInv
  <2> QED
    BY <2>2, <2>3, <2>4, FitsIsFresh
<1>2. BootInv /\ [BootNext]_bootVars => [A]_bootVars
  BY <1>1
<1>3. BootSpec => [][A]_bootVars
  BY <1>2, BootInvHolds, PTL DEF BootSpec
<1> QED
  BY <1>3, Zenon DEF AllocIsFresh
=============================================================================
