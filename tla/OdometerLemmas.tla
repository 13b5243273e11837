--------------------------- MODULE OdometerLemmas ---------------------------
(***************************************************************************)
(* What a turn of the assignment counter preserves: the facts about        *)
(* Odometer that the proofs about both engines rest on.                    *)
(***************************************************************************)
EXTENDS Odometer, WellFoundedInduction, TLAPS

(* The symbols every vertex may carry, none of them without a symbol. *)
IsWheels(possible) ==
  /\ DOMAIN possible \subseteq Nat
  /\ \A v \in DOMAIN possible : possible[v] \subseteq Nat /\ possible[v] # {}

(* What the counter shows: a symbol of its own at every vertex. *)
IsReading(possible, a) ==
  DOMAIN a = DOMAIN possible /\ \A v \in DOMAIN possible : a[v] \in possible[v]

(* A nonempty set of naturals has a least element, and Min finds it. *)
LEMMA MinOfNaturals ==
  ASSUME NEW S, S \subseteq Nat, S # {}
  PROVE  Min(S) \in S /\ \A y \in S : Min(S) <= y
<1>. DEFINE R == {ss \in Nat \X Nat : ss[1] < ss[2]}
<1>1. IsWellFoundedOn(R, Nat)
  BY NatLessThanWellFounded DEF OpToRel
<1>2. PICK x \in S : \A y \in S : ~(<<y, x>> \in R)
  BY <1>1, WFMin
<1>3. ASSUME NEW y \in S PROVE x <= y
  <2>1. <<y, x>> \notin R
    BY <1>2
  <2>2. <<y, x>> \in Nat \X Nat /\ <<y, x>>[1] = y /\ <<y, x>>[2] = x
    OBVIOUS
  <2>3. ~(y < x)
    BY <2>1, <2>2
  <2>. QED  BY <2>3
<1>. QED  BY <1>3 DEF Min

(* The iterators reset to begin() stand on symbols of their vertices. *)
LEMMA BeginIsReading ==
  ASSUME NEW possible, IsWheels(possible)
  PROVE  IsReading(possible, AllBegin(possible))
<1>1. ASSUME NEW v \in DOMAIN possible PROVE Begin(possible[v]) \in possible[v]
  BY MinOfNaturals DEF IsWheels, Begin
<1>. QED  BY <1>1 DEF IsReading, AllBegin

(* Where a carry comes to rest is a vertex that can turn. *)
LEMMA CarryStopTurns ==
  ASSUME NEW possible, IsWheels(possible), NEW a, NEW p, Turns(possible, a, p)
  PROVE  /\ CarryStop(possible, a, p) \in DOMAIN possible
         /\ Ahead(possible, a, CarryStop(possible, a, p)) # {}
<1>1. CanTurn(possible, a, p) \subseteq Nat
  BY DEF CanTurn, IsWheels
<1>2. CarryStop(possible, a, p) \in CanTurn(possible, a, p)
  BY <1>1, MinOfNaturals DEF CarryStop, Turns
<1>. QED  BY <1>2 DEF CanTurn

(* The next symbol at v is a later one of its own. *)
LEMMA NextSymbol ==
  ASSUME NEW possible, IsWheels(possible), NEW a, NEW v \in DOMAIN possible,
         Ahead(possible, a, v) # {}
  PROVE  Min(Ahead(possible, a, v)) \in possible[v] /\ Min(Ahead(possible, a, v)) > a[v]
<1>1. Ahead(possible, a, v) \subseteq Nat
  BY DEF Ahead, IsWheels
<1>2. Min(Ahead(possible, a, v)) \in Ahead(possible, a, v)
  BY <1>1, MinOfNaturals
<1>. QED  BY <1>2 DEF Ahead

(* A turned counter still shows a symbol of its own at every vertex. *)
LEMMA IncreaseIsReading ==
  ASSUME NEW possible, IsWheels(possible), NEW a, IsReading(possible, a), NEW p
  PROVE  IsReading(possible, IncreaseAt(possible, a, p))
<1>1. CASE Turns(possible, a, p)
  <2>. DEFINE q == CarryStop(possible, a, p)
  <2>1. ASSUME NEW v \in DOMAIN possible
        PROVE  IncreaseAt(possible, a, p)[v] \in possible[v]
    <3>1. CASE v < q
      BY <1>1, <3>1, MinOfNaturals DEF IncreaseAt, Begin, IsWheels
    <3>2. CASE v = q /\ ~(v < q)
      BY <1>1, <3>2, CarryStopTurns, NextSymbol DEF IncreaseAt
    <3>3. CASE ~(v < q) /\ v # q
      BY <1>1, <3>3 DEF IncreaseAt, IsReading
    <3>. QED  BY <3>1, <3>2, <3>3
  <2>2. DOMAIN IncreaseAt(possible, a, p) = DOMAIN possible
    BY <1>1 DEF IncreaseAt
  <2>. QED  BY <2>1, <2>2 DEF IsReading
<1>2. CASE ~Turns(possible, a, p)
  BY <1>2, BeginIsReading DEF IncreaseAt
<1>. QED  BY <1>1, <1>2

(* A vertex the carry did not pass keeps its symbol. *)
LEMMA UnchangedKept ==
  ASSUME NEW possible, IsWheels(possible), NEW a, NEW p,
         NEW v \in DOMAIN possible \ ChangedAt(possible, a, p)
  PROVE  IncreaseAt(possible, a, p)[v] = a[v]
<1>1. Turns(possible, a, p) /\ ~(v <= CarryStop(possible, a, p))
  BY DEF ChangedAt
<1>2. CarryStop(possible, a, p) \in Nat /\ v \in Nat
  BY <1>1, CarryStopTurns DEF IsWheels
<1>. QED  BY <1>1, <1>2 DEF IncreaseAt

(* A turn that does not run off the end moves the counter forward. *)
LEMMA IncreaseAdvances ==
  ASSUME NEW possible, IsWheels(possible), NEW a, IsReading(possible, a), NEW p,
         Turns(possible, a, p)
  PROVE  Before(a, IncreaseAt(possible, a, p))
<1>. DEFINE q == CarryStop(possible, a, p)
            b == IncreaseAt(possible, a, p)
<1>1. q \in DOMAIN possible /\ Ahead(possible, a, q) # {}
  BY CarryStopTurns
<1>2. b[q] = Min(Ahead(possible, a, q))
  BY <1>1 DEF IncreaseAt, IsWheels
<1>3. a[q] < b[q]
  BY <1>1, <1>2, NextSymbol DEF IsReading, IsWheels
<1>4. \A w \in DOMAIN a : w > q => a[w] = b[w]
  BY <1>1 DEF IncreaseAt, IsReading, IsWheels
<1>. QED  BY <1>1, <1>3, <1>4 DEF Before, IsReading

(* The order of enumeration is a strict order on what a counter can show. *)
LEMMA BeforeIrreflexive ==
  ASSUME NEW possible, IsWheels(possible), NEW a, IsReading(possible, a)
  PROVE  ~Before(a, a)
BY DEF Before, IsReading, IsWheels

LEMMA BeforeTransitive ==
  ASSUME NEW possible, IsWheels(possible), NEW a, NEW b, NEW c,
         IsReading(possible, a), IsReading(possible, b), IsReading(possible, c),
         Before(a, b), Before(b, c)
  PROVE  Before(a, c)
<1>. DEFINE D == DOMAIN possible
<1>1. PICK v \in D : a[v] < b[v] /\ \A x \in D : x > v => a[x] = b[x]
  BY DEF Before, IsReading
<1>2. PICK w \in D : b[w] < c[w] /\ \A x \in D : x > w => b[x] = c[x]
  BY DEF Before, IsReading
<1>3. v \in Nat /\ w \in Nat /\ D \subseteq Nat
  BY DEF IsWheels
<1>4. \A x \in D : a[x] \in Nat /\ b[x] \in Nat /\ c[x] \in Nat
  BY DEF IsReading, IsWheels
<1>5. CASE v < w
  BY <1>1, <1>2, <1>3, <1>4, <1>5 DEF Before, IsReading
<1>6. CASE w < v
  BY <1>1, <1>2, <1>3, <1>4, <1>6 DEF Before, IsReading
<1>7. CASE v = w
  BY <1>1, <1>2, <1>3, <1>4, <1>7 DEF Before, IsReading
<1>. QED  BY <1>3, <1>5, <1>6, <1>7

(* Readings(possible) is the set of what the counter can show. *)
LEMMA ReadingsFacts ==
  ASSUME NEW possible, IsWheels(possible)
  PROVE  /\ \A a \in Readings(possible) : IsReading(possible, a)
         /\ AllBegin(possible) \in Readings(possible)
         /\ \A a \in Readings(possible) : \A p :
              IncreaseAt(possible, a, p) \in Readings(possible)
<1>. DEFINE symbols == UNION {possible[v] : v \in DOMAIN possible}
<1>1. \A a \in Readings(possible) : IsReading(possible, a)
  BY DEF Readings, IsReading
<1>2. ASSUME NEW a, IsReading(possible, a), a = [v \in DOMAIN possible |-> a[v]]
      PROVE  a \in Readings(possible)
  <2>1. \A v \in DOMAIN possible : a[v] \in possible[v] /\ a[v] \in symbols
    BY <1>2 DEF IsReading
  <2>2. a \in [DOMAIN possible -> symbols]
    BY <1>2, <2>1
  <2>. QED  BY <2>1, <2>2 DEF Readings
<1>3. AllBegin(possible) \in Readings(possible)
  <2>1. AllBegin(possible) = [v \in DOMAIN possible |-> AllBegin(possible)[v]]
    BY DEF AllBegin
  <2>. QED  BY <1>2, <2>1, BeginIsReading
<1>4. ASSUME NEW a \in Readings(possible), NEW p
      PROVE  IncreaseAt(possible, a, p) \in Readings(possible)
  <2>1. IncreaseAt(possible, a, p) = [v \in DOMAIN possible |-> IncreaseAt(possible, a, p)[v]]
    BY DEF IncreaseAt, AllBegin
  <2>. QED  BY <1>1, <1>2, <2>1, IncreaseIsReading
<1>. QED  BY <1>1, <1>3, <1>4

(* Nothing is before what is not after it. *)
LEMMA BeforeAsymmetric ==
  ASSUME NEW possible, IsWheels(possible), NEW a, NEW b,
         IsReading(possible, a), IsReading(possible, b), Before(a, b)
  PROVE  ~Before(b, a)
BY BeforeTransitive, BeforeIrreflexive

(* A jump at position p leaves out, up to where the counter comes to rest  *)
(* or, when the carry runs off the end, up to the end, only readings that  *)
(* agree with the one jumped from at and above p.                          *)
LEMMA JumpedOverAgree ==
  ASSUME NEW possible, IsWheels(possible), NEW a, NEW b, NEW p \in Nat,
         IsReading(possible, a), IsReading(possible, b), Before(a, b),
         Turns(possible, a, p) => Before(b, IncreaseAt(possible, a, p))
  PROVE  \A v \in DOMAIN possible : v >= p => b[v] = a[v]
<1>. DEFINE D == DOMAIN possible
<1>1. D \subseteq Nat /\ DOMAIN a = D /\ DOMAIN b = D
      /\ \A v \in D : a[v] \in Nat /\ b[v] \in Nat /\ b[v] \in possible[v]
  BY DEF IsReading, IsWheels
<1>2. PICK v \in D : a[v] < b[v] /\ \A w \in D : w > v => a[w] = b[w]
  BY <1>1 DEF Before
<1>3. CASE v < p
  BY <1>1, <1>2, <1>3
<1>4. CASE v >= p
  <2>. DEFINE q == CarryStop(possible, a, p)
              n == IncreaseAt(possible, a, p)
  <2>1. v \in CanTurn(possible, a, p) /\ b[v] \in Ahead(possible, a, v)
    BY <1>1, <1>2, <1>4 DEF CanTurn, Ahead
  <2>2. Turns(possible, a, p) /\ Before(b, n) /\ IsReading(possible, n)
    BY <2>1, IncreaseIsReading DEF Turns
  <2>3. q \in D /\ q \in Nat /\ q <= v
    <3>1. CanTurn(possible, a, p) \subseteq Nat /\ CanTurn(possible, a, p) \subseteq D
      BY <1>1 DEF CanTurn
    <3>. QED  BY <2>1, <3>1, MinOfNaturals DEF CarryStop
  <2>4. \A w \in D : /\ w > q => n[w] = a[w]
                     /\ w < q => n[w] = Begin(possible[w])
                     /\ w = q => n[w] = Min(Ahead(possible, a, w))
    BY <2>2, <2>3, <1>1 DEF IncreaseAt
  <2>5. ~Before(b, n)
    <3>1. CASE v > q
      <4>1. n[v] < b[v] /\ \A w \in D : w > v => n[w] = b[w]
        BY <1>1, <1>2, <2>3, <2>4, <3>1
      <4>2. Before(n, b)
        BY <4>1, <2>2 DEF Before, IsReading
      <4>. QED  BY <4>2, <2>2, BeforeAsymmetric
    <3>2. CASE v = q
      <4>1. n[q] <= b[q]
        <5>1. Ahead(possible, a, q) \subseteq Nat
          BY <2>3 DEF Ahead, IsWheels
        <5>. QED  BY <5>1, <2>1, <2>3, <2>4, <3>2, MinOfNaturals
      <4>2. \A w \in D : w < q => n[w] <= b[w]
        <5>. TAKE w \in D
        <5>1. possible[w] \subseteq Nat /\ b[w] \in possible[w]
          BY <1>1 DEF IsWheels
        <5>. QED  BY <5>1, <2>4, MinOfNaturals DEF Begin
      <4>3. \A w \in D : w > q => n[w] = b[w]
        BY <1>2, <2>4, <3>2
      <4>4. \A w \in D : n[w] \in Nat
        BY <2>2 DEF IsReading, IsWheels
      <4>5. ASSUME NEW w \in D PROVE ~(b[w] < n[w])
        <5>1. w < q \/ w = q \/ w > q
          BY <1>1, <2>3
        <5>. QED  BY <5>1, <4>1, <4>2, <4>3, <4>4, <1>1
      <4>. QED  BY <4>5, <1>1 DEF Before
    <3>. QED  BY <2>3, <3>1, <3>2, <1>1
  <2>. QED  BY <2>2, <2>5
<1>. QED  BY <1>1, <1>3, <1>4

(* A nonempty set of naturals with a bound has a greatest element.         *)
LEMMA MaxOfNaturals ==
  ASSUME NEW S, NEW n \in Nat, S \subseteq 0 .. n, S # {}
  PROVE  Max(S) \in S /\ \A y \in S : Max(S) >= y
<1>. DEFINE T == {n - y : y \in S}
<1>1. T \subseteq Nat /\ T # {}
  <2>1. \A y \in S : y \in Nat /\ y <= n
    OBVIOUS
  <2>2. \A y \in S : n - y \in Nat
    BY <2>1
  <2>. QED  BY <2>2
<1>2. PICK x \in S : Min(T) = n - x
  BY <1>1, MinOfNaturals
<1>3. ASSUME NEW y \in S PROVE x >= y
  <2>1. n - x <= n - y
    BY <1>1, <1>2, MinOfNaturals
  <2>2. x \in Nat /\ y \in Nat
    OBVIOUS
  <2>. QED  BY <2>1, <2>2
<1>. QED  BY <1>3 DEF Max

(* The order is total on what a counter can show.                          *)
LEMMA BeforeTotal ==
  ASSUME NEW possible, IsWheels(possible), NEW n \in Nat, DOMAIN possible \subseteq 0 .. n,
         NEW a \in Readings(possible), NEW b \in Readings(possible)
  PROVE  a = b \/ Before(a, b) \/ Before(b, a)
<1>. DEFINE D == DOMAIN possible
            differ == {v \in D : a[v] # b[v]}
<1>1. /\ IsReading(possible, a) /\ IsReading(possible, b)
      /\ a = [v \in D |-> a[v]] /\ b = [v \in D |-> b[v]]
  BY ReadingsFacts DEF Readings
<1>2. \A v \in D : a[v] \in Nat /\ b[v] \in Nat
  BY <1>1 DEF IsReading, IsWheels
<1>3. CASE differ = {}
  BY <1>1, <1>3
<1>4. CASE differ # {}
  <2>. DEFINE top == Max(differ)
  <2>1. top \in differ /\ \A y \in differ : top >= y
    BY <1>4, MaxOfNaturals
  <2>2. top \in D /\ top \in Nat /\ (a[top] < b[top] \/ b[top] < a[top])
    BY <1>2, <2>1
  <2>3. ASSUME NEW w \in D, w > top PROVE a[w] = b[w]
    <3>1. w \in Nat
      BY DEF IsWheels
    <3>2. ~(top >= w)
      BY <2>2, <2>3, <3>1
    <3>. QED  BY <2>1, <3>2
  <2>4. \A w \in D : w > top => a[w] = b[w] /\ b[w] = a[w]
    BY <2>3
  <2>. QED  BY <1>1, <2>2, <2>4 DEF Before, IsReading
<1>. QED  BY <1>3, <1>4

(* Nothing comes before the first reading.                                 *)
LEMMA BeginIsFirst ==
  ASSUME NEW possible, IsWheels(possible), NEW a, IsReading(possible, a)
  PROVE  ~Before(a, AllBegin(possible))
<1>1. ASSUME NEW v \in DOMAIN possible PROVE ~(a[v] < AllBegin(possible)[v])
  <2>1. possible[v] \subseteq Nat /\ possible[v] # {} /\ a[v] \in possible[v]
    BY DEF IsWheels, IsReading
  <2>2. Min(possible[v]) \in Nat /\ Min(possible[v]) <= a[v] /\ a[v] \in Nat
    BY <2>1, MinOfNaturals
  <2>. QED  BY <2>1, <2>2 DEF AllBegin, Begin
<1>. QED  BY <1>1 DEF Before, IsReading

(* An ordinary turn leaves out nothing.                                    *)
LEMMA NothingBetween ==
  ASSUME NEW possible, IsWheels(possible), 0 \notin DOMAIN possible, NEW a, NEW b,
         IsReading(possible, a), IsReading(possible, b), Before(a, b),
         Turns(possible, a, 1) => Before(b, IncreaseAt(possible, a, 1))
  PROVE  FALSE
<1>1. \A v \in DOMAIN possible : v \in Nat /\ v >= 1
  BY DEF IsWheels
<1>2. \A v \in DOMAIN possible : b[v] = a[v]
  BY <1>1, JumpedOverAgree
<1>3. \A v \in DOMAIN possible : a[v] \in Nat
  BY DEF IsReading, IsWheels
<1>. QED  BY <1>2, <1>3 DEF Before, IsReading

(* Any formulas that a counter can show have a first one among them: take  *)
(* those with the least symbol at the highest vertex, of these the ones    *)
(* with the least symbol at the next, and so on down.                      *)
LEMMA BeforeHasLeast ==
  ASSUME NEW possible, IsWheels(possible), NEW n \in Nat, DOMAIN possible \subseteq 1 .. n,
         NEW S, S \subseteq Readings(possible), S # {}
  PROVE  \E c \in S : \A b \in S : ~Before(b, c)
<1>. DEFINE D == DOMAIN possible
            LowerAt(b, c, k) == \E v \in D : /\ v > k /\ b[v] < c[v]
                                           /\ \A w \in D : w > v => b[w] = c[w]
            LeastDownTo(k) == \E c \in S : \A b \in S : ~LowerAt(b, c, k)
            reached == {k \in 0 .. n : LeastDownTo(k)}
<1>1. \A a \in S : DOMAIN a = D /\ \A v \in D : a[v] \in Nat
  BY ReadingsFacts DEF IsReading, IsWheels
<1>2. D \subseteq 1 .. n
  OBVIOUS
<1>3. LeastDownTo(n)
  BY <1>2
<1>4. ASSUME NEW k \in 1 .. n, LeastDownTo(k)
      PROVE  LeastDownTo(k - 1)
  <2>1. PICK c \in S : \A b \in S : ~LowerAt(b, c, k)
    BY <1>4
  <2>2. CASE k \notin D
    <3>1. \A v \in D : v > k - 1 => v > k
      BY <1>2, <2>2
    <3>. QED  BY <2>1, <3>1
  <2>3. CASE k \in D
    <3>. DEFINE like == {b \in S : \A w \in D : w > k => b[w] = c[w]}
                symbols == {b[k] : b \in like}
    <3>1. symbols \subseteq Nat /\ symbols # {}
      BY <1>1, <2>3
    <3>2. Min(symbols) \in symbols /\ \A s \in symbols : Min(symbols) <= s
      BY <3>1, MinOfNaturals
    <3>3. PICK b \in like : b[k] = Min(symbols)
      BY <3>2
    <3>4. ASSUME NEW a \in S, NEW v \in D, v > k - 1, a[v] < b[v],
                 \A w \in D : w > v => a[w] = b[w]
          PROVE  FALSE
      <4>1. v = k \/ v > k
        BY <1>2, <3>4
      <4>2. CASE v = k
        <5>1. a \in like
          BY <3>3, <3>4, <4>2
        <5>2. b[k] <= a[k] /\ a[k] \in Nat /\ b[k] \in Nat
          BY <1>1, <2>3, <3>2, <3>3, <5>1
        <5>. QED  BY <3>4, <4>2, <5>2
      <4>3. CASE v > k
        <5>1. \A w \in D : w > k => b[w] = c[w]
          BY <3>3
        <5>2. \A w \in D : w > v => w > k
          BY <1>2, <4>3
        <5>3. a[v] < c[v] /\ \A w \in D : w > v => a[w] = c[w]
          BY <3>4, <4>3, <5>1, <5>2
        <5>. QED  BY <2>1, <3>4, <4>3, <5>3
      <4>. QED  BY <4>1, <4>2, <4>3
    <3>. QED  BY <3>3, <3>4
  <2>. QED  BY <2>2, <2>3
<1>. HIDE DEF LeastDownTo
<1>5. LeastDownTo(0)
  <2>1. reached \subseteq Nat /\ n \in reached
    BY <1>3
  <2>2. Min(reached) \in reached /\ \A k \in reached : Min(reached) <= k
    BY <2>1, MinOfNaturals
  <2>3. SUFFICES ASSUME Min(reached) # 0 PROVE FALSE
    BY <2>2
  <2>. DEFINE k == Min(reached)
  <2>4. k \in 1 .. n /\ LeastDownTo(k)
    BY <2>2, <2>3
  <2>5. k - 1 \in reached
    BY <1>4, <2>4
  <2>6. k <= k - 1
    BY <2>2, <2>5
  <2>. QED  BY <2>4, <2>6
<1>6. PICK c \in S : \A b \in S : ~LowerAt(b, c, 0)
  BY <1>5 DEF LeastDownTo
<1>7. ASSUME NEW b \in S, Before(b, c) PROVE FALSE
  <2>1. PICK v \in D : b[v] < c[v] /\ \A w \in D : w > v => b[w] = c[w]
    BY <1>1, <1>7 DEF Before
  <2>2. v > 0
    BY <1>2
  <2>. QED  BY <1>6, <2>1, <2>2
<1>. QED  BY <1>7
=============================================================================
