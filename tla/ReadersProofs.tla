---------------------------- MODULE ReadersProofs ---------------------------
(***************************************************************************)
(* What holds of Readers for every ledger, every question and every        *)
(* interleaving with the collector: a summary is what its filter selects   *)
(* of the ledger it was taken from, an export misses no row of its window  *)
(* and repeats none, and the shares of a turn never exceed what it used.   *)
(***************************************************************************)
EXTENDS Readers, DataProofs, SequenceTheorems

(* Time: a quarter divides an hour, a day and the offset of the zone.         *)

LEMMA Quarters ==
    /\ Quarter \in Nat \ {0} /\ Hour \in Nat \ {0} /\ Day \in Nat \ {0}
    /\ \E m \in Nat \ {0} : Hour = Quarter * m
    /\ \E m \in Nat \ {0} : Day = Quarter * m
    /\ \E m \in Nat : Offset = Quarter * m
<1>1. /\ Quarter \in Nat \ {0} /\ Hour \in Nat \ {0} /\ Day \in Nat \ {0} /\ Offset \in Nat
      /\ Hour % Quarter = 0 /\ Day % Hour = 0 /\ Offset % Quarter = 0
  BY ClockAssumption
<1>2. \A a \in Nat, b \in Nat \ {0} : a % b = 0 => a = b * (a \div b) /\ a \div b \in Nat
  OBVIOUS
<1>3. \A b \in Nat \ {0}, m \in Nat : b * m # 0 => m # 0
  OBVIOUS
<1>4. PICK h \in Nat : Hour = Quarter * h
  BY <1>1, <1>2
<1>5. PICK d \in Nat : Day = Hour * d
  BY <1>1, <1>2
<1>6. PICK o \in Nat : Offset = Quarter * o
  BY <1>1, <1>2
<1>7. h # 0 /\ d # 0
  BY <1>1, <1>4, <1>5
<1>8. Day = Quarter * (h * d) /\ h * d \in Nat
  BY <1>1, <1>4, <1>5
<1>9. h * d # 0
  BY <1>1, <1>8
<1>. QED BY <1>1, <1>4, <1>6, <1>7, <1>8, <1>9

LEMMA FloorOf ==
    ASSUME NEW t \in Int
    PROVE  /\ Floor(t) \in Int /\ Floor(t) <= t /\ t < Floor(t) + Quarter
           /\ \E n \in Int : Floor(t) = Quarter * n
<1>1. Quarter \in Nat \ {0}
  BY Quarters
<1>2. t % Quarter \in 0 .. Quarter - 1 /\ t \div Quarter \in Int /\ t = Quarter * (t \div Quarter) + (t % Quarter)
  BY <1>1
<1> DEFINE r == t % Quarter
           d == t \div Quarter
<1>3. r \in Int /\ 0 <= r /\ r < Quarter /\ d \in Int /\ t = Quarter * d + r /\ Floor(t) = t - r
  BY <1>1, <1>2 DEF Floor
<1> HIDE DEF r, d
<1>4. Quarter * d = t - r
  <2> DEFINE x == Quarter * d
  <2>1. x \in Int /\ t = x + r
    BY <1>1, <1>3
  <2> HIDE DEF x
  <2>2. x = t - r
    BY <1>3, <2>1
  <2>. QED BY <2>2 DEF x
<1>5. \E n \in Int : Floor(t) = Quarter * n
  BY <1>3, <1>4
<1>6. Floor(t) \in Int /\ Floor(t) <= t /\ t < Floor(t) + Quarter
  BY <1>1, <1>3
<1>. QED BY <1>5, <1>6

(* An instant that a quarter begins at is before an event or after it as it   *)
(* is before or after the quarter of the event.                               *)
LEMMA WholeQuarters ==
    ASSUME NEW t \in Int, NEW n \in Int, n % Quarter = 0
    PROVE  Floor(t) < n <=> t < n
<1>1. Quarter \in Nat \ {0}
  BY Quarters
<1>2. PICK a \in Int : Floor(t) = Quarter * a
  BY FloorOf
<1>3. n = Quarter * (n \div Quarter) /\ n \div Quarter \in Int
  BY <1>1
<1>4. PICK b \in Int : n = Quarter * b
  BY <1>3
<1>5. Floor(t) < n => Quarter * a + Quarter <= Quarter * b
  <2>1. \A q \in Nat \ {0}, x, y \in Int : q * x < q * y => x < y
    OBVIOUS
  <2>2. \A q \in Nat \ {0}, x, y \in Int : x + 1 <= y => q * x + q <= q * y
    OBVIOUS
  <2>. QED BY <1>1, <1>2, <1>4, <2>1, <2>2
<1>6. Floor(t) < n => Floor(t) + Quarter <= n
  BY <1>2, <1>4, <1>5
<1>. QED BY <1>1, <1>6, FloorOf

(* An hour or a day of local time is one of the quarter's beginning.          *)
LEMMA SameSpan ==
    ASSUME NEW t \in Int, NEW span \in Nat \ {0}, NEW m \in Nat \ {0}, span = Quarter * m
    PROVE  (Floor(t) + Offset) \div span = (t + Offset) \div span
<1>1. Quarter \in Nat \ {0}
  BY Quarters
<1>2. PICK a \in Int : Floor(t) = Quarter * a
  BY FloorOf
<1>3. PICK o \in Nat : Offset = Quarter * o
  BY Quarters
<1> DEFINE r == t - Floor(t)
           n == (a + o) \div m
           p == (a + o) % m
<1>4. r \in Int /\ 0 <= r /\ r < Quarter /\ t = Quarter * a + r
  BY <1>1, <1>2, FloorOf
<1>5. n \in Int /\ p \in 0 .. m - 1 /\ a + o = m * n + p
  BY <1>2, <1>3
<1> HIDE DEF r, n, p
<1>6. Quarter * p + Quarter <= span /\ 0 <= Quarter * p /\ Quarter * p \in Int
  <2>1. \A q \in Nat \ {0}, x \in Nat, y \in Nat : x + 1 <= y => q * x + q <= q * y /\ 0 <= q * x /\ q * x \in Int
    OBVIOUS
  <2>. QED BY <1>1, <1>5, <2>1
<1>7. Quarter * (a + o) = span * n + Quarter * p
  <2>1. Quarter * (m * n + p) = Quarter * m * n + Quarter * p
    BY <1>1, <1>5
  <2>. QED BY <1>5, <2>1
<1>8. Floor(t) + Offset = span * n + Quarter * p /\ t + Offset = span * n + (Quarter * p + r)
  <2>1. Floor(t) + Offset = Quarter * (a + o)
    BY <1>1, <1>2, <1>3
  <2>2. span * n \in Int
    BY <1>5
  <2>. QED BY <1>1, <1>2, <1>3, <1>4, <1>6, <1>7, <2>1, <2>2
<1>9. \A H \in Nat \ {0}, k \in Int, q \in Int : 0 <= q /\ q < H => (H * k + q) \div H = k
  OBVIOUS
<1>10. 0 <= Quarter * p /\ Quarter * p < span /\ 0 <= Quarter * p + r /\ Quarter * p + r < span
  BY <1>1, <1>4, <1>6
<1>11. (span * n + Quarter * p) \div span = n /\ (span * n + (Quarter * p + r)) \div span = n
  <2> DEFINE x == Quarter * p
  <2>1. x \in Int /\ x + r \in Int /\ 0 <= x /\ x < span /\ 0 <= x + r /\ x + r < span
    BY <1>4, <1>6, <1>10
  <2> HIDE DEF x
  <2>2. (span * n + x) \div span = n /\ (span * n + (x + r)) \div span = n
    BY <1>5, <1>9, <2>1
  <2>. QED BY <2>2 DEF x
<1>. QED BY <1>8, <1>11

LEMMA SameHourAndDay ==
    ASSUME NEW t \in Int
    PROVE  HourOf(Floor(t)) = HourOf(t) /\ DayOf(Floor(t)) = DayOf(t)
BY Quarters, SameSpan DEF HourOf, DayOf
-----------------------------------------------------------------------------
(* The rollup answers for its rows *)

Measures == {"events", "tokens", "cost"}

LEMMA LedgerShape ==
    ASSUME NEW l, IsLedger(l)
    PROVE  /\ l.rows \in Seq(EventRow) /\ Len(l.rows) \in Nat /\ Ids(l) = 1 .. Len(l.rows)
           /\ IsFiniteSet(Ids(l)) /\ \A id \in Ids(l) : l.rows[id] \in EventRow
<1>1. l.rows \in Seq(EventRow)
  BY DEF IsLedger
<1>2. Len(l.rows) \in Nat /\ Ids(l) = 1 .. Len(l.rows) /\ \A id \in Ids(l) : l.rows[id] \in EventRow
  BY <1>1 DEF Ids
<1>. QED BY <1>1, <1>2, FS_Interval

(* What is counted of a row: an item of its own.                              *)
LEMMA RowItem ==
    ASSUME NEW l, IsLedger(l), NEW id \in Ids(l)
    PROVE  /\ EventItem(l, id).id = id /\ id \in Int
           /\ EventItem(l, id).at = l.rows[id].at /\ l.rows[id].at \in Int
           /\ EventItem(l, id).model = l.rows[id].model
           /\ EventItem(l, id).session = l.rows[id].session
           /\ EventItem(l, id).class = Class(l.rows[id])
           /\ \A field \in Measures : EventItem(l, id)[field] \in Int
<1>1. l.rows[id] \in EventRow /\ id \in Int
  BY LedgerShape
<1>2. /\ l.rows[id].at \in Int /\ l.rows[id].tokens \in Int
      /\ l.rows[id].cost # None => l.rows[id].cost \in Int
  BY <1>1 DEF EventRow
<1>. QED BY <1>1, <1>2 DEF EventItem, Measures

(* What is counted of a row whose quarter the rollup answers for: its cell.   *)
LEMMA CellItem ==
    ASSUME NEW l, NEW r
    PROVE  LET i == RollupItem(l, CellOf(r)) IN
           /\ i.id = None /\ i.at = Floor(r.at) /\ i.model = r.model
           /\ i.session = r.session /\ i.class = Class(r)
           /\ CellOf(r) = <<i.at, i.model, i.session, i.class>>
BY DEF RollupItem, CellOf

(* The rows of S, of which those in C are counted by their cells.             *)
ItemFor(l, C, id) == IF id \in C THEN RollupItem(l, CellOf(l.rows[id])) ELSE EventItem(l, id)
Items(l, C, S) == {ItemFor(l, C, id) : id \in S}

Whole(l, C, S) ==
    \A x \in S \cap C : \A y \in Ids(l) : CellOf(l.rows[y]) = CellOf(l.rows[x]) => y \in S \cap C

Measured(items, field) == SumFunctionOnSet([i \in items |-> i[field]], items)
MeasuredRows(l, S, field) == SumFunctionOnSet([id \in S |-> EventItem(l, id)[field]], S)

LEMMA MeasureOfItems ==
    ASSUME NEW l, IsLedger(l), l.rolled = Ids(l), NEW C, NEW S \in SUBSET Ids(l), Whole(l, C, S),
           NEW field \in Measures
    PROVE  Measured(Items(l, C, S), field) = MeasuredRows(l, S, field)
<1> DEFINE f == [id \in S |-> EventItem(l, id)[field]]
           h == [id \in S |-> ItemFor(l, C, id)]
           T == Items(l, C, S)
           w == [i \in T |-> i[field]]
<1>1. IsFiniteSet(S) /\ \A id \in S : f[id] \in Int
  BY LedgerShape, FS_Subset, RowItem
<1>2. (\A id \in S : h[id] \in T) /\ (\A t \in T : \E id \in S : h[id] = t)
  BY DEF Items
<1>3. ASSUME NEW t \in T, NEW A \in SUBSET S, \A x \in S : x \in A <=> h[x] = t
      PROVE  w[t] = SumFunctionOnSet(f, A)
  <2>1. PICK x \in S : h[x] = t
    BY <1>2
  <2>2. x \in Ids(l) /\ x \in A /\ IsFiniteSet(A)
    BY <1>1, <1>3, <2>1, FS_Subset
  <2>3. CASE x \notin C
    <3>1. t = EventItem(l, x)
      BY <2>1, <2>3 DEF ItemFor
    <3>2. ASSUME NEW y \in A PROVE y = x
      <4>1. y \in S /\ y \in Ids(l) /\ ItemFor(l, C, y) = t
        BY <1>3
      <4>2. t.id = x /\ x \in Int
        BY <2>2, <3>1, RowItem
      <4>3. CASE y \in C
        <5>1. t = RollupItem(l, CellOf(l.rows[y]))
          BY <4>1, <4>3 DEF ItemFor
        <5>2. t.id = None
          BY <5>1, CellItem
        <5>. QED BY <4>2, <5>2, ReaderAssumption
      <4>4. CASE y \notin C
        BY <4>1, <4>2, <4>4, RowItem DEF ItemFor
      <4>. QED BY <4>3, <4>4
    <3>3. A = {x}
      BY <2>2, <3>2
    <3>4. SumFunctionOnSet(f, A) = f[x]
      <4>1. x \in A /\ f[x] \in Int /\ \A y \in A \ {x} : f[y] = 0
        BY <1>1, <2>2, <3>3
      <4> HIDE DEF f
      <4>. QED BY <2>2, <4>1, SumOfOne
    <3>. QED BY <3>1, <3>4
  <2>4. CASE x \in C
    <3> DEFINE cell == CellOf(l.rows[x])
               in == {EventItem(l, id) : id \in {i \in l.rolled : CellOf(l.rows[i]) = cell}}
    <3>1. t = RollupItem(l, cell)
      BY <2>1, <2>4 DEF ItemFor
    <3>2. \A y \in S \cap C : ItemFor(l, C, y) = t <=> CellOf(l.rows[y]) = cell
      <4>1. \A y \in S \cap C : ItemFor(l, C, y) = RollupItem(l, CellOf(l.rows[y]))
        BY DEF ItemFor
      <4>2. cell = <<t.at, t.model, t.session, t.class>>
        BY <3>1, CellItem
      <4>3. \A y \in S \cap C : LET i == RollupItem(l, CellOf(l.rows[y]))
                                IN CellOf(l.rows[y]) = <<i.at, i.model, i.session, i.class>>
        BY CellItem
      <4>. QED BY <3>1, <4>1, <4>2, <4>3
    <3>3. A \subseteq C
      <4>1. SUFFICES ASSUME NEW y \in A, y \notin C PROVE FALSE
        OBVIOUS
      <4>2. y \in Ids(l) /\ t = EventItem(l, y)
        BY <1>3, <4>1 DEF ItemFor
      <4>3. t.id = None
        BY <3>1, CellItem
      <4>4. t.id \in Int
        BY <4>2, RowItem
      <4>. QED BY <4>3, <4>4, ReaderAssumption
    <3>4. A = {i \in l.rolled : CellOf(l.rows[i]) = cell}
      <4>1. \A y \in Ids(l) : CellOf(l.rows[y]) = cell => y \in S \cap C
        BY <2>4 DEF Whole
      <4>2. \A y \in S \cap C : y \in A <=> ItemFor(l, C, y) = t
        BY <1>3
      <4>. QED BY <3>2, <3>3, <4>1, <4>2
    <3>5. in = {EventItem(l, id) : id \in A}
      BY <3>4
    <3>6. t[field] = SumFunctionOnSet([i \in in |-> i[field]], in)
      <4>1. t.events = SumFunctionOnSet([i \in in |-> i.events], in)
        BY <3>1 DEF RollupItem, EventsOf, SumFunction
      <4>2. t.tokens = SumFunctionOnSet([i \in in |-> i.tokens], in)
        BY <3>1 DEF RollupItem, TokensOf, SumFunction
      <4>3. t.cost = SumFunctionOnSet([i \in in |-> i.cost], in)
        BY <3>1 DEF RollupItem, CostOf, SumFunction
      <4>. QED BY <4>1, <4>2, <4>3 DEF Measures
    <3>7. SumFunctionOnSet([i \in in |-> i[field]], in) = SumFunctionOnSet(f, A)
      <4> DEFINE g == [id \in A |-> EventItem(l, id)]
                 v == [i \in in |-> i[field]]
      <4>1. in = {g[id] : id \in A}
        BY <3>5
      <4>2. \A a, b \in A : g[a] = g[b] => a = b
        BY RowItem
      <4>3. \A a \in A : v[g[a]] = f[a]
        BY <3>5
      <4>4. \A a \in A : f[a] \in Int
        BY <1>1
      <4> HIDE DEF g, v, in, f
      <4>5. SumFunctionOnSet(v, {g[id] : id \in A}) = SumFunctionOnSet(f, A)
        BY <2>2, <4>2, <4>3, <4>4, SumRenamed
      <4>. QED BY <4>1, <4>5 DEF v
    <3>. QED BY <3>6, <3>7
  <2>. QED BY <2>3, <2>4
<1> HIDE DEF f, h, T, w
<1>4. Regroups(S, f, h, T, w)
  BY <1>1, <1>2, <1>3 DEF Regroups
<1>5. SumFunctionOnSet(w, T) = SumFunctionOnSet(f, S)
  BY <1>4, SumRegroups
<1>. QED BY <1>5 DEF f, w, T, Measured, MeasuredRows

LEMMA CountedAlike ==
    ASSUME NEW l, IsLedger(l), NEW C, NEW id \in Ids(l), NEW by \in SUBSET UsageGroups
    PROVE  /\ ItemFor(l, C, id).session = EventItem(l, id).session
           /\ ItemFor(l, C, id).class = EventItem(l, id).class
           /\ KeyOf(by, ItemFor(l, C, id)) = KeyOf(by, EventItem(l, id))
<1> DEFINE c == ItemFor(l, C, id)
           e == EventItem(l, id)
<1>1. /\ e.at = l.rows[id].at /\ l.rows[id].at \in Int /\ e.model = l.rows[id].model
      /\ e.session = l.rows[id].session /\ e.class = Class(l.rows[id])
  BY RowItem
<1>2. CASE id \notin C
  BY <1>2 DEF ItemFor
<1>3. CASE id \in C
  <2>1. /\ c.at = Floor(l.rows[id].at) /\ c.model = l.rows[id].model
        /\ c.session = l.rows[id].session /\ c.class = Class(l.rows[id])
    BY <1>3, CellItem DEF ItemFor
  <2>2. HourOf(c.at) = HourOf(e.at) /\ DayOf(c.at) = DayOf(e.at)
    BY <1>1, <2>1, SameHourAndDay
  <2> HIDE DEF c, e
  <2>3. c.model = e.model /\ c.session = e.session /\ c.class = e.class
    BY <1>1, <2>1
  <2>4. KeyOf(by, c) = KeyOf(by, e)
    BY <2>2, <2>3 DEF KeyOf
  <2>. QED BY <2>3, <2>4 DEF c, e
<1>. QED BY <1>2, <1>3

(* Rows of one cell are of one class and, whatever is grouped by, of one key. *)
OfClass(l, S, class) == {id \in S : EventItem(l, id).class = class}
OfKey(l, S, by, k) == {id \in S : KeyOf(by, EventItem(l, id)) = k}
LEMMA WholeParts ==
    ASSUME NEW l, IsLedger(l), NEW C, NEW S \in SUBSET Ids(l), Whole(l, C, S), NEW by \in SUBSET UsageGroups
    PROVE  /\ \A class : Whole(l, C, OfClass(l, S, class)) /\ OfClass(l, S, class) \in SUBSET Ids(l)
           /\ \A k : Whole(l, C, OfKey(l, S, by, k)) /\ OfKey(l, S, by, k) \in SUBSET Ids(l)
<1>1. ASSUME NEW x \in S \cap C, NEW y \in Ids(l), CellOf(l.rows[y]) = CellOf(l.rows[x])
      PROVE  /\ y \in S \cap C
             /\ EventItem(l, y).class = EventItem(l, x).class
             /\ KeyOf(by, EventItem(l, y)) = KeyOf(by, EventItem(l, x))
  <2>1. y \in S \cap C
    BY <1>1 DEF Whole
  <2>2. ItemFor(l, C, y) = ItemFor(l, C, x)
    BY <1>1, <2>1 DEF ItemFor
  <2>3. /\ ItemFor(l, C, y).class = EventItem(l, y).class
        /\ KeyOf(by, ItemFor(l, C, y)) = KeyOf(by, EventItem(l, y))
    BY CountedAlike
  <2>4. /\ ItemFor(l, C, x).class = EventItem(l, x).class
        /\ KeyOf(by, ItemFor(l, C, x)) = KeyOf(by, EventItem(l, x))
    BY CountedAlike
  <2>. QED BY <2>1, <2>2, <2>3, <2>4
<1>. QED BY <1>1 DEF Whole, OfClass, OfKey

LEMMA SumOfItems ==
    ASSUME NEW l, IsLedger(l), l.rolled = Ids(l), NEW C, NEW S \in SUBSET Ids(l), Whole(l, C, S)
    PROVE  /\ Sum(Items(l, C, S)) = Sum(Items(l, {}, S))
           /\ Sessions(Items(l, C, S)) = Sessions(Items(l, {}, S))
<1> DEFINE Of(class) == OfClass(l, S, class)
<1>1. ASSUME NEW R \in SUBSET Ids(l), Whole(l, C, R), NEW field \in Measures
      PROVE  Measured(Items(l, C, R), field) = Measured(Items(l, {}, R), field)
  <2>1. Whole(l, {}, R)
    BY DEF Whole
  <2>. QED BY <1>1, <2>1, MeasureOfItems
<1>2. ASSUME NEW R \in SUBSET Ids(l), Whole(l, C, R)
      PROVE  /\ EventsOf(Items(l, C, R)) = EventsOf(Items(l, {}, R))
             /\ TokensOf(Items(l, C, R)) = TokensOf(Items(l, {}, R))
             /\ CostOf(Items(l, C, R)) = CostOf(Items(l, {}, R))
  <2>1. "events" \in Measures /\ "tokens" \in Measures /\ "cost" \in Measures
    BY DEF Measures
  <2>2. EventsOf(Items(l, C, R)) = EventsOf(Items(l, {}, R))
    BY <1>1, <1>2, <2>1 DEF EventsOf, SumFunction, Measured
  <2>3. TokensOf(Items(l, C, R)) = TokensOf(Items(l, {}, R))
    BY <1>1, <1>2, <2>1 DEF TokensOf, SumFunction, Measured
  <2>4. CostOf(Items(l, C, R)) = CostOf(Items(l, {}, R))
    BY <1>1, <1>2, <2>1 DEF CostOf, SumFunction, Measured
  <2>. QED BY <2>2, <2>3, <2>4
<1>3. \A D, class : {i \in Items(l, D, S) : i.class = class} = Items(l, D, Of(class))
  <2>1. \A D, id : id \in S => ItemFor(l, D, id).class = EventItem(l, id).class
    <3>1. {} \in SUBSET UsageGroups
      OBVIOUS
    <3>. QED BY <3>1, CountedAlike
  <2>. QED BY <2>1 DEF Items, OfClass
<1>4. \A class : EventsOf(Items(l, C, Of(class))) = EventsOf(Items(l, {}, Of(class)))
  <2>1. \A class : Whole(l, C, Of(class)) /\ Of(class) \in SUBSET Ids(l)
    <3>1. {} \in SUBSET UsageGroups
      OBVIOUS
    <3>. QED BY <3>1, WholeParts
  <2> HIDE DEF Of
  <2>. QED BY <1>2, <2>1
<1>5. {i.session : i \in Items(l, C, S)} = {i.session : i \in Items(l, {}, S)}
  <2>1. \A D : {i.session : i \in Items(l, D, S)} = {EventItem(l, id).session : id \in S}
    <3>1. \A D, id : id \in S => ItemFor(l, D, id).session = EventItem(l, id).session
      <4>1. {} \in SUBSET UsageGroups
        OBVIOUS
      <4>. QED BY <4>1, CountedAlike
    <3>. QED BY <3>1 DEF Items
  <2>. QED BY <2>1
<1>6. Sessions(Items(l, C, S)) = Sessions(Items(l, {}, S))
  BY <1>5 DEF Sessions
<1> HIDE DEF Of
<1>7. /\ EventsOf(Items(l, C, S)) = EventsOf(Items(l, {}, S))
      /\ TokensOf(Items(l, C, S)) = TokensOf(Items(l, {}, S))
      /\ CostOf(Items(l, C, S)) = CostOf(Items(l, {}, S))
  BY <1>2
<1>8. \A class : EventsOf({i \in Items(l, C, S) : i.class = class})
                    = EventsOf({i \in Items(l, {}, S) : i.class = class})
  BY <1>3, <1>4
<1>. QED BY <1>6, <1>7, <1>8 DEF Sum

(* A query answered from cells and rows says what one of the rows alone says. *)
LEMMA BucketsOfItems ==
    ASSUME NEW l, IsLedger(l), l.rolled = Ids(l), NEW C, NEW S \in SUBSET Ids(l), Whole(l, C, S),
           NEW by \in SUBSET UsageGroups
    PROVE  Buckets(Items(l, C, S), by) = Buckets(Items(l, {}, S), by)
<1> DEFINE Of(k) == OfKey(l, S, by, k)
<1>1. \A D, id : id \in S => KeyOf(by, ItemFor(l, D, id)) = KeyOf(by, EventItem(l, id))
  BY CountedAlike
<1>2. \A D, k : {i \in Items(l, D, S) : KeyOf(by, i) = k} = Items(l, D, Of(k))
  BY <1>1 DEF Items, OfKey
<1>3. \A D : {KeyOf(by, i) : i \in Items(l, D, S)} = {KeyOf(by, EventItem(l, id)) : id \in S}
  BY <1>1 DEF Items
<1>4. \A k : Whole(l, C, Of(k)) /\ Of(k) \in SUBSET Ids(l)
  BY WholeParts
<1> HIDE DEF Of
<1>5. \A k : Sum(Items(l, C, Of(k))) = Sum(Items(l, {}, Of(k)))
  BY <1>4, SumOfItems
<1>6. \A k : Sum({i \in Items(l, C, S) : KeyOf(by, i) = k}) = Sum({i \in Items(l, {}, S) : KeyOf(by, i) = k})
  BY <1>2, <1>5
<1>7. {KeyOf(by, i) : i \in Items(l, C, S)} = {KeyOf(by, i) : i \in Items(l, {}, S)}
  BY <1>3
<1>. QED BY <1>6, <1>7 DEF Buckets

(* A window whose ends are quarters holds an event if it holds its quarter.   *)
LEMMA WindowOfQuarters ==
    ASSUME NEW t \in Int, NEW since \in Int \cup {None}, NEW until \in Int \cup {None},
           Aligned(since), Aligned(until)
    PROVE  Within(Floor(t), since, until) <=> Within(t, since, until)
<1>1. Floor(t) \in Int
  BY FloorOf
<1>2. \A n \in {since, until} : n # None => n \in Int /\ (Floor(t) < n <=> t < n)
  BY WholeQuarters DEF Aligned
<1>3. since # None => (Floor(t) >= since <=> t >= since)
  BY <1>1, <1>2
<1>4. until # None => (Floor(t) < until <=> t < until)
  BY <1>2
<1>. QED BY <1>3, <1>4 DEF Within

LEMMA FloorIsAligned ==
    ASSUME NEW t \in Int
    PROVE  Aligned(Floor(t)) /\ Floor(t) # None
<1>1. \A q \in Nat \ {0}, n \in Int : (q * n) % q = 0
  OBVIOUS
<1>2. PICK n \in Int : Floor(t) = Quarter * n
  BY FloorOf
<1>3. Floor(t) % Quarter = 0
  BY <1>1, <1>2, Quarters
<1>4. Floor(t) \in Int
  BY FloorOf
<1>. QED BY <1>3, <1>4, ReaderAssumption DEF Aligned

(* The rows of a window, and those of them the rollup answers for.            *)
InWindow(l, f) == {id \in Ids(l) : buildWhere(f, l.rows[id])}
OfCells(l, f, since, until) ==
    {id \in Ids(l) : Within(Floor(l.rows[id].at), since, until) /\ Chosen(f, l.rows[id])}

LEMMA RowsInWindow ==
    ASSUME NEW l, NEW f
    PROVE  EventItems(l, f) = Items(l, {}, InWindow(l, f))
BY DEF EventItems, Items, InWindow, ItemFor

LEMMA CellsInWindow ==
    ASSUME NEW l, l.rolled = Ids(l), NEW f, NEW since, NEW until
    PROVE  RollupItems(l, f, since, until)
              = Items(l, OfCells(l, f, since, until), OfCells(l, f, since, until))
<1> DEFINE item(id) == RollupItem(l, CellOf(l.rows[id]))
<1>1. \A id \in Ids(l) : /\ item(id).at = Floor(l.rows[id].at)
                         /\ item(id).model = l.rows[id].model
  BY CellItem
<1>2. \A id \in Ids(l) : Chosen(f, item(id)) <=> Chosen(f, l.rows[id])
  BY <1>1 DEF Chosen
<1> HIDE DEF item
<1>3. RollupItems(l, f, since, until)
        = {i \in {item(id) : id \in Ids(l)} : Within(i.at, since, until) /\ Chosen(f, i)}
  BY DEF RollupItems, item
<1>4. \A id \in OfCells(l, f, since, until) : ItemFor(l, OfCells(l, f, since, until), id) = item(id)
  BY DEF ItemFor, item
<1>. QED BY <1>1, <1>2, <1>3, <1>4 DEF OfCells, Items

LEMMA CellsAreWhole ==
    ASSUME NEW l, NEW f, NEW since, NEW until, NEW S, OfCells(l, f, since, until) \subseteq S
    PROVE  Whole(l, OfCells(l, f, since, until), S)
<1>1. ASSUME NEW x \in Ids(l), NEW y \in Ids(l), CellOf(l.rows[y]) = CellOf(l.rows[x])
      PROVE  Floor(l.rows[y].at) = Floor(l.rows[x].at) /\ l.rows[y].model = l.rows[x].model
  BY <1>1 DEF CellOf
<1>. QED BY <1>1 DEF Whole, OfCells, Chosen

(* exactEndingRollupSource: the whole cells and the rows of the last quarter  *)
(* are, between them, the rows of the window.                                 *)
LEMMA RollupSourceCounts ==
    ASSUME NEW l, IsLedger(l), RollupCurrent(l), NEW f, IsFilter(f), Aligned(f.since)
    PROVE  \E C : /\ Whole(l, C, InWindow(l, f))
                  /\ RollupSource(l, f) = Items(l, C, InWindow(l, f))
<1>1. l.rolled = Ids(l)
  BY DEF IsLedger
<1>2. f.since \in Int \cup {None} /\ f.until \in Int \cup {None}
  BY DEF IsFilter
<1>3. \A id \in Ids(l) : l.rows[id].at \in Int
  BY RowItem
<1>4. CASE Aligned(f.until)
  <2> DEFINE C == OfCells(l, f, f.since, f.until)
  <2>1. C = InWindow(l, f)
    BY <1>2, <1>3, <1>4, WindowOfQuarters DEF OfCells, InWindow, buildWhere
  <2>2. RollupSource(l, f) = Items(l, C, C)
    BY <1>1, <1>4, CellsInWindow DEF RollupSource
  <2>3. Whole(l, C, C)
    BY CellsAreWhole
  <2>. QED BY <2>1, <2>2, <2>3
<1>5. CASE ~Aligned(f.until)
  <2> DEFINE boundary == Floor(f.until)
             since == IF f.since = None \/ f.since < boundary THEN boundary ELSE f.since
             C == OfCells(l, f, f.since, boundary)
             R == InWindow(l, [f EXCEPT !.since = since])
  <2>1. f.until \in Int
    BY <1>2, <1>5 DEF Aligned
  <2>2. boundary \in Int /\ boundary <= f.until /\ Aligned(boundary) /\ boundary # None
    BY <2>1, FloorOf, FloorIsAligned
  <2>3. \A id \in Ids(l) : Within(Floor(l.rows[id].at), f.since, boundary) <=> Within(l.rows[id].at, f.since, boundary)
    BY <1>2, <1>3, <2>2, WindowOfQuarters
  <2>4. /\ [f EXCEPT !.since = since].since = since
        /\ [f EXCEPT !.since = since].until = f.until
        /\ [f EXCEPT !.since = since].models = f.models
    BY DEF IsFilter
  <2>5. RollupSource(l, f) = Items(l, C, C) \cup Items(l, {}, R)
    <3>1. RollupSource(l, f) = RollupItems(l, f, f.since, boundary) \cup EventItems(l, [f EXCEPT !.since = since])
      BY <1>5 DEF RollupSource, exactEndingRollupSource
    <3>. QED BY <1>1, <3>1, CellsInWindow, RowsInWindow
  <2>6. \A id \in Ids(l) :
           /\ id \in C <=> Within(l.rows[id].at, f.since, boundary) /\ Chosen(f, l.rows[id])
           /\ id \in R <=> Within(l.rows[id].at, since, f.until) /\ Chosen(f, l.rows[id])
    BY <2>3, <2>4 DEF OfCells, InWindow, buildWhere, Chosen
  <2>7. C \subseteq Ids(l) /\ R \subseteq Ids(l)
    BY DEF OfCells, InWindow
  <2> HIDE DEF C, R, boundary
  <2>8. C \cup R = InWindow(l, f) /\ C \cap R = {}
    <3>1. ASSUME NEW id \in Ids(l)
          PROVE  (Within(l.rows[id].at, f.since, boundary) \/ Within(l.rows[id].at, since, f.until))
                    <=> Within(l.rows[id].at, f.since, f.until)
      BY <1>2, <1>3, <2>1, <2>2, ReaderAssumption DEF Within
    <3>2. ASSUME NEW id \in Ids(l)
          PROVE  ~(Within(l.rows[id].at, f.since, boundary) /\ Within(l.rows[id].at, since, f.until))
      BY <1>2, <1>3, <2>1, <2>2, ReaderAssumption DEF Within
    <3>. QED BY <2>6, <2>7, <3>1, <3>2 DEF InWindow, buildWhere
  <2>9. RollupSource(l, f) = Items(l, C, InWindow(l, f))
    BY <2>5, <2>8 DEF Items, ItemFor
  <2>10. Whole(l, C, InWindow(l, f))
    BY <2>8, CellsAreWhole DEF C
  <2>. QED BY <2>9, <2>10
<1>. QED BY <1>4, <1>5

(* summarizeCurrentRollup and distinctRollupSessions, of a current rollup.    *)
LEMMA RollupAnswers ==
    ASSUME NEW l, IsLedger(l), RollupCurrent(l), NEW f, IsFilter(f), Aligned(f.since)
    PROVE  /\ Buckets(RollupSource(l, f), f.by) = summarizeLedger(l, f)
           /\ distinctRollupSessions(l, f) = distinctSessions(l, f)
<1>1. PICK C : /\ Whole(l, C, InWindow(l, f))
               /\ RollupSource(l, f) = Items(l, C, InWindow(l, f))
  BY RollupSourceCounts
<1>2. EventItems(l, f) = Items(l, {}, InWindow(l, f))
  BY RowsInWindow
<1>3. l.rolled = Ids(l) /\ InWindow(l, f) \in SUBSET Ids(l) /\ f.by \in SUBSET UsageGroups
  BY DEF IsLedger, InWindow, IsFilter
<1>4. Buckets(RollupSource(l, f), f.by) = Buckets(EventItems(l, f), f.by)
  BY <1>1, <1>2, <1>3, BucketsOfItems
<1>5. Sessions(RollupSource(l, f)) = Sessions(EventItems(l, f))
  BY <1>1, <1>2, <1>3, SumOfItems
<1>. QED BY <1>4, <1>5 DEF summarizeLedger, distinctRollupSessions, distinctSessions
-----------------------------------------------------------------------------
(* The ledger while it is read *)

(* What a later ledger has in common with an earlier one.                     *)
Grown(l, m) ==
    /\ Ids(l) \subseteq Ids(m)
    /\ \A id \in Ids(l) : /\ m.rows[id].at = l.rows[id].at
                          /\ m.rows[id].model = l.rows[id].model
                          /\ m.rows[id].session = l.rows[id].session
    /\ RollupCurrent(l) => RollupCurrent(m)

LEMMA GrownTwice ==
    ASSUME NEW l, NEW m, NEW n, Grown(l, m), Grown(m, n)
    PROVE  Grown(l, n)
BY DEF Grown

(* A row, its calls and its contexts.                                         *)
LEMMA CollectGrows ==
    ASSUME IsLedger(ledger), NEW b \in Batches, Collect(b)
    PROVE  IsLedger(ledger') /\ Grown(ledger, ledger')
<1> DEFINE id == Len(ledger.rows) + 1
           calls == {Call(IF b.joined THEN id ELSE None, c[1], c[2], b.row) : c \in b.calls}
           contexts == {Context(id, c[1], c[2], b.row) : c \in b.contexts}
<1>1. IsBatch(b)
  BY ReaderAssumption
<1>2. /\ ledger.rows \in Seq(EventRow) /\ Len(ledger.rows) \in Nat /\ Ids(ledger) = 1 .. Len(ledger.rows)
      /\ id \in Nat /\ b.row \in EventRow
  BY <1>1, LedgerShape DEF IsBatch
<1>3. ledger' = [rows |-> Append(ledger.rows, b.row), rolled |-> ledger.rolled \cup {id}, mark |-> id,
                 calls |-> ledger.calls \cup calls, contexts |-> ledger.contexts \cup contexts]
  BY DEF Collect
<1>4. /\ ledger'.rows \in Seq(EventRow) /\ Len(ledger'.rows) = id /\ Ids(ledger') = 1 .. id
      /\ \A i \in Ids(ledger) : ledger'.rows[i] = ledger.rows[i]
  BY <1>2, <1>3 DEF Ids
<1>5. calls \subseteq CallRow /\ \A c \in calls : c.of \in {id, None}
  <2>1. b.calls \subseteq STRING \X STRING /\ b.row.at \in Int /\ b.row.model \in Model /\ b.row.session \in Session
    BY <1>1, <1>2 DEF IsBatch, EventRow
  <2> HIDE DEF id
  <2>. QED BY <1>2, <2>1 DEF Call, CallRow
<1>6. contexts \subseteq ContextRow /\ \A c \in contexts : c.of = id
  <2>1. b.contexts \subseteq Dimensions \X STRING /\ b.row.at \in Int /\ b.row.model \in Model /\ b.row.session \in Session
    BY <1>1, <1>2 DEF IsBatch, EventRow
  <2> HIDE DEF id
  <2>. QED BY <1>2, <2>1 DEF Context, ContextRow
<1>7. IsFiniteSet(calls) /\ IsFiniteSet(contexts)
  <2> DEFINE call == [c \in b.calls |-> Call(IF b.joined THEN id ELSE None, c[1], c[2], b.row)]
             context == [c \in b.contexts |-> Context(id, c[1], c[2], b.row)]
  <2>1. calls = {call[c] : c \in b.calls} /\ contexts = {context[c] : c \in b.contexts}
    OBVIOUS
  <2>2. IsFiniteSet(b.calls) /\ IsFiniteSet(b.contexts)
    BY <1>1 DEF IsBatch
  <2> HIDE DEF call, context, calls, contexts
  <2>. QED BY <2>1, <2>2, ImageIsFinite
<1>8. \A c, d \in contexts : c.dimension = d.dimension => c = d
  <2>1. \A c, d \in b.contexts : c[1] = d[1] => c = d
    BY <1>1 DEF IsBatch
  <2>. QED BY <2>1 DEF Context
<1> HIDE DEF calls, contexts
<1>9. ledger.rolled = Ids(ledger) /\ RollupCurrent(ledger)
  BY DEF Collect, RollupStale, IsLedger
<1>10. /\ ledger.calls \subseteq CallRow /\ IsFiniteSet(ledger.calls)
       /\ ledger.contexts \subseteq ContextRow /\ IsFiniteSet(ledger.contexts)
       /\ \A c \in ledger.calls : c.of \in Ids(ledger) \cup {None}
       /\ \A c \in ledger.contexts : c.of \in Ids(ledger)
       /\ \A c, d \in ledger.contexts : c.of = d.of /\ c.dimension = d.dimension => c = d
  BY DEF IsLedger
<1>11. ledger'.rolled = Ids(ledger') /\ ledger'.mark = id /\ MaxId(ledger') = id
  BY <1>2, <1>3, <1>4, <1>9 DEF MaxId
<1>12. Grown(ledger, ledger')
  BY <1>2, <1>4, <1>11 DEF Grown, RollupCurrent
<1>13. /\ IsFiniteSet(ledger'.calls) /\ IsFiniteSet(ledger'.contexts)
       /\ ledger'.calls \subseteq CallRow /\ ledger'.contexts \subseteq ContextRow
  BY <1>3, <1>5, <1>6, <1>7, <1>10, FS_Union
<1>14. ledger'.calls = ledger.calls \cup calls /\ ledger'.contexts = ledger.contexts \cup contexts
  BY <1>3
<1>15. Ids(ledger) \subseteq Ids(ledger') /\ id \in Ids(ledger')
  BY <1>2, <1>4
<1> HIDE DEF id
<1>16. /\ \A c \in ledger'.calls : c.of \in Ids(ledger') \cup {None}
       /\ \A c \in ledger'.contexts : c.of \in Ids(ledger')
  BY <1>5, <1>6, <1>10, <1>14, <1>15
<1>17. \A c, d \in ledger'.contexts : c.of = d.of /\ c.dimension = d.dimension => c = d
  <2>1. \A c \in ledger.contexts, d \in contexts : c.of # d.of
    BY <1>2, <1>6, <1>10 DEF id
  <2>. QED BY <1>8, <1>10, <1>14, <2>1
<1>18. ledger' \in [rows : Seq(EventRow), rolled : SUBSET Nat, mark : Nat, calls : SUBSET CallRow, contexts : SUBSET ContextRow]
  <2>1. ledger'.rows \in Seq(EventRow) /\ ledger'.rolled \in SUBSET Nat /\ ledger'.mark \in Nat
    BY <1>2, <1>4, <1>11
  <2>2. ledger' = [rows |-> ledger'.rows, rolled |-> ledger'.rolled, mark |-> ledger'.mark,
                   calls |-> ledger'.calls, contexts |-> ledger'.contexts]
    BY <1>3
  <2>. QED BY <1>13, <2>1, <2>2
<1>. QED BY <1>2, <1>4, <1>11, <1>12, <1>13, <1>16, <1>17, <1>18 DEF IsLedger

LEMMA CollectCallGrows ==
    ASSUME IsLedger(ledger), NEW c \in LateCalls, CollectCall(c)
    PROVE  IsLedger(ledger') /\ Grown(ledger, ledger')
<1>1. c \in CallRow /\ c.of \in Ids(ledger)
  BY ReaderAssumption DEF CollectCall
<1>2. ledger' = [ledger EXCEPT !.calls = @ \cup {c}]
  BY DEF CollectCall
<1>3. /\ ledger'.rows = ledger.rows /\ ledger'.rolled = ledger.rolled /\ ledger'.mark = ledger.mark
      /\ ledger'.contexts = ledger.contexts /\ ledger'.calls = ledger.calls \cup {c}
      /\ ledger' \in [rows : Seq(EventRow), rolled : SUBSET Nat, mark : Nat, calls : SUBSET CallRow, contexts : SUBSET ContextRow]
  BY <1>1, <1>2 DEF IsLedger
<1>4. IsFiniteSet(ledger'.calls)
  <2>1. IsFiniteSet(ledger.calls)
    BY DEF IsLedger
  <2>2. IsFiniteSet(ledger.calls \cup {c})
    BY <2>1, FS_AddElement
  <2>. QED BY <1>3, <2>2
<1>. QED BY <1>1, <1>3, <1>4 DEF IsLedger, Grown, Ids, MaxId, RollupCurrent

LEMMA EnsureRollupGrows ==
    ASSUME IsLedger(ledger), EnsureRollup
    PROVE  IsLedger(ledger') /\ Grown(ledger, ledger')
<1>1. ledger' = [ledger EXCEPT !.rolled = Ids(ledger), !.mark = MaxId(ledger)]
  BY DEF EnsureRollup
<1>2. Ids(ledger) \subseteq Nat /\ MaxId(ledger) \in Nat
  BY LedgerShape DEF MaxId
<1>3. /\ ledger'.rows = ledger.rows /\ ledger'.rolled = Ids(ledger) /\ ledger'.mark = MaxId(ledger)
      /\ ledger'.contexts = ledger.contexts /\ ledger'.calls = ledger.calls
      /\ ledger' \in [rows : Seq(EventRow), rolled : SUBSET Nat, mark : Nat, calls : SUBSET CallRow, contexts : SUBSET ContextRow]
  BY <1>1, <1>2 DEF IsLedger
<1>4. Ids(ledger') = Ids(ledger) /\ MaxId(ledger') = MaxId(ledger)
  BY <1>3 DEF Ids, MaxId
<1>. QED BY <1>2, <1>3, <1>4 DEF IsLedger, Grown, RollupCurrent

LEMMA SyncPricesGrows ==
    ASSUME IsLedger(ledger), SyncPrices
    PROVE  IsLedger(ledger') /\ Grown(ledger, ledger')
<1>1. PICK id \in Ids(ledger) :
         /\ Rate[ledger.rows[id].model] # None
         /\ ledger' = [ledger EXCEPT !.rows[id].cost = ledger.rows[id].tokens * Rate[ledger.rows[id].model],
                                     !.rows[id].computed = TRUE]
  BY DEF SyncPrices
<1> DEFINE row == ledger.rows[id]
           after == [row EXCEPT !.cost = row.tokens * Rate[row.model], !.computed = TRUE]
<1>2. row \in EventRow
  BY LedgerShape
<1>3. row.tokens \in Nat /\ Rate[row.model] \in Nat
  BY <1>1, <1>2, ReaderAssumption DEF EventRow
<1>4. row.tokens * Rate[row.model] \in Nat
  BY <1>3
<1>5. after \in EventRow /\ after.at = row.at /\ after.model = row.model /\ after.session = row.session
  BY <1>2, <1>4 DEF EventRow
<1>6. /\ ledger'.rows = [ledger.rows EXCEPT ![id] = after]
      /\ ledger'.rolled = ledger.rolled /\ ledger'.mark = ledger.mark
      /\ ledger'.contexts = ledger.contexts /\ ledger'.calls = ledger.calls
      /\ ledger' = [ledger EXCEPT !.rows = ledger'.rows]
  BY <1>1 DEF IsLedger
<1> HIDE DEF after
<1>7. /\ ledger'.rows \in Seq(EventRow) /\ Len(ledger'.rows) = Len(ledger.rows)
      /\ \A i \in Ids(ledger) : ledger'.rows[i] = IF i = id THEN after ELSE ledger.rows[i]
  BY <1>5, <1>6, LedgerShape DEF Ids
<1>8. Ids(ledger') = Ids(ledger) /\ MaxId(ledger') = MaxId(ledger)
  BY <1>6, <1>7 DEF Ids, MaxId
<1>9. ledger' \in [rows : Seq(EventRow), rolled : SUBSET Nat, mark : Nat, calls : SUBSET CallRow, contexts : SUBSET ContextRow]
  BY <1>6, <1>7 DEF IsLedger
<1>10. IsLedger(ledger')
  BY <1>6, <1>8, <1>9 DEF IsLedger, RollupCurrent
<1>11. Grown(ledger, ledger')
  BY <1>5, <1>6, <1>7, <1>8 DEF Grown, RollupCurrent
<1>. QED BY <1>10, <1>11

(* What the collector does.                                                   *)
Collecting ==
    \/ \E b \in Batches : Collect(b)
    \/ \E c \in LateCalls : CollectCall(c)
    \/ EnsureRollup \/ SyncPrices

LEMMA CollectingGrows ==
    ASSUME IsLedger(ledger), Collecting
    PROVE  IsLedger(ledger') /\ Grown(ledger, ledger') /\ UNCHANGED reader
<1>1. UNCHANGED reader
  BY DEF Collecting, Collect, CollectCall, EnsureRollup, SyncPrices
<1>. QED BY <1>1, CollectGrows, CollectCallGrows, EnsureRollupGrows, SyncPricesGrows DEF Collecting

(* No bucket has more sessions than a later count of all of them.             *)
LEMMA SessionsGrow ==
    ASSUME NEW l, IsLedger(l), NEW m, IsLedger(m), Grown(l, m), NEW f,
           NEW k \in Keys(summarizeLedger(l, f))
    PROVE  summarizeLedger(l, f)[k].sessions <= distinctSessions(m, f)
<1> DEFINE some == {i \in EventItems(l, f) : KeyOf(f.by, i) = k}
           A == {i.session : i \in some} \ {None}
           B == {i.session : i \in EventItems(m, f)} \ {None}
<1>1. summarizeLedger(l, f)[k].sessions = Cardinality(A)
  BY DEF summarizeLedger, Buckets, Keys, Sum, Sessions
<1>2. distinctSessions(m, f) = Cardinality(B)
  BY DEF distinctSessions, Sessions
<1>3. A \subseteq B
  <2>1. ASSUME NEW id \in InWindow(l, f)
        PROVE  id \in InWindow(m, f) /\ EventItem(m, id).session = EventItem(l, id).session
    <3>1. id \in Ids(l) /\ id \in Ids(m) /\ buildWhere(f, l.rows[id])
      BY DEF InWindow, Grown
    <3>2. m.rows[id].at = l.rows[id].at /\ m.rows[id].model = l.rows[id].model /\ m.rows[id].session = l.rows[id].session
      BY <3>1 DEF Grown
    <3>3. buildWhere(f, m.rows[id])
      BY <3>1, <3>2 DEF buildWhere, Chosen
    <3>. QED BY <3>1, <3>2, <3>3, RowItem DEF InWindow
  <2>2. EventItems(l, f) = {EventItem(l, id) : id \in InWindow(l, f)}
    BY DEF EventItems, InWindow
  <2>3. EventItems(m, f) = {EventItem(m, id) : id \in InWindow(m, f)}
    BY DEF EventItems, InWindow
  <2>. QED BY <2>1, <2>2, <2>3
<1>4. IsFiniteSet(B)
  <2> DEFINE h == [id \in InWindow(m, f) |-> EventItem(m, id).session]
             S == InWindow(m, f)
             I == {h[id] : id \in S}
  <2>1. {i.session : i \in EventItems(m, f)} = I
    BY DEF EventItems, InWindow
  <2>2. IsFiniteSet(S)
    BY LedgerShape, FS_Subset DEF InWindow
  <2> HIDE DEF h, S
  <2>3. IsFiniteSet(I)
    BY <2>2, ImageIsFinite
  <2>4. B \subseteq I
    BY <2>1
  <2> HIDE DEF I, B
  <2>. QED BY <2>3, <2>4, FS_Subset
<1> HIDE DEF A, B
<1>. QED BY <1>1, <1>2, <1>3, <1>4, FS_Subset
-----------------------------------------------------------------------------
(* What is asked *)

IsSeq(s) == s \in Seq({s[i] : i \in DOMAIN s})

LEMMA SeqFacts ==
    ASSUME NEW s, IsSeq(s)
    PROVE  Len(s) \in Nat /\ DOMAIN s = 1 .. Len(s)
BY DEF IsSeq

LEMMA SeqAppend ==
    ASSUME NEW s, IsSeq(s), NEW x
    PROVE  /\ IsSeq(Append(s, x)) /\ Len(Append(s, x)) = Len(s) + 1
           /\ \A i \in DOMAIN s : Append(s, x)[i] = s[i]
           /\ Append(s, x)[Len(s) + 1] = x
<1> DEFINE A == {s[i] : i \in DOMAIN s}
           t == Append(s, x)
<1>1. s \in Seq(A \cup {x}) /\ x \in A \cup {x} /\ Len(s) \in Nat /\ DOMAIN s = 1 .. Len(s)
  BY DEF IsSeq
<1> HIDE DEF A
<1>2. /\ t \in Seq(A \cup {x}) /\ Len(t) = Len(s) + 1
      /\ \A i \in 1 .. Len(s) : t[i] = s[i]
      /\ t[Len(s) + 1] = x
  BY <1>1, AppendProperties
<1> HIDE DEF t
<1>3. DOMAIN t = 1 .. Len(t) /\ t \in Seq({t[i] : i \in DOMAIN t})
  BY <1>2
<1>. QED BY <1>1, <1>2, <1>3 DEF IsSeq, t

(* A question of the ledger's usage has a filter of the usage; a row is       *)
(* selected for the third.                                                    *)
Filtered == {"sum", "snapped", "selected", "groups", "pages"}
IsAsk(a, i) == /\ a.what \in Filtered => IsFilter(a.f)
               /\ a.what = "selected" => i = 3

AreAsks(asks) == IsSeq(asks) /\ \A i \in DOMAIN asks : IsAsk(asks[i], i)

LEMMA AsksAdded ==
    ASSUME NEW s, AreAsks(s), NEW t, IsSeq(t),
           \A i \in DOMAIN t : IsAsk(t[i], Len(s) + i)
    PROVE  AreAsks(s \o t)
<1> DEFINE A == {s[i] : i \in DOMAIN s} \cup {t[i] : i \in DOMAIN t}
           u == s \o t
<1>1. /\ s \in Seq(A) /\ Len(s) \in Nat /\ DOMAIN s = 1 .. Len(s)
      /\ t \in Seq(A) /\ Len(t) \in Nat /\ DOMAIN t = 1 .. Len(t)
  BY DEF AreAsks, IsSeq
<1> HIDE DEF A
<1>2. /\ u \in Seq(A) /\ Len(u) = Len(s) + Len(t)
      /\ \A i \in 1 .. Len(s) + Len(t) : u[i] = IF i <= Len(s) THEN s[i] ELSE t[i - Len(s)]
  BY <1>1, ConcatProperties
<1> HIDE DEF u
<1>3. DOMAIN u = 1 .. Len(u) /\ IsSeq(u)
  BY <1>2 DEF IsSeq
<1>4. ASSUME NEW i \in DOMAIN u PROVE IsAsk(u[i], i)
  <2>1. CASE i <= Len(s)
    BY <1>1, <1>2, <1>3, <2>1 DEF AreAsks
  <2>2. CASE i > Len(s)
    <3> DEFINE j == i - Len(s)
    <3>1. j \in DOMAIN t /\ i = Len(s) + j /\ u[i] = t[j]
      BY <1>1, <1>2, <1>3, <2>2
    <3>. QED BY <3>1
  <2>. QED BY <1>1, <1>2, <1>3, <2>1, <2>2
<1>. QED BY <1>3, <1>4 DEF AreAsks, u

LEMMA OneAsk ==
    ASSUME NEW a
    PROVE  /\ IsSeq(<<a>>) /\ Len(<<a>>) = 1 /\ DOMAIN <<a>> = {1} /\ <<a>>[1] = a
           /\ IsSeq(<< >>) /\ Len(<< >>) = 0 /\ DOMAIN << >> = {}
BY DEF IsSeq

LEMMA OneIsAsked ==
    ASSUME NEW a, IsAsk(a, 1)
    PROVE  AreAsks(<<a>>) /\ Len(<<a>>) = 1
BY DEF AreAsks, IsSeq

LEMMA TwoAsks ==
    ASSUME NEW a, IsAsk(a, 1), NEW b, IsAsk(b, 2)
    PROVE  AreAsks(<<a, b>>) /\ Len(<<a, b>>) = 2
BY DEF AreAsks, IsSeq

LEMMA ThreeAsks ==
    ASSUME NEW a, IsAsk(a, 1), NEW b, IsAsk(b, 2), NEW c, IsAsk(c, 3)
    PROVE  AreAsks(<<a, b, c>>) /\ Len(<<a, b, c>>) = 3
BY DEF AreAsks, IsSeq

(* What the windows of a screen and of a page are.                            *)
LEMMA Spans ==
    ASSUME NEW now \in Int
    PROVE  /\ Midnight(now) \in Int /\ RangeStart(now) \in Int /\ DayStart(now) \in Int
           /\ \A range \in {"today", "week", "all"} :
                 /\ spanDays(range) \in Nat
                 /\ range # "all" => spanDays(range) # 0 /\ LiveSince(range, now) \in Int
                 /\ range = "all" => spanDays(range) = 0 /\ LiveSince(range, now) = None
<1>1. /\ Hour \in Nat \ {0} /\ Day \in Nat \ {0} /\ Offset \in Nat
  BY Quarters, ClockAssumption
<1>2. DayOf(now) \in Int
  BY <1>1 DEF DayOf
<1>3. Midnight(now) \in Int
  BY <1>1, <1>2 DEF Midnight
<1>4. SpanDays \in Nat /\ WeekDays \in Nat \ {0}
  BY ReaderAssumption, ScreenAssumption
<1>5. RangeStart(now) \in Int
  BY <1>1, <1>3, <1>4 DEF RangeStart
<1>6. DayStart(now) \in Int
  BY <1>1 DEF DayStart, Bars
<1>7. ASSUME NEW range \in {"today", "week", "all"}
      PROVE  /\ spanDays(range) \in Nat
             /\ range # "all" => spanDays(range) # 0 /\ LiveSince(range, now) \in Int
             /\ range = "all" => spanDays(range) = 0 /\ LiveSince(range, now) = None
  <2>1. /\ spanDays(range) \in Nat
        /\ range # "all" => spanDays(range) # 0
        /\ range = "all" => spanDays(range) = 0
    BY <1>4 DEF spanDays
  <2>2. (spanDays(range) - 1) * Day \in Int
    BY <1>1, <2>1
  <2>3. Midnight(now) - (spanDays(range) - 1) * Day \in Int
    BY <1>3, <2>2
  <2>. QED BY <2>1, <2>3 DEF LiveSince
<1>. QED BY <1>3, <1>5, <1>6, <1>7

LEMMA Windows ==
    ASSUME NEW now \in Int, NEW range \in {"today", "week", "all"}, NEW step \in Nat
    PROVE  /\ Window(range, step, now).since \in Int \cup {None}
           /\ Window(range, step, now).until \in Int \cup {None}
<1> DEFINE base == LiveSince(range, now)
           days == spanDays(range) * Day
<1>1. days \in Int /\ (days # 0 => base \in Int) /\ base \in Int \cup {None}
  BY Spans, Quarters
<1>2. base = LiveSince(range, now) /\ days = spanDays(range) * Day
  OBVIOUS
<1> HIDE DEF base, days
<1>3. days # 0 => base - days * step \in Int /\ base - days * (step - 1) \in Int
  BY <1>1
<1>4. Window(range, step, now) = IF step = 0 \/ days = 0 THEN [since |-> base, until |-> None]
                                 ELSE [since |-> base - days * step, until |-> base - days * (step - 1)]
  BY <1>2 DEF Window
<1>. QED BY <1>1, <1>3, <1>4

LEMMA FiltersAre ==
    ASSUME NEW since \in Int \cup {None}, NEW until \in Int \cup {None}, NEW by \in SUBSET UsageGroups
    PROVE  IsFilter(Filter(since, until, by))
BY DEF IsFilter, Filter

LEMMA ScreenFilters ==
    ASSUME NEW now \in Int, NEW range \in {"today", "week", "all"}, NEW step \in Nat
    PROVE  /\ \A by \in SUBSET UsageGroups : IsFilter(filterFor(range, step, now, by))
           /\ prevWindow(range, step, now) # None => IsFilter(prevWindow(range, step, now))
           /\ timelineDim(range) \in UsageGroups
<1>1. ASSUME NEW by \in SUBSET UsageGroups PROVE IsFilter(filterFor(range, step, now, by))
  BY Windows, FiltersAre DEF filterFor
<1>2. ASSUME prevWindow(range, step, now) # None PROVE IsFilter(prevWindow(range, step, now))
  <2>1. range # "all"
    BY <1>2 DEF prevWindow
  <2>2. step + 1 \in Nat /\ {} \in SUBSET UsageGroups
    OBVIOUS
  <2>3. CASE step > 0
    <3>1. prevWindow(range, step, now) = Filter(Window(range, step + 1, now).since, Window(range, step + 1, now).until, {})
      BY <2>1, <2>3 DEF prevWindow
    <3>. QED BY <2>2, <3>1, Windows, FiltersAre
  <2>4. CASE ~(step > 0)
    <3> DEFINE days == spanDays(range) * Day
    <3>1. days \in Int /\ LiveSince(range, now) \in Int
      BY <2>1, Spans, Quarters
    <3>2. prevWindow(range, step, now) = Filter(LiveSince(range, now) - days, now - days, {})
      BY <2>1, <2>4 DEF prevWindow
    <3> HIDE DEF days
    <3>. QED BY <2>2, <3>1, <3>2, FiltersAre
  <2>. QED BY <2>3, <2>4
<1>3. timelineDim(range) \in UsageGroups
  BY DEF timelineDim, UsageGroups
<1>. QED BY <1>1, <1>2, <1>3

LEMMA AskedOf ==
    ASSUME NEW what, NEW f, NEW i, what \in Filtered => IsFilter(f), what = "selected" => i = 3
    PROVE  /\ IsAsk(Asking(what, f), i) /\ Asking(what, f).what = what /\ Asking(what, f).f = f
BY DEF IsAsk, Asking

LEMMA RankingOf ==
    ASSUME NEW what, what \notin Filtered, NEW f, NEW dim, NEW order, NEW i
    PROVE  IsAsk(Ranking(what, f, dim, order), i)
BY DEF IsAsk, Ranking, Filtered

(* Every reader asks what can be answered.                                    *)
LEMMA ReadersAsk ==
    ASSUME NEW q \in Questions
    PROVE  AreAsks(AsksOf(q))
<1>1. IsQuestion(q) /\ q.now \in Int
  BY ReaderAssumption DEF IsQuestion
<1>2. \A f, i, what : IsFilter(f) /\ what # "selected" => IsAsk(Asking(what, f), i)
  BY DEF IsAsk, Asking
<1>3. IsFilter(Everything)
  BY FiltersAre DEF Everything
<1>4. \A what \in {"watermark", "last", "stale"} : \A f, i : IsAsk(Asking(what, f), i)
  BY DEF IsAsk, Asking, Filtered
<1>5. \A what \in {"turns", "topturns", "calls", "topcalls"} : \A f, dim, order, i :
          IsAsk(Ranking(what, f, dim, order), i) /\ IsAsk(Asking(what, f), i)
  BY DEF IsAsk, Asking, Ranking, Filtered
<1>6. CASE q.kind = "summary"
  <2>1. IsFilter(q.f)
    BY <1>1, <1>6 DEF IsQuestion
  <2>2. AsksOf(q) = <<Asking("sum", q.f), Asking("groups", q.f)>>
    BY <1>6 DEF AsksOf, SummaryAsks
  <2>. QED BY <1>2, <2>1, <2>2, TwoAsks
<1>7. CASE q.kind = "export"
  <2>1. IsFilter(q.f)
    BY <1>1, <1>7 DEF IsQuestion
  <2>2. AsksOf(q) = <<Asking("pages", q.f)>>
    BY <1>7 DEF AsksOf
  <2>. QED BY <1>2, <2>1, <2>2, OneIsAsked
<1>8. CASE q.kind = "usage"
  <2>1. IsFilter(Filter(RangeStart(q.now), q.now, {"model"})) /\ IsFilter(Filter(RangeStart(q.now), q.now, {"model", "day"}))
    BY <1>1, Spans, FiltersAre DEF UsageGroups
  <2>2. AsksOf(q) = <<Asking("stale", Everything), Asking("snapped", Filter(RangeStart(q.now), q.now, {"model"})),
                      Asking("snapped", Filter(RangeStart(q.now), q.now, {"model", "day"}))>>
    BY <1>8 DEF AsksOf, UsageAsks
  <2>. QED BY <1>2, <1>4, <2>1, <2>2, ThreeAsks
<1>9. CASE q.kind = "turns"
  <2>1. IsFilter(Filter(RangeStart(q.now), q.now, {}))
    BY <1>1, Spans, FiltersAre
  <2>2. AsksOf(q) = <<TurnsBy(q.now, q.dim, {"value"}), TurnsInAll(q.now), TurnsBy(q.now, q.dim, {"value", "day"})>>
    BY <1>9 DEF AsksOf, TurnAsks
  <2>3. \A i, by : IsAsk(TurnsBy(q.now, q.dim, by), i)
    BY RankingOf DEF TurnsBy, Filtered
  <2>4. IsAsk(TurnsInAll(q.now), 2)
    BY <1>2, <2>1 DEF TurnsInAll
  <2>. QED BY <2>2, <2>3, <2>4, ThreeAsks
<1>10. CASE q.kind = "now"
  <2>1. IdleAfter \in Nat /\ Hour \in Nat /\ Day \in Nat
    BY ReaderAssumption, Quarters
  <2>2. /\ IsFilter(Filter(q.now - Hour, q.now, {"model"})) /\ IsFilter(Filter(Midnight(q.now), q.now, {"model"}))
        /\ IsFilter(Filter(DayStart(q.now), q.now, {"model", "hour"})) /\ IsFilter(Filter(q.now - Day, q.now, {"model"}))
        /\ IsFilter(Filter(q.now - IdleAfter, q.now, {}))
    BY <1>1, <2>1, Spans, FiltersAre DEF UsageGroups
  <2>3. /\ IsSeq(NowSums(q.now)) /\ \A i \in DOMAIN NowSums(q.now) : IsAsk(NowSums(q.now)[i], i + 1)
    BY <1>2, <1>4, <2>2 DEF NowSums, IsSeq
  <2>4. AreAsks(<<Asking("watermark", Everything)>>) /\ Len(<<Asking("watermark", Everything)>>) = 1
    BY <1>4, OneIsAsked
  <2>5. AreAsks(<<Asking("watermark", Everything)>> \o NowSums(q.now))
    <3> DEFINE s == <<Asking("watermark", Everything)>>
               t == NowSums(q.now)
    <3>1. AreAsks(s) /\ Len(s) = 1 /\ IsSeq(t)
      BY <2>3, <2>4
    <3>2. \A i \in DOMAIN t : IsAsk(t[i], Len(s) + i)
      <4>1. \A i \in DOMAIN t : IsAsk(t[i], i + 1) /\ i \in Nat
        BY <2>3, SeqFacts
      <4> HIDE DEF s, t
      <4>2. \A i \in Nat : Len(s) + i = i + 1
        BY <3>1
      <4>. QED BY <4>1, <4>2
    <3> HIDE DEF s, t
    <3>3. AreAsks(s \o t)
      BY <3>1, <3>2, AsksAdded
    <3>. QED BY <3>3 DEF s, t
  <2>6. AsksOf(q) = (<<Asking("watermark", Everything)>> \o NowSums(q.now)) \o <<Asking("last", Everything)>>
    BY <1>10 DEF AsksOf, NowAsks
  <2>7. AreAsks((<<Asking("watermark", Everything)>> \o NowSums(q.now)) \o <<Asking("last", Everything)>>)
    BY <1>4, <2>5, AsksAdded, OneAsk
  <2>. QED BY <2>6, <2>7
<1>. USE DEF UsageGroups
<1>11. CASE q.kind = "overview"
  <2>1. q.range \in {"today", "week", "all"} /\ q.step \in Nat
    BY <1>1, <1>11 DEF IsQuestion
  <2> DEFINE dim == timelineDim(q.range)
             prev == prevWindow(q.range, q.step, q.now)
             sum(by) == Asking("sum", filterFor(q.range, q.step, q.now, by))
             first == <<sum({dim}), sum({"model"}), sum({dim, "model"})>>
             more == IF prev = None THEN <<>> ELSE <<Asking("sum", prev)>>
  <2>2. AsksOf(q) = first \o more
    BY <1>11 DEF AsksOf, OverviewAsks
  <2>3. dim \in UsageGroups /\ (prev # None => IsFilter(prev))
    BY <1>1, <2>1, ScreenFilters
  <2>4. \A by \in SUBSET UsageGroups : IsFilter(filterFor(q.range, q.step, q.now, by))
    BY <1>1, <2>1, ScreenFilters
  <2>5. AreAsks(first)
    <3>1. {dim} \in SUBSET UsageGroups /\ {"model"} \in SUBSET UsageGroups /\ {dim, "model"} \in SUBSET UsageGroups
      BY <2>3
    <3>2. \A i : IsAsk(sum({dim}), i) /\ IsAsk(sum({"model"}), i) /\ IsAsk(sum({dim, "model"}), i)
      BY <1>2, <2>4, <3>1
    <3> HIDE DEF sum
    <3>. QED BY <3>2, ThreeAsks
  <2>6. IsSeq(more) /\ \A n : \A i \in DOMAIN more : IsAsk(more[i], n)
    BY <1>2, <2>3, OneAsk
  <2> HIDE DEF first, more
  <2>. QED BY <2>2, <2>5, <2>6, AsksAdded
<1>12. CASE q.kind = "list"
  <2>1. q.range \in {"today", "week", "all"} /\ q.step \in Nat /\ q.dim \in UsageGroups
    BY <1>1, <1>12 DEF IsQuestion
  <2> DEFINE f(by) == filterFor(q.range, q.step, q.now, by)
             first == <<Asking("sum", f({q.dim})), Asking("sum", f({}))>>
             more == IF q.dim = "model" THEN <<Asking("selected", f({timelineDim(q.range)}))>> ELSE <<>>
  <2>2. AsksOf(q) = first \o more
    BY <1>12 DEF AsksOf, ListAsks, BrowseAsks
  <2>3. timelineDim(q.range) \in UsageGroups
    BY <1>1, <2>1, ScreenFilters
  <2>4. \A by \in SUBSET UsageGroups : IsFilter(f(by))
    BY <1>1, <2>1, ScreenFilters
  <2> HIDE DEF f
  <2>5. AreAsks(first) /\ Len(first) = 2
    <3>1. {q.dim} \in SUBSET UsageGroups /\ {} \in SUBSET UsageGroups
      BY <2>1
    <3>2. \A i : IsAsk(Asking("sum", f({q.dim})), i) /\ IsAsk(Asking("sum", f({})), i)
      BY <1>2, <2>4, <3>1
    <3>. QED BY <3>2, TwoAsks
  <2>6. IsSeq(more) /\ \A i \in DOMAIN more : IsAsk(more[i], 2 + i)
    <3>1. IsFilter(f({timelineDim(q.range)}))
      BY <2>3, <2>4
    <3>2. IsAsk(Asking("selected", f({timelineDim(q.range)})), 3)
      BY <3>1, AskedOf
    <3>. QED BY <3>2, OneAsk
  <2> HIDE DEF first, more
  <2>. QED BY <2>2, <2>5, <2>6, AsksAdded
<1>13. CASE q.kind = "activity"
  <2>1. AsksOf(q) = PivotAsks(q.dim, q.range, q.step, q.now, q.sort)
    BY <1>13 DEF AsksOf
  <2>. QED BY <1>5, <2>1, ThreeAsks DEF PivotAsks, CallAsks, ContextAsks
<1>14. CASE q.kind = "nothing"
  BY <1>14 DEF AsksOf, AreAsks, IsSeq
<1>. QED BY <1>1, <1>6, <1>7, <1>8, <1>9, <1>10, <1>11, <1>12, <1>13, <1>14 DEF IsQuestion
-----------------------------------------------------------------------------
(* A summary says what its rows said *)

IsReader(r) ==
    /\ r = [kind |-> r.kind, now |-> r.now, asks |-> r.asks, answers |-> r.answers, began |-> r.began,
            then |-> r.then, part |-> r.part, got |-> r.got]
    /\ AreAsks(r.asks) /\ IsSeq(r.answers) /\ Len(r.answers) <= Len(r.asks)

(* An answer to a sum, of the ledger it is an answer of.                      *)
Exact(a, l, f) ==
    /\ a.buckets = summarizeLedger(l, f)
    /\ f.by # {} => \A k \in Keys(a.buckets) : a.buckets[k].sessions <= a.sessions

(* The last answer; what is found and not yet answered, and the rollup it was *)
(* found in.                                                                  *)
LastExact(r) ==
    LET i == Len(r.answers)
    IN i > 0 /\ r.asks[i].what = "sum" /\ r.answers[i] # None => Exact(r.answers[i], r.then, r.asks[i].f)
FoundExact(r, l) ==
    r.part \in {"rollup", "scan"} =>
        /\ IsLedger(r.got.at) /\ Grown(r.got.at, l)
        /\ r.got.buckets = summarizeLedger(r.got.at, r.asks[Len(r.answers) + 1].f)
        /\ r.part = "rollup" => RollupCurrent(r.got.at) /\ Aligned(r.asks[Len(r.answers) + 1].f.since)

SummaryInv == IsLedger(ledger) /\ IsReader(reader) /\ LastExact(reader) /\ FoundExact(reader, ledger)

LEMMA LastIsSummary == SummaryInv => SummaryExact
BY DEF SummaryInv, LastExact, Exact, SummaryExact

(* Whatever is asked next has a filter, and is a sum only where a sum is      *)
(* answered.                                                                  *)
LEMMA AskedNow ==
    ASSUME SummaryInv, ~Done
    PROVE  /\ Len(reader.answers) \in Nat /\ Len(reader.answers) + 1 \in DOMAIN reader.asks
           /\ IsAsk(Asked, Len(reader.answers) + 1)
           /\ Asked.what = "sum" => What = "sum"
           /\ What \in {"selected", "pages"} => Asked.what = What
           /\ What = "sum" => IsFilter(Asked.f)
<1>1. /\ Len(reader.answers) \in Nat /\ Len(reader.asks) \in Nat /\ DOMAIN reader.asks = 1 .. Len(reader.asks)
      /\ Len(reader.answers) <= Len(reader.asks) /\ Len(reader.answers) # Len(reader.asks)
  BY SeqFacts DEF SummaryInv, IsReader, AreAsks, Done
<1>2. Len(reader.answers) + 1 \in DOMAIN reader.asks
  BY <1>1
<1>3. IsAsk(Asked, Len(reader.answers) + 1)
  BY <1>2 DEF SummaryInv, IsReader, AreAsks, Asked
<1>. QED BY <1>1, <1>2, <1>3 DEF What, IsAsk, Filtered

(* An answer.                                                                 *)
LEMMA AnswerIsExact ==
    ASSUME SummaryInv, ~Done, NEW a, NEW at, Answered(a, at), UNCHANGED ledger,
           Asked.what = "sum" /\ a # None => Exact(a, at, Asked.f)
    PROVE  SummaryInv'
<1> DEFINE n == Len(reader.answers)
<1>1. /\ reader'.kind = reader.kind /\ reader'.asks = reader.asks /\ reader'.answers = Append(reader.answers, a)
      /\ reader'.then = at /\ reader'.part = "first" /\ reader'.got = None
      /\ reader' = [kind |-> reader'.kind, now |-> reader'.now, asks |-> reader'.asks, answers |-> reader'.answers,
                    began |-> reader'.began, then |-> reader'.then, part |-> reader'.part, got |-> reader'.got]
  BY DEF SummaryInv, IsReader, Answered
<1>2. /\ n \in Nat /\ Len(reader.asks) \in Nat /\ n < Len(reader.asks) /\ IsSeq(reader.answers) /\ AreAsks(reader.asks)
  BY AskedNow, SeqFacts DEF SummaryInv, IsReader, AreAsks, Done
<1>3. IsSeq(reader'.answers) /\ Len(reader'.answers) = n + 1 /\ reader'.answers[n + 1] = a
  BY <1>1, <1>2, SeqAppend
<1>4. IsReader(reader')
  BY <1>1, <1>2, <1>3 DEF IsReader
<1>5. LastExact(reader')
  BY <1>1, <1>2, <1>3 DEF LastExact, Asked
<1>. QED BY <1>1, <1>4, <1>5 DEF SummaryInv, FoundExact

(* An answer that is of no sum.                                               *)
LEMMA OtherAnswer ==
    ASSUME SummaryInv, NEW what, what # "sum", NEW parts, At(what, parts), NEW a, NEW at, Answered(a, at), UNCHANGED ledger
    PROVE  SummaryInv'
BY AskedNow, AnswerIsExact DEF At

(* What is answered stays, whatever part a reader goes on to.                 *)
LEMMA GoingOn ==
    ASSUME SummaryInv, NEW part, Goes(part), part \notin {"rollup", "scan"}, UNCHANGED ledger
    PROVE  SummaryInv'
<1>1. /\ reader'.asks = reader.asks /\ reader'.answers = reader.answers /\ reader'.then = reader.then /\ reader'.part = part
      /\ reader' = [kind |-> reader'.kind, now |-> reader'.now, asks |-> reader'.asks, answers |-> reader'.answers,
                    began |-> reader'.began, then |-> reader'.then, part |-> reader'.part, got |-> reader'.got]
  BY DEF SummaryInv, IsReader, Goes
<1>. QED BY <1>1 DEF SummaryInv, IsReader, LastExact, FoundExact

LEMMA CountedIsExact ==
    ASSUME SummaryInv, ~Done, What = "sum", NEW from \in {"rollup", "scan"}, UNCHANGED ledger,
           from = "rollup" => RollupCurrent(ledger) /\ Aligned(Asked.f.since),
           Counted(summarizeLedger(ledger, Asked.f), from)
    PROVE  SummaryInv'
<1> DEFINE b == summarizeLedger(ledger, Asked.f)
<1>1. CASE Asked.f.by = {} \/ Keys(b) = {}
  <2>1. Answered([buckets |-> b, sessions |-> 0], ledger)
    BY <1>1 DEF Counted
  <2>2. Exact([buckets |-> b, sessions |-> 0], ledger, Asked.f)
    BY <1>1 DEF Exact
  <2>. QED BY <2>1, <2>2, AnswerIsExact
<1>2. CASE ~(Asked.f.by = {} \/ Keys(b) = {})
  <2>1. reader' = [reader EXCEPT !.part = from, !.got = [buckets |-> b, at |-> ledger]]
    BY <1>2 DEF Counted
  <2>2. /\ reader'.asks = reader.asks /\ reader'.answers = reader.answers /\ reader'.then = reader.then /\ reader'.part = from
        /\ reader'.got.buckets = b /\ reader'.got.at = ledger
        /\ reader' = [kind |-> reader'.kind, now |-> reader'.now, asks |-> reader'.asks, answers |-> reader'.answers,
                      began |-> reader'.began, then |-> reader'.then, part |-> reader'.part, got |-> reader'.got]
    BY <2>1 DEF SummaryInv, IsReader
  <2>3. IsReader(reader') /\ LastExact(reader')
    BY <2>2 DEF SummaryInv, IsReader, LastExact
  <2>4. FoundExact(reader', ledger)
    BY <2>2 DEF SummaryInv, FoundExact, Asked, Grown
  <2>. QED BY <2>3, <2>4 DEF SummaryInv
<1>. QED BY <1>1, <1>2

LEMMA AskRollupIsExact == ASSUME SummaryInv, AskRollup PROVE SummaryInv'
<1> DEFINE a == summarizeCurrentRollup(ledger, Asked.f)
<1>1. ~Done /\ What = "sum" /\ Aligned(Asked.f.since) /\ UNCHANGED ledger /\ IsLedger(ledger) /\ IsFilter(Asked.f)
  BY AskedNow DEF AskRollup, At, SummaryInv
<1>2. CASE ~a.current
  BY <1>1, <1>2, GoingOn DEF AskRollup
<1>3. CASE a.current
  <2>1. RollupCurrent(ledger)
    BY <1>3 DEF summarizeCurrentRollup
  <2>2. a.buckets = Buckets(RollupSource(ledger, Asked.f), Asked.f.by)
    BY <2>1 DEF summarizeCurrentRollup
  <2>3. a.buckets = summarizeLedger(ledger, Asked.f)
    BY <1>1, <2>1, <2>2, RollupAnswers
  <2>. QED BY <1>1, <1>3, <2>1, <2>3, CountedIsExact DEF AskRollup
<1>. QED BY <1>2, <1>3

LEMMA AskEventsIsExact == ASSUME SummaryInv, AskEvents PROVE SummaryInv'
<1>1. ~Done /\ What = "sum" /\ UNCHANGED ledger
  BY DEF AskEvents, At
<1>. QED BY <1>1, CountedIsExact DEF AskEvents

LEMMA CountSessionsIsExact == ASSUME SummaryInv, CountSessions PROVE SummaryInv'
<1> DEFINE n == IF reader.part = "rollup" THEN distinctRollupSessions(ledger, Asked.f)
                ELSE distinctSessions(ledger, Asked.f)
           a == [buckets |-> reader.got.buckets, sessions |-> n]
<1>1. /\ ~Done /\ What = "sum" /\ reader.part \in {"rollup", "scan"} /\ UNCHANGED ledger
      /\ IsLedger(ledger) /\ IsFilter(Asked.f) /\ Answered(a, reader.got.at)
  BY AskedNow DEF CountSessions, At, SummaryInv
<1>2. /\ IsLedger(reader.got.at) /\ Grown(reader.got.at, ledger)
      /\ reader.got.buckets = summarizeLedger(reader.got.at, Asked.f)
      /\ reader.part = "rollup" => RollupCurrent(reader.got.at) /\ Aligned(Asked.f.since)
  BY <1>1 DEF SummaryInv, FoundExact, Asked
<1>3. n = distinctSessions(ledger, Asked.f)
  <2>1. CASE reader.part = "rollup"
    <3>1. RollupCurrent(ledger) /\ Aligned(Asked.f.since)
      BY <1>2, <2>1 DEF Grown
    <3>. QED BY <1>1, <2>1, <3>1, RollupAnswers
  <2>. QED BY <2>1
<1>4. Exact(a, reader.got.at, Asked.f)
  BY <1>1, <1>2, <1>3, SessionsGrow DEF Exact
<1>. QED BY <1>1, <1>4, AnswerIsExact

(* A row is selected for the third question, and two are answered.            *)
LEMMA OneReplaced ==
    ASSUME NEW s, IsSeq(s), NEW j \in DOMAIN s, NEW x
    PROVE  IsSeq([s EXCEPT ![j] = x]) /\ Len([s EXCEPT ![j] = x]) = Len(s)
<1> DEFINE A == {s[i] : i \in DOMAIN s}
           t == [s EXCEPT ![j] = x]
<1>1. s \in Seq(A \cup {x}) /\ x \in A \cup {x} /\ Len(s) \in Nat /\ DOMAIN s = 1 .. Len(s)
  BY DEF IsSeq
<1> HIDE DEF A
<1>2. t \in Seq(A \cup {x}) /\ Len(t) = Len(s)
  BY <1>1
<1> HIDE DEF t
<1>3. DOMAIN t = 1 .. Len(t) /\ t \in Seq({t[i] : i \in DOMAIN t})
  BY <1>2
<1>. QED BY <1>2, <1>3 DEF IsSeq, t

LEMMA SelectIsExact == ASSUME SummaryInv, Select PROVE SummaryInv'
<1>1. ~Done /\ What = "selected" /\ reader.part = "first" /\ UNCHANGED ledger /\ At("selected", {"first"})
  BY DEF Select, At
<1>2. /\ Len(reader.answers) \in Nat /\ 3 = Len(reader.answers) + 1 /\ 3 \in DOMAIN reader.asks
      /\ Asked = reader.asks[3] /\ IsFilter(reader.asks[3].f)
  BY <1>1, AskedNow DEF IsAsk, Filtered, Asked
<1>3. ASSUME Answered(None, ledger) PROVE SummaryInv'
  BY <1>1, <1>3, OtherAnswer
<1>4. ASSUME NEW k \in Keys(reader.answers[1].buckets), reader' = [reader EXCEPT !.asks[3] = Trend(@.f, k.model)]
      PROVE  SummaryInv'
  <2> DEFINE ask == Trend(reader.asks[3].f, k.model)
  <2>1. /\ reader'.asks = [reader.asks EXCEPT ![3] = ask] /\ reader'.answers = reader.answers
        /\ reader'.then = reader.then /\ reader'.part = "first"
        /\ reader' = [kind |-> reader'.kind, now |-> reader'.now, asks |-> reader'.asks, answers |-> reader'.answers,
                      began |-> reader'.began, then |-> reader'.then, part |-> reader'.part, got |-> reader'.got]
    BY <1>1, <1>4 DEF SummaryInv, IsReader
  <2>2. IsAsk(ask, 3)
    BY <1>2 DEF Trend, Asking, applyCrumb, IsFilter, IsAsk
  <2> HIDE DEF ask
  <2>3. /\ IsSeq(reader.asks) /\ Len(reader.asks) \in Nat /\ DOMAIN reader.asks = 1 .. Len(reader.asks)
        /\ \A i \in DOMAIN reader.asks : IsAsk(reader.asks[i], i)
    BY SeqFacts DEF SummaryInv, IsReader, AreAsks
  <2>4. /\ DOMAIN reader'.asks = DOMAIN reader.asks
        /\ \A i \in DOMAIN reader.asks : reader'.asks[i] = IF i = 3 THEN ask ELSE reader.asks[i]
    BY <2>1
  <2>5. IsSeq(reader'.asks) /\ Len(reader'.asks) = Len(reader.asks)
    BY <1>2, <2>1, <2>3, OneReplaced
  <2>6. AreAsks(reader'.asks)
    BY <2>2, <2>3, <2>4, <2>5 DEF AreAsks
  <2>7. IsReader(reader')
    BY <2>1, <2>5, <2>6 DEF SummaryInv, IsReader
  <2>8. LastExact(reader')
    <3> DEFINE n == Len(reader.answers)
    <3>1. n = 2
      <4>1. n \in Nat /\ n + 1 = 3
        BY <1>2
      <4> HIDE DEF n
      <4>. QED BY <4>1
    <3>. QED BY <2>1, <2>4, <3>1 DEF SummaryInv, LastExact
  <2>. QED BY <1>1, <2>1, <2>7, <2>8 DEF SummaryInv, FoundExact
<1>. QED BY <1>3, <1>4 DEF Select

LEMMA CollectingIsExact == ASSUME SummaryInv, Collecting PROVE SummaryInv'
<1>1. IsLedger(ledger) /\ IsLedger(ledger') /\ Grown(ledger, ledger') /\ UNCHANGED reader
  BY CollectingGrows DEF SummaryInv
<1>2. FoundExact(reader, ledger')
  BY <1>1, GrownTwice DEF SummaryInv, FoundExact
<1>. QED BY <1>1, <1>2 DEF SummaryInv

LEMMA GroupsAreNoSum ==
    ASSUME SummaryInv, SkipGroups \/ AskRollupGroups \/ GroupsStatus \/ AskEventGroups
    PROVE  SummaryInv'
<1>1. CASE SkipGroups
  BY <1>1, OtherAnswer DEF SkipGroups
<1>2. CASE AskRollupGroups
  BY <1>2, OtherAnswer, GoingOn DEF AskRollupGroups
<1>3. CASE GroupsStatus
  BY <1>3, OtherAnswer, GoingOn DEF GroupsStatus
<1>4. CASE AskEventGroups
  BY <1>4, OtherAnswer DEF AskEventGroups
<1>. QED BY <1>1, <1>2, <1>3, <1>4

LEMMA RankingsAreNoSum ==
    ASSUME SummaryInv,
           AskStale \/ AskSnapped \/ AskTurns \/ AskTopTurns \/ AskCalls \/ AskTopCalls \/ AskWatermark \/ AskLast
    PROVE  SummaryInv'
<1>1. CASE AskStale
  BY <1>1, OtherAnswer DEF AskStale
<1>2. CASE AskSnapped
  BY <1>2, OtherAnswer DEF AskSnapped
<1>3. CASE AskTurns
  BY <1>3, OtherAnswer DEF AskTurns
<1>4. CASE AskTopTurns
  BY <1>4, OtherAnswer DEF AskTopTurns
<1>5. CASE AskCalls
  BY <1>5, OtherAnswer DEF AskCalls
<1>6. CASE AskTopCalls
  BY <1>6, OtherAnswer DEF AskTopCalls
<1>7. CASE AskWatermark
  BY <1>7, OtherAnswer DEF AskWatermark
<1>8. CASE AskLast
  BY <1>8, OtherAnswer DEF AskLast
<1>. QED BY <1>1, <1>2, <1>3, <1>4, <1>5, <1>6, <1>7, <1>8

LEMMA GoesWithoutASum == ASSUME SummaryInv, GoesWithout PROVE SummaryInv'
<1>1. ~Done /\ UNCHANGED ledger /\ Answered(IF Asked.what = "groups" THEN {} ELSE None, ledger)
  BY DEF GoesWithout
<1>2. CASE Asked.what = "groups"
  <2>1. Answered({}, ledger) /\ Asked.what # "sum"
    BY <1>1, <1>2
  <2>. QED BY <1>1, <2>1, AnswerIsExact
<1>3. CASE Asked.what # "groups"
  <2>1. Answered(None, ledger)
    BY <1>1, <1>3
  <2>. QED BY <1>1, <2>1, AnswerIsExact
<1>. QED BY <1>2, <1>3

LEMMA PagesAreNoSum == ASSUME SummaryInv, ListPage PROVE SummaryInv'
<1>1. ~Done /\ At("pages", {"first", "more"}) /\ UNCHANGED ledger /\ reader.part \in {"first", "more"}
  BY DEF ListPage, At
<1>2. ASSUME NEW a, NEW at, Answered(a, at) PROVE SummaryInv'
  BY <1>1, <1>2, OtherAnswer
<1>3. ASSUME NEW got, reader' = [reader EXCEPT !.part = "more", !.got = got] PROVE SummaryInv'
  <2>1. /\ reader'.asks = reader.asks /\ reader'.answers = reader.answers /\ reader'.then = reader.then /\ reader'.part = "more"
        /\ reader' = [kind |-> reader'.kind, now |-> reader'.now, asks |-> reader'.asks, answers |-> reader'.answers,
                      began |-> reader'.began, then |-> reader'.then, part |-> reader'.part, got |-> reader'.got]
    BY <1>3 DEF SummaryInv, IsReader
  <2>. QED BY <1>1, <2>1 DEF SummaryInv, IsReader, LastExact, FoundExact
<1>. QED BY <1>2, <1>3 DEF ListPage

(* Any reader: an answer that is still to come may be wrong in no way yet.    *)
LEMMA ReadersBegin == ReaderInit => SummaryInv
<1> SUFFICES ASSUME ReaderInit PROVE SummaryInv
  OBVIOUS
<1>1. PICK q \in Questions : reader = Start(q)
  BY DEF ReaderInit
<1>2. IsLedger(ledger)
  BY ReaderAssumption DEF ReaderInit
<1>3. AreAsks(AsksOf(q)) /\ Len(AsksOf(q)) \in Nat
  BY ReadersAsk, SeqFacts DEF AreAsks
<1>4. /\ reader.asks = AsksOf(q) /\ reader.answers = << >> /\ reader.part = "first"
      /\ reader = [kind |-> reader.kind, now |-> reader.now, asks |-> reader.asks, answers |-> reader.answers,
                   began |-> reader.began, then |-> reader.then, part |-> reader.part, got |-> reader.got]
  BY <1>1 DEF Start
<1>5. IsSeq(reader.answers) /\ Len(reader.answers) = 0
  BY <1>4, OneAsk
<1>. QED BY <1>2, <1>3, <1>4, <1>5 DEF SummaryInv, IsReader, LastExact, FoundExact

LEMMA ReadersStep == SummaryInv /\ [ReaderNext]_readerVars => SummaryInv'
<1> SUFFICES ASSUME SummaryInv, [ReaderNext]_readerVars PROVE SummaryInv'
  OBVIOUS
<1>1. CASE AskRollup
  BY <1>1, AskRollupIsExact
<1>2. CASE AskEvents
  BY <1>2, AskEventsIsExact
<1>3. CASE CountSessions
  BY <1>3, CountSessionsIsExact
<1>4. CASE SkipGroups \/ AskRollupGroups \/ GroupsStatus \/ AskEventGroups
  BY <1>4, GroupsAreNoSum
<1>5. CASE GoesWithout
  BY <1>5, GoesWithoutASum
<1>6. CASE AskStale \/ AskSnapped \/ AskTurns \/ AskTopTurns \/ AskCalls \/ AskTopCalls \/ AskWatermark \/ AskLast
  BY <1>6, RankingsAreNoSum
<1>7. CASE Select
  BY <1>7, SelectIsExact
<1>8. CASE ListPage
  BY <1>8, PagesAreNoSum
<1>9. CASE Collecting
  BY <1>9, CollectingIsExact
<1>10. CASE UNCHANGED readerVars
  BY <1>10 DEF readerVars, SummaryInv
<1>. QED BY <1>1, <1>2, <1>3, <1>4, <1>5, <1>6, <1>7, <1>8, <1>9, <1>10 DEF ReaderNext, Collecting

(* SummaryExact: whatever a summary is answered from, and whatever is         *)
(* recorded and priced between its statements, it says what the rows of its   *)
(* window said when it was asked, and no bucket of it has more sessions than  *)
(* there are (Summarize, summarizeCurrentRollup, exactEndingRollupSource).    *)
THEOREM SummariesExact == ReaderSpec => []SummaryExact
<1>1. ReaderInit => SummaryInv
  BY ReadersBegin
<1>2. SummaryInv /\ [ReaderNext]_readerVars => SummaryInv'
  BY ReadersStep
<1>3. SummaryInv => SummaryExact
  BY LastIsSummary
<1>. QED BY <1>1, <1>2, <1>3, PTL DEF ReaderSpec
-----------------------------------------------------------------------------
(* A page of the rows *)

(* The rows of a window after a cursor.                                       *)
After(l, f, cursor) == {id \in Ids(l) : buildWhere(f, l.rows[id]) /\ AfterCursor(l, cursor, id)}

(* The order of time and id.                                                  *)
LEMMA BeforeIsOrder ==
    ASSUME NEW l, IsLedger(l)
    PROVE  /\ \A i, j \in Ids(l) : Before(l, i, j) => ~Before(l, j, i)
           /\ \A i, j, k \in Ids(l) : Before(l, i, j) /\ Before(l, j, k) => Before(l, i, k)
           /\ \A i, j \in Ids(l) : i # j => Before(l, i, j) \/ Before(l, j, i)
<1>1. \A i \in Ids(l) : i \in Nat /\ l.rows[i].at \in Int
  BY LedgerShape DEF EventRow
<1>. QED BY <1>1 DEF Before

(* A page is in order, of the rows after the cursor; what is not on it comes  *)
(* after all that is, and on a page that is not full is all there is.         *)
LEMMA PageHolds ==
    ASSUME NEW l, IsLedger(l), NEW f, NEW cursor, NEW limit \in Nat, NEW page,
           page = ListEvents(l, f, cursor, limit)
    PROVE  /\ IsSeq(page) /\ Len(page) <= limit
           /\ \A i \in DOMAIN page : page[i] \in After(l, f, cursor)
           /\ \A i, j \in DOMAIN page : i < j => Before(l, page[i], page[j])
           /\ \A id \in After(l, f, cursor) :
                 \/ \E i \in DOMAIN page : page[i] = id
                 \/ Len(page) = limit /\ \A i \in DOMAIN page : Before(l, page[i], id)
<1> DEFINE S == After(l, f, cursor)
           R == {p \in S \X S : Before(l, p[1], p[2])}
           r == [x \in S |-> Cardinality({y \in S : <<y, x>> \in R}) + 1]
           T == {x \in S : r[x] <= limit}
           rank(id) == Cardinality({o \in S : Before(l, o, id)}) + 1
<1>1. S \subseteq Ids(l) /\ IsFiniteSet(S)
  BY LedgerShape, FS_Subset DEF After
<1>2. \A x, y \in S : <<x, y>> \in R <=> Before(l, x, y)
  OBVIOUS
<1>3. \A x \in S : r[x] = rank(x)
  <2>1. \A x \in S : {y \in S : <<y, x>> \in R} = {o \in S : Before(l, o, x)}
    BY <1>2
  <2>. QED BY <2>1
<1> HIDE DEF R
<1>4. IsRanking(S, R, r)
  BY <1>1, <1>2, BeforeIsOrder DEF IsRanking
<1>5. page = [n \in 1 .. Cardinality(T) |-> CHOOSE id \in T : rank(id) = n]
  <2> DEFINE U == {id \in S : rank(id) <= limit}
  <2>1. page = [n \in 1 .. Cardinality(U) |-> CHOOSE id \in U : rank(id) = n]
    BY DEF ListEvents, After
  <2>2. U = T
    BY <1>3
  <2> HIDE DEF T, U, rank, r, S
  <2>. QED BY <2>1, <2>2
<1> HIDE DEF S, r
<1>6. /\ Cardinality(S) \in Nat /\ \A x \in S : r[x] \in 1 .. Cardinality(S)
      /\ \A x, y \in S : r[x] = r[y] => x = y
      /\ \A n \in 1 .. Cardinality(S) : \E x \in S : r[x] = n
  BY <1>1, <1>4, RanksFill
<1>7. \A x, y \in S : Before(l, x, y) => r[x] < r[y]
  BY <1>1, <1>2, <1>4, RanksAreOrdered
<1>8. /\ IsFiniteSet(T)
      /\ \/ Cardinality(S) > limit /\ Cardinality(T) = limit
         \/ Cardinality(S) <= limit /\ T = S
  BY <1>1, <1>4, FirstOfRanks
<1>9. Cardinality(T) \in Nat /\ Cardinality(T) <= limit /\ Cardinality(T) <= Cardinality(S)
  BY <1>6, <1>8
<1>10. /\ DOMAIN page = 1 .. Cardinality(T)
       /\ \A n \in DOMAIN page : page[n] \in T /\ r[page[n]] = n
  <2>1. ASSUME NEW n \in 1 .. Cardinality(T) PROVE \E x \in T : rank(x) = n
    <3>1. n \in 1 .. Cardinality(S) /\ n <= limit
      BY <1>6, <1>9
    <3>2. PICK x \in S : r[x] = n
      BY <1>6, <3>1
    <3>. QED BY <1>3, <3>1, <3>2
  <2>2. ASSUME NEW n \in 1 .. Cardinality(T) PROVE page[n] \in T /\ rank(page[n]) = n
    <3> HIDE DEF T, rank
    <3>. QED BY <1>5, <2>1, <2>2
  <2>3. T \subseteq S /\ DOMAIN page = 1 .. Cardinality(T)
    BY <1>5
  <2> HIDE DEF T, rank
  <2>. QED BY <1>3, <2>2, <2>3
<1>11. IsSeq(page) /\ Len(page) = Cardinality(T)
  <2> DEFINE c == Cardinality(T)
             A == {page[i] : i \in DOMAIN page}
  <2>1. c \in Nat /\ page = [n \in 1 .. c |-> page[n]] /\ DOMAIN page = 1 .. c
    BY <1>5, <1>9, <1>10
  <2> HIDE DEF c, T
  <2>2. \A n \in 1 .. c : page[n] \in A
    BY <2>1
  <2> HIDE DEF A
  <2>3. page \in Seq(A) /\ Len(page) = c
    BY <2>1, <2>2
  <2>. QED BY <2>3 DEF IsSeq, A, c
<1>12. \A i \in DOMAIN page : page[i] \in S
  BY <1>10
<1>13. ASSUME NEW i \in DOMAIN page, NEW j \in DOMAIN page, i < j PROVE Before(l, page[i], page[j])
  <2>1. page[i] \in S /\ page[j] \in S /\ r[page[i]] = i /\ r[page[j]] = j /\ i \in Nat /\ j \in Nat
    BY <1>9, <1>10
  <2>2. ~Before(l, page[j], page[i]) /\ page[i] # page[j]
    BY <1>7, <1>13, <2>1
  <2>. QED BY <1>1, <2>1, <2>2, BeforeIsOrder
<1>14. ASSUME NEW id \in S
       PROVE  \/ \E i \in DOMAIN page : page[i] = id
              \/ Len(page) = limit /\ \A i \in DOMAIN page : Before(l, page[i], id)
  <2>1. CASE r[id] \in 1 .. Cardinality(T)
    <3>1. page[r[id]] \in T /\ r[page[r[id]]] = r[id] /\ r[id] \in DOMAIN page
      BY <1>10, <2>1
    <3>2. page[r[id]] = id
      BY <1>6, <3>1
    <3>. QED BY <3>1, <3>2
  <2>2. CASE r[id] \notin 1 .. Cardinality(T)
    <3>1. r[id] \in Nat /\ r[id] >= 1 /\ r[id] <= Cardinality(S) /\ r[id] > Cardinality(T)
      BY <1>6, <1>9, <2>2
    <3>2. Cardinality(T) = limit
      BY <1>6, <1>8, <3>1
    <3>3. ASSUME NEW i \in DOMAIN page PROVE Before(l, page[i], id)
      <4>1. page[i] \in S /\ r[page[i]] = i /\ i \in Nat /\ i <= Cardinality(T)
        BY <1>9, <1>10
      <4>2. ~Before(l, id, page[i]) /\ page[i] # id
        BY <1>7, <1>9, <3>1, <4>1
      <4>. QED BY <1>1, <4>1, <4>2, BeforeIsOrder
    <3>. QED BY <1>11, <3>2, <3>3
  <2>. QED BY <2>1, <2>2
<1>. QED BY <1>9, <1>11, <1>12, <1>13, <1>14 DEF S
-----------------------------------------------------------------------------
(* An export has every row once *)

(* Rows of a window in their order; and every row of the window that a ledger *)
(* had is among them, or comes after them all.                                *)
Walk(out, f, l) ==
    /\ IsSeq(out)
    /\ \A i \in DOMAIN out : out[i] \in Ids(l) /\ buildWhere(f, l.rows[out[i]])
    /\ \A i, j \in DOMAIN out : i < j => Before(l, out[i], out[j])
IsOn(id, out) == \E i \in DOMAIN out : out[i] = id
Ahead(id, out, l) == \A i \in DOMAIN out : Before(l, out[i], id)
Reached(out, f, at, l) == \A id \in Ids(at) : buildWhere(f, at.rows[id]) => IsOn(id, out) \/ Ahead(id, out, l)
Complete(out, f, at) == \A id \in Ids(at) : buildWhere(f, at.rows[id]) => IsOn(id, out)

(* A row keeps its place and its window in a ledger that grows.               *)
LEMMA SamePlace ==
    ASSUME NEW l, NEW m, Grown(l, m), NEW f
    PROVE  /\ \A id \in Ids(l) : id \in Ids(m) /\ (buildWhere(f, m.rows[id]) <=> buildWhere(f, l.rows[id]))
           /\ \A i, j \in Ids(l) : Before(m, i, j) <=> Before(l, i, j)
BY DEF Grown, buildWhere, Chosen, Before

LEMMA WalkGrows ==
    ASSUME NEW l, NEW m, Grown(l, m), NEW f, NEW out, Walk(out, f, l)
    PROVE  /\ Walk(out, f, m)
           /\ \A at : Grown(at, l) /\ Reached(out, f, at, l) => Reached(out, f, at, m)
<1>1. /\ \A id \in Ids(l) : id \in Ids(m) /\ (buildWhere(f, m.rows[id]) <=> buildWhere(f, l.rows[id]))
      /\ \A i, j \in Ids(l) : Before(m, i, j) <=> Before(l, i, j)
  BY SamePlace
<1>2. Walk(out, f, m)
  BY <1>1 DEF Walk
<1>3. ASSUME NEW at, Grown(at, l), Reached(out, f, at, l) PROVE Reached(out, f, at, m)
  <2>1. \A id \in Ids(at) : id \in Ids(l)
    BY <1>3 DEF Grown
  <2>2. \A id \in Ids(l) : Ahead(id, out, l) => Ahead(id, out, m)
    BY <1>1 DEF Ahead, Walk
  <2>. QED BY <1>3, <2>1, <2>2 DEF Reached
<1>. QED BY <1>2, <1>3

(* The cursor of a walk: what comes after it comes after all of the walk.     *)
CursorOf(out, l) ==
    LET last == IF out = << >> THEN 0 ELSE out[Len(out)]
    IN [id |-> last, at |-> IF last = 0 THEN 0 ELSE l.rows[last].at]

LEMMA CursorIsAhead ==
    ASSUME NEW l, IsLedger(l), NEW f, NEW out, Walk(out, f, l)
    PROVE  After(l, f, CursorOf(out, l)) = {id \in Ids(l) : buildWhere(f, l.rows[id]) /\ Ahead(id, out, l)}
<1> DEFINE cursor == CursorOf(out, l)
           n == Len(out)
<1>1. n \in Nat /\ DOMAIN out = 1 .. n /\ (out = << >> => n = 0)
  BY SeqFacts DEF Walk
<1>2. Ids(l) \subseteq Nat \ {0}
  BY LedgerShape
<1>3. SUFFICES ASSUME NEW id \in Ids(l) PROVE AfterCursor(l, cursor, id) <=> Ahead(id, out, l)
  BY DEF After
<1>4. CASE out = << >>
  <2>1. cursor.id = 0 /\ DOMAIN out = {}
    BY <1>1, <1>4 DEF CursorOf
  <2>. QED BY <2>1 DEF AfterCursor, Ahead
<1>5. CASE out # << >>
  <2>1. n # 0
    <3>1. out \in Seq({out[i] : i \in DOMAIN out})
      BY DEF Walk, IsSeq
    <3> DEFINE A == {out[i] : i \in DOMAIN out}
    <3> HIDE DEF A
    <3>2. out \in Seq(A)
      BY <3>1 DEF A
    <3>. QED BY <1>5, <3>2, EmptySeq
  <2>2. n \in DOMAIN out /\ out[n] \in Ids(l) /\ out[n] # 0
    BY <1>1, <1>2, <2>1 DEF Walk
  <2>3. cursor.id = out[n] /\ cursor.at = l.rows[out[n]].at
    BY <1>5, <2>2 DEF CursorOf
  <2>4. AfterCursor(l, cursor, id) <=> Before(l, out[n], id)
    <3>1. id \in Nat /\ out[n] \in Nat /\ l.rows[id].at \in Int /\ l.rows[out[n]].at \in Int
      BY <1>2, <2>2, LedgerShape DEF EventRow
    <3> HIDE DEF n, cursor
    <3>. QED BY <2>2, <2>3, <3>1 DEF AfterCursor, Before
  <2>5. ASSUME Before(l, out[n], id), NEW i \in DOMAIN out PROVE Before(l, out[i], id)
    <3>1. out[i] \in Ids(l)
      BY DEF Walk
    <3>2. CASE i = n
      BY <2>5, <3>2
    <3>3. CASE i < n
      <4>1. Before(l, out[i], out[n])
        BY <2>2, <3>3 DEF Walk
      <4>. QED BY <2>2, <2>5, <3>1, <4>1, BeforeIsOrder
    <3>. QED BY <1>1, <3>2, <3>3
  <2>. QED BY <2>2, <2>4, <2>5 DEF Ahead
<1>. QED BY <1>4, <1>5

Joins(u, s, t) ==
    /\ IsSeq(u)
    /\ \A i \in DOMAIN s : i \in DOMAIN u /\ u[i] = s[i]
    /\ \A j \in DOMAIN t : Len(s) + j \in DOMAIN u /\ u[Len(s) + j] = t[j]
    /\ \A i \in DOMAIN u : i \in DOMAIN s \/ \E j \in DOMAIN t : i = Len(s) + j

LEMMA SeqJoined ==
    ASSUME NEW s, IsSeq(s), NEW t, IsSeq(t)
    PROVE  Joins(s \o t, s, t)
<1> DEFINE A == {s[i] : i \in DOMAIN s} \cup {t[i] : i \in DOMAIN t}
           u == s \o t
<1>1. /\ s \in Seq(A) /\ Len(s) \in Nat /\ DOMAIN s = 1 .. Len(s)
      /\ t \in Seq(A) /\ Len(t) \in Nat /\ DOMAIN t = 1 .. Len(t)
  BY DEF IsSeq
<1> HIDE DEF A
<1>2. /\ u \in Seq(A) /\ Len(u) = Len(s) + Len(t)
      /\ \A i \in 1 .. Len(s) + Len(t) : u[i] = IF i <= Len(s) THEN s[i] ELSE t[i - Len(s)]
  BY <1>1, ConcatProperties
<1> HIDE DEF u
<1>3. DOMAIN u = 1 .. Len(s) + Len(t) /\ IsSeq(u)
  <2>1. DOMAIN u = 1 .. Len(u) /\ u \in Seq({u[i] : i \in DOMAIN u})
    <3>1. u \in Seq(A)
      BY <1>2
    <3>. QED BY <3>1
  <2>. QED BY <1>2, <2>1 DEF IsSeq
<1>4. ASSUME NEW j \in DOMAIN t PROVE Len(s) + j \in DOMAIN u /\ u[Len(s) + j] = t[j]
  <2>1. Len(s) + j \in 1 .. Len(s) + Len(t) /\ ~(Len(s) + j <= Len(s)) /\ (Len(s) + j) - Len(s) = j
    BY <1>1
  <2>. QED BY <1>2, <1>3, <2>1
<1>5. ASSUME NEW i \in DOMAIN u PROVE i \in DOMAIN s \/ \E j \in DOMAIN t : i = Len(s) + j
  <2>1. CASE i <= Len(s)
    BY <1>1, <1>3, <2>1
  <2>2. CASE i > Len(s)
    <3>1. i - Len(s) \in DOMAIN t /\ i = Len(s) + (i - Len(s))
      BY <1>1, <1>3, <2>2
    <3>. QED BY <3>1
  <2>. QED BY <1>1, <1>3, <2>1, <2>2
<1>. QED BY <1>1, <1>2, <1>3, <1>4, <1>5 DEF Joins, u

LEMMA NextPage ==
    ASSUME NEW l, IsLedger(l), NEW f, NEW out, Walk(out, f, l),
           NEW at, Grown(at, l), Reached(out, f, at, l),
           NEW limit \in Nat \ {0}, NEW page, page = ListEvents(l, f, CursorOf(out, l), limit)
    PROVE  /\ Walk(out \o page, f, l) /\ Len(page) \in Nat
           /\ Reached(out \o page, f, at, l)
           /\ Len(page) < limit => Complete(out \o page, f, at)
<1> DEFINE n == Len(out)
           all == out \o page
<1>1. /\ IsSeq(page) /\ Len(page) <= limit /\ Len(page) \in Nat
      /\ \A i \in DOMAIN page : /\ page[i] \in Ids(l) /\ buildWhere(f, l.rows[page[i]])
                                /\ Ahead(page[i], out, l)
      /\ \A i, j \in DOMAIN page : i < j => Before(l, page[i], page[j])
      /\ \A id \in Ids(l) : buildWhere(f, l.rows[id]) /\ Ahead(id, out, l) =>
            IsOn(id, page) \/ (Len(page) = limit /\ Ahead(id, page, l))
  BY PageHolds, CursorIsAhead, SeqFacts DEF IsOn, Ahead
<1>2. IsSeq(out) /\ n \in Nat /\ DOMAIN out = 1 .. n /\ DOMAIN page = 1 .. Len(page)
  BY <1>1, SeqFacts DEF Walk
<1>3. /\ IsSeq(all)
      /\ \A i \in DOMAIN out : i \in DOMAIN all /\ all[i] = out[i]
      /\ \A j \in DOMAIN page : n + j \in DOMAIN all /\ all[n + j] = page[j]
      /\ \A i \in DOMAIN all : i \in DOMAIN out \/ \E j \in DOMAIN page : i = n + j
  <2>1. Joins(all, out, page)
    BY <1>1, <1>2, SeqJoined
  <2> HIDE DEF all
  <2>. QED BY <2>1 DEF Joins
<1> HIDE DEF all, n
<1>4. \A i \in DOMAIN all : all[i] \in Ids(l) /\ buildWhere(f, l.rows[all[i]])
  BY <1>1, <1>3 DEF Walk
<1>5. ASSUME NEW i \in DOMAIN all, NEW j \in DOMAIN all, i < j PROVE Before(l, all[i], all[j])
  <2>1. CASE i \in DOMAIN out /\ j \in DOMAIN out
    BY <1>3, <1>5, <2>1 DEF Walk
  <2>2. CASE i \in DOMAIN out /\ j \notin DOMAIN out
    BY <1>1, <1>3, <2>2 DEF Ahead
  <2>3. CASE i \notin DOMAIN out
    <3>1. PICK p \in DOMAIN page : i = n + p
      BY <1>3, <2>3
    <3>2. j \notin DOMAIN out
      BY <1>2, <1>5, <3>1
    <3>3. PICK q \in DOMAIN page : j = n + q
      BY <1>3, <3>2
    <3>4. p < q
      BY <1>2, <1>5, <3>1, <3>3
    <3>. QED BY <1>1, <1>3, <3>1, <3>3, <3>4
  <2>. QED BY <2>1, <2>2, <2>3
<1>6. ASSUME NEW id, IsOn(id, out) \/ IsOn(id, page) PROVE IsOn(id, all)
  BY <1>3, <1>6 DEF IsOn
<1>7. ASSUME NEW id, Ahead(id, out, l), Ahead(id, page, l) PROVE Ahead(id, all, l)
  BY <1>3, <1>7 DEF Ahead
<1>8. ASSUME NEW id \in Ids(at), buildWhere(f, at.rows[id])
      PROVE  IsOn(id, all) \/ (Len(page) = limit /\ Ahead(id, all, l))
  <2>1. id \in Ids(l) /\ buildWhere(f, l.rows[id])
    BY <1>8, SamePlace
  <2>2. IsOn(id, out) \/ Ahead(id, out, l)
    BY <1>8 DEF Reached
  <2>. QED BY <1>1, <1>6, <1>7, <2>1, <2>2
<1>. QED BY <1>1, <1>3, <1>4, <1>5, <1>8 DEF Walk, Reached, Complete, all

(* An export, of one question: what is on its pages so far, and what it is    *)
(* answered with.                                                             *)
Exporting(r, l) ==
    r.kind = "export" =>
        /\ Len(r.asks) = 1 /\ r.asks[1].what = "pages"
        /\ Len(r.answers) = 0 =>
              /\ r.began = None /\ r.part \in {"first", "more"}
              /\ r.part = "more" =>
                    /\ r.got = [ids |-> r.got.ids, at |-> r.got.at]
                    /\ Walk(r.got.ids, r.asks[1].f, l)
                    /\ Grown(r.got.at, l) /\ Reached(r.got.ids, r.asks[1].f, r.got.at, l)
        /\ Len(r.answers) = 1 => Walk(r.answers[1], r.asks[1].f, l) /\ Complete(r.answers[1], r.asks[1].f, r.began)

ExportInv == SummaryInv /\ Exporting(reader, ledger)

LEMMA OneQuestion ==
    ASSUME ExportInv, reader.kind = "export"
    PROVE  /\ Len(reader.asks) = 1 /\ Len(reader.answers) \in {0, 1}
           /\ Done <=> Len(reader.answers) = 1
           /\ ~Done => Len(reader.answers) = 0 /\ Asked = reader.asks[1] /\ Asked.what = "pages" /\ What = "pages"
<1> DEFINE n == Len(reader.answers)
<1>1. Len(reader.asks) = 1 /\ reader.asks[1].what = "pages"
  BY DEF ExportInv, Exporting
<1>2. n \in Nat /\ n <= Len(reader.asks)
  BY SeqFacts DEF ExportInv, SummaryInv, IsReader
<1>3. (Done <=> n = Len(reader.asks)) /\ Asked = reader.asks[n + 1]
  BY DEF Done, Asked
<1>4. What = IF Asked.what = "snapped" /\ reader.answers[1] THEN "sum" ELSE Asked.what
  BY DEF What
<1> HIDE DEF n
<1>5. n \in {0, 1} /\ (Done <=> n = 1)
  BY <1>1, <1>2, <1>3
<1>6. ~Done => n = 0 /\ Asked = reader.asks[1]
  BY <1>3, <1>5
<1>. QED BY <1>1, <1>4, <1>5, <1>6 DEF n

LEMMA ExportedIsExact == ExportInv => ExportExact
<1> SUFFICES ASSUME ExportInv, reader.kind = "export"
             PROVE  ExportExact
  BY DEF ExportExact
<1> DEFINE f == reader.asks[1].f
           out == IF Done THEN reader.answers[1] ELSE IF reader.part = "more" THEN reader.got.ids ELSE <<>>
<1>1. (Done => Len(reader.answers) = 1) /\ (~Done => Len(reader.answers) = 0)
  BY OneQuestion
<1>2. Walk(out, f, ledger)
  <2>1. Walk(<< >>, f, ledger)
    BY OneAsk DEF Walk
  <2>. QED BY <1>1, <2>1 DEF ExportInv, Exporting
<1>3. Done => Complete(out, f, reader.began)
  BY <1>1 DEF ExportInv, Exporting
<1> HIDE DEF out
<1>4. /\ \A i, j \in DOMAIN out : i < j => Before(ledger, out[i], out[j])
      /\ \A i \in DOMAIN out : buildWhere(f, ledger.rows[out[i]])
  BY <1>2 DEF Walk
<1>5. Done => {id \in Ids(reader.began) : buildWhere(f, reader.began.rows[id])} \subseteq {out[i] : i \in DOMAIN out}
  BY <1>3 DEF Complete, IsOn
<1>. QED BY <1>4, <1>5 DEF ExportExact, out

(* No reader becomes an export, and an export has no other statement.         *)
LEMMA OthersDoNotExport ==
    ASSUME ExportInv, ReaderNext, ~Collecting, ~ListPage
    PROVE  reader'.kind = reader.kind /\ reader.kind # "export"
<1>1. IsReader(reader)
  BY DEF ExportInv, SummaryInv
<1>2. ~Done /\ UNCHANGED ledger /\ reader'.kind = reader.kind
  <2>1. ~Done /\ UNCHANGED ledger
    BY DEF ReaderNext, Collecting, AskRollup, AskEvents, CountSessions, SkipGroups, AskRollupGroups, GroupsStatus,
           AskEventGroups, GoesWithout, AskStale, AskSnapped, AskTurns, AskTopTurns, AskCalls, AskTopCalls, Select,
           AskWatermark, AskLast, At
  <2>2. \A a, at : Answered(a, at) => reader'.kind = reader.kind
    BY <1>1 DEF Answered, IsReader
  <2>3. \A part : Goes(part) => reader'.kind = reader.kind
    BY <1>1 DEF Goes, IsReader
  <2>4. \A b, from : Counted(b, from) => reader'.kind = reader.kind
    BY <1>1, <2>2 DEF Counted, IsReader
  <2>5. \A k : reader' = [reader EXCEPT !.asks[3] = Trend(@.f, k.model)] => reader'.kind = reader.kind
    BY <1>1 DEF IsReader
  <2>. QED BY <2>1, <2>2, <2>3, <2>4, <2>5
         DEF ReaderNext, Collecting, AskRollup, AskEvents, CountSessions, SkipGroups, AskRollupGroups, GroupsStatus,
             AskEventGroups, GoesWithout, AskStale, AskSnapped, AskTurns, AskTopTurns, AskCalls, AskTopCalls, Select,
             AskWatermark, AskLast
<1>3. ASSUME reader.kind = "export" PROVE FALSE
  <2>1. Asked.what = "pages" /\ What = "pages"
    BY <1>2, <1>3, OneQuestion
  <2>2. \A what, parts : At(what, parts) => what = "pages"
    BY <2>1 DEF At
  <2>3. ~Spared
    BY <1>3 DEF Spared
  <2>. QED BY <2>2, <2>3
         DEF ReaderNext, Collecting, AskRollup, AskEvents, CountSessions, SkipGroups, AskRollupGroups, GroupsStatus,
             AskEventGroups, GoesWithout, AskStale, AskSnapped, AskTurns, AskTopTurns, AskCalls, AskTopCalls, Select,
             AskWatermark, AskLast
<1>. QED BY <1>2, <1>3

LEMMA ListPageExports ==
    ASSUME ExportInv, ListPage
    PROVE  Exporting(reader', ledger')
<1> DEFINE out == IF reader.part = "first" THEN [ids |-> <<>>, at |-> ledger] ELSE reader.got
           page == ListEvents(ledger, Asked.f, CursorOf(out.ids, ledger), PageSize)
           f == reader.asks[1].f
<1>1. /\ ~Done /\ reader.part \in {"first", "more"} /\ UNCHANGED ledger /\ IsLedger(ledger) /\ IsReader(reader)
      /\ PageSize \in Nat \ {0}
  BY ReaderAssumption DEF ListPage, At, ExportInv, SummaryInv
<1>2. IF Len(page) < PageSize
      THEN Answered(out.ids \o page, out.at)
      ELSE reader' = [reader EXCEPT !.part = "more", !.got = [out EXCEPT !.ids = @ \o page]]
  BY DEF ListPage, CursorOf
<1>3. reader'.kind = reader.kind /\ reader'.asks = reader.asks
  BY <1>1, <1>2 DEF Answered, IsReader
<1>4. SUFFICES ASSUME reader.kind = "export" PROVE Exporting(reader', ledger)
  BY <1>1, <1>3 DEF Exporting
<1>5. /\ Len(reader.asks) = 1 /\ reader.asks[1].what = "pages" /\ Len(reader.answers) = 0
      /\ Asked.f = f /\ reader.began = None
  <2>1. Len(reader.answers) = 0 /\ Asked = reader.asks[1]
    BY <1>1, <1>4, OneQuestion
  <2>. QED BY <1>4, <2>1 DEF ExportInv, Exporting
<1>6. /\ out = [ids |-> out.ids, at |-> out.at]
      /\ Walk(out.ids, f, ledger) /\ Grown(out.at, ledger) /\ Reached(out.ids, f, out.at, ledger)
  <2>1. CASE reader.part = "first"
    <3>1. out = [ids |-> <<>>, at |-> ledger]
      BY <2>1
    <3>2. Walk(<< >>, f, ledger) /\ Reached(<< >>, f, ledger, ledger)
      BY OneAsk DEF Walk, Reached, Ahead
    <3>. QED BY <3>1, <3>2 DEF Grown
  <2>2. CASE reader.part = "more"
    BY <1>4, <1>5, <2>2 DEF ExportInv, Exporting
  <2>. QED BY <1>1, <2>1, <2>2
<1>7. page = ListEvents(ledger, f, CursorOf(out.ids, ledger), PageSize)
  BY <1>5
<1> HIDE DEF out, page, f
<1>8. /\ Walk(out.ids \o page, f, ledger) /\ Reached(out.ids \o page, f, out.at, ledger)
      /\ Len(page) < PageSize => Complete(out.ids \o page, f, out.at)
  BY <1>1, <1>6, <1>7, NextPage
<1>9. CASE Len(page) < PageSize
  <2>1. Answered(out.ids \o page, out.at)
    BY <1>2, <1>9
  <2>2. reader'.answers = Append(reader.answers, out.ids \o page) /\ reader'.began = out.at
    BY <1>1, <1>5, <2>1 DEF Answered, IsReader
  <2>3. Len(reader'.answers) = 1 /\ reader'.answers[1] = out.ids \o page
    BY <1>1, <1>5, <2>2, SeqAppend DEF IsReader
  <2>. QED BY <1>3, <1>5, <1>8, <1>9, <2>2, <2>3 DEF Exporting, f
<1>10. CASE ~(Len(page) < PageSize)
  <2>1. reader' = [reader EXCEPT !.part = "more", !.got = [out EXCEPT !.ids = @ \o page]]
    BY <1>2, <1>10
  <2>2. /\ reader'.answers = reader.answers /\ reader'.began = None /\ reader'.part = "more"
        /\ reader'.got = [ids |-> out.ids \o page, at |-> out.at]
    BY <1>1, <1>5, <1>6, <2>1 DEF IsReader
  <2>. QED BY <1>3, <1>5, <1>6, <1>8, <2>2 DEF Exporting, f
<1>. QED BY <1>9, <1>10

LEMMA CollectingExports ==
    ASSUME ExportInv, Collecting
    PROVE  Exporting(reader', ledger')
<1>1. Grown(ledger, ledger') /\ UNCHANGED reader
  BY CollectingGrows DEF ExportInv, SummaryInv
<1>. QED BY <1>1, WalkGrows, GrownTwice DEF ExportInv, Exporting

LEMMA ExportsBegin == ReaderInit => ExportInv
<1> SUFFICES ASSUME ReaderInit PROVE ExportInv
  OBVIOUS
<1>1. PICK q \in Questions : reader = Start(q)
  BY DEF ReaderInit
<1>2. CASE q.kind # "export"
  BY <1>1, <1>2, ReadersBegin DEF ExportInv, Exporting, Start
<1>3. CASE q.kind = "export"
  <2>1. reader.asks = <<Asking("pages", q.f)>> /\ reader.answers = << >> /\ reader.began = None /\ reader.part = "first"
    BY <1>1, <1>3 DEF Start, AsksOf
  <2>. QED BY <2>1, ReadersBegin DEF ExportInv, Exporting, Asking
<1>. QED BY <1>2, <1>3

(* ExportExact: an export has every row of its window that was there when it  *)
(* began, each once and in the order of time and id, whatever is recorded and *)
(* priced between two of its pages (streamEventExport, WithEventTimeKeyset).  *)
THEOREM ExportsExact == ReaderSpec => []ExportExact
<1>1. ReaderInit => ExportInv
  BY ExportsBegin
<1>2. ExportInv /\ [ReaderNext]_readerVars => ExportInv'
  <2> SUFFICES ASSUME ExportInv, [ReaderNext]_readerVars PROVE ExportInv'
    OBVIOUS
  <2>1. SummaryInv'
    BY ReadersStep DEF ExportInv
  <2>2. CASE ListPage
    BY <2>1, <2>2, ListPageExports DEF ExportInv
  <2>3. CASE Collecting
    BY <2>1, <2>3, CollectingExports DEF ExportInv
  <2>4. CASE ReaderNext /\ ~ListPage /\ ~Collecting
    BY <2>1, <2>4, OthersDoNotExport DEF ExportInv, Exporting
  <2>5. CASE UNCHANGED readerVars
    BY <2>1, <2>5 DEF ExportInv, Exporting, readerVars
  <2>. QED BY <2>2, <2>3, <2>4, <2>5
<1>3. ExportInv => ExportExact
  BY ExportedIsExact
<1>. QED BY <1>1, <1>2, <1>3, PTL DEF ReaderSpec
-----------------------------------------------------------------------------
(* What calls and contexts are given of their turns *)

JoinedCalls(l) == {c \in l.calls : c.of # None}
ShareOf(l) == [c \in JoinedCalls(l) |-> Share(l, l.calls, c, l.rows[c.of].tokens)]
TurnsCalled(l) == {c.of : c \in l.calls} \ {None}
UsedBy(l) == [id \in Ids(l) |-> l.rows[id].tokens]

LEMMA JoinedShape ==
    ASSUME NEW l, IsLedger(l)
    PROVE  /\ IsFiniteSet(l.calls) /\ IsFiniteSet(JoinedCalls(l)) /\ JoinedCalls(l) \subseteq l.calls
           /\ \A c \in JoinedCalls(l) : c.of \in Ids(l)
           /\ TurnsCalled(l) \subseteq Ids(l) /\ IsFiniteSet(TurnsCalled(l)) /\ IsFiniteSet(Ids(l))
           /\ \A id \in Ids(l) : UsedBy(l)[id] = l.rows[id].tokens /\ UsedBy(l)[id] \in Nat
<1>1. IsFiniteSet(l.calls) /\ \A c \in l.calls : c.of \in Ids(l) \cup {None}
  BY DEF IsLedger
<1>2. IsFiniteSet(Ids(l)) /\ \A id \in Ids(l) : l.rows[id].tokens \in Nat
  BY LedgerShape DEF EventRow
<1>3. IsFiniteSet(JoinedCalls(l)) /\ JoinedCalls(l) \subseteq l.calls /\ \A c \in JoinedCalls(l) : c.of \in Ids(l)
  BY <1>1, FS_Subset DEF JoinedCalls
<1>4. TurnsCalled(l) \subseteq Ids(l)
  BY <1>1 DEF TurnsCalled
<1>. QED BY <1>1, <1>2, <1>3, <1>4, FS_Subset DEF UsedBy

LEMMA WholeShares ==
    ASSUME NEW n \in Nat \ {0}, NEW t \in Nat
    PROVE  t \div n \in Nat /\ n * (t \div n) \in Nat /\ n * (t \div n) <= t
<1>1. t % n \in 0 .. n - 1 /\ t \div n \in Int /\ t = n * (t \div n) + (t % n) /\ t \div n \in Nat
  OBVIOUS
<1> DEFINE r == t % n
           d == t \div n
           x == n * d
<1>2. x \in Nat /\ r \in Nat /\ t = x + r
  BY <1>1
<1> HIDE DEF x, r
<1>3. x <= t
  BY <1>2
<1>. QED BY <1>1, <1>2, <1>3 DEF x

(* The calls of one turn, all of them, have at most what the turn used.       *)
LEMMA SharesOfTurn ==
    ASSUME NEW l, IsLedger(l), NEW id \in TurnsCalled(l), NEW A, A = {c \in JoinedCalls(l) : c.of = id}
    PROVE  /\ \A c \in A : ShareOf(l)[c] \in Nat
           /\ SumFunctionOnSet(ShareOf(l), A) \in Nat
           /\ SumFunctionOnSet(ShareOf(l), A) <= UsedBy(l)[id]
<1> DEFINE n == Cardinality(A)
           t == l.rows[id].tokens
           d == t \div n
<1>1. A = {k \in l.calls : k.of = id} /\ A # {}
  BY DEF TurnsCalled, JoinedCalls
<1>2. IsFiniteSet(A) /\ n \in Nat
  BY <1>1, JoinedShape, FS_Subset, FS_CardinalityType
<1>3. n # 0
  BY <1>1, <1>2, FS_EmptySet
<1>4. t \in Nat /\ UsedBy(l)[id] = t
  BY JoinedShape
<1>5. ASSUME NEW c \in A PROVE ShareOf(l)[c] = d
  <2>1. c.of = id /\ c \in JoinedCalls(l)
    OBVIOUS
  <2>2. activityCount(l, l.calls, c) = n
    BY <1>1, <2>1 DEF activityCount
  <2>. QED BY <2>1, <2>2 DEF ShareOf, Share
<1>6. d \in Nat /\ n * d \in Nat /\ n * d <= t
  BY <1>2, <1>3, <1>4, WholeShares
<1> HIDE DEF d, n
<1>7. SumFunctionOnSet(ShareOf(l), A) = n * d
  BY <1>2, <1>5, <1>6, SumOfEqual DEF n
<1>. QED BY <1>4, <1>5, <1>6, <1>7

LEMMA SharesWithin ==
    ASSUME NEW l, IsLedger(l)
    PROVE  /\ \A c \in JoinedCalls(l) : ShareOf(l)[c] \in Nat
           /\ SumFunctionOnSet(ShareOf(l), JoinedCalls(l)) <= SumFunctionOnSet(UsedBy(l), TurnsCalled(l))
<1> DEFINE J == JoinedCalls(l)
           T == TurnsCalled(l)
           h == [c \in J |-> c.of]
           Of(id) == {c \in J : c.of = id}
           w == [id \in T |-> SumFunctionOnSet(ShareOf(l), Of(id))]
<1>1. \A c \in J : c.of \in T /\ c \in Of(c.of)
  BY DEF JoinedCalls, TurnsCalled
<1>2. \A id \in T : /\ \A c \in Of(id) : ShareOf(l)[c] \in Nat
                    /\ w[id] \in Nat /\ w[id] <= UsedBy(l)[id]
  BY SharesOfTurn
<1>3. \A c \in J : ShareOf(l)[c] \in Nat
  BY <1>1, <1>2
<1>4. IsFiniteSet(J) /\ IsFiniteSet(T) /\ \A id \in T : UsedBy(l)[id] \in Nat
  BY JoinedShape
<1>5. \A id \in T : \E c \in J : h[c] = id
  BY DEF JoinedCalls, TurnsCalled
<1>6. ASSUME NEW id \in T, NEW A \in SUBSET J, \A c \in J : c \in A <=> h[c] = id
      PROVE  w[id] = SumFunctionOnSet(ShareOf(l), A)
  <2>1. A = Of(id)
    BY <1>6
  <2>. QED BY <2>1
<1>7. Regroups(J, ShareOf(l), h, T, w)
  BY <1>1, <1>3, <1>4, <1>5, <1>6 DEF Regroups
<1> HIDE DEF J, T, h, w
<1>8. SumFunctionOnSet(w, T) = SumFunctionOnSet(ShareOf(l), J)
  BY <1>7, SumRegroups
<1>9. SumFunctionOnSet(w, T) <= SumFunctionOnSet(UsedBy(l), T)
  BY <1>2, <1>4, SumGrows
<1>. QED BY <1>3, <1>8, <1>9 DEF J, T

(* What a query attributes is the shares of the calls it selects.             *)
LEMMA AttributedShares ==
    ASSUME NEW l, IsLedger(l), NEW S, S \subseteq l.calls, NEW A, A = {c \in S : c.of # None}
    PROVE  /\ A \subseteq JoinedCalls(l)
           /\ AttributedTokens(l, S, S) = SumFunctionOnSet(ShareOf(l), A)
<1> DEFINE g == [c \in A |-> Share(l, S, c, l.rows[c.of].tokens)]
<1>1. A \subseteq JoinedCalls(l) /\ IsFiniteSet(A)
  <2>1. A \subseteq JoinedCalls(l)
    BY DEF JoinedCalls
  <2>. QED BY <2>1, JoinedShape, FS_Subset
<1>2. AttributedTokens(l, S, S) = SumFunctionOnSet(g, A)
  BY DEF AttributedTokens, SumFunction
<1>3. \A c \in A : g[c] = ShareOf(l)[c]
  BY <1>1 DEF ShareOf, Share, activityCount
<1> HIDE DEF g
<1>4. SumFunctionOnSet(g, A) = SumFunctionOnSet(ShareOf(l), A)
  BY <1>1, <1>3, SumAgrees
<1>. QED BY <1>1, <1>2, <1>4

(* Two queries that have no call in common.                                   *)
LEMMA TwoQueriesWithin ==
    ASSUME NEW l, IsLedger(l), NEW S, S \subseteq l.calls, NEW T, T \subseteq l.calls, S \cap T = {}
    PROVE  /\ AttributedTokens(l, S, S) \in Nat /\ AttributedTokens(l, T, T) \in Nat
           /\ AttributedTokens(l, S, S) + AttributedTokens(l, T, T) <= SumFunctionOnSet(UsedBy(l), TurnsCalled(l))
           /\ SumFunctionOnSet(UsedBy(l), TurnsCalled(l)) \in Nat
<1> DEFINE A == {c \in S : c.of # None}
           B == {c \in T : c.of # None}
           J == JoinedCalls(l)
<1>1. /\ A \subseteq J /\ AttributedTokens(l, S, S) = SumFunctionOnSet(ShareOf(l), A)
      /\ B \subseteq J /\ AttributedTokens(l, T, T) = SumFunctionOnSet(ShareOf(l), B)
  BY AttributedShares
<1>2. A \cap B = {}
  OBVIOUS
<1>3. IsFiniteSet(J) /\ (\A c \in J : ShareOf(l)[c] \in Nat)
      /\ SumFunctionOnSet(ShareOf(l), J) <= SumFunctionOnSet(UsedBy(l), TurnsCalled(l))
  BY JoinedShape, SharesWithin
<1> HIDE DEF A, B, J
<1>4. IsFiniteSet(A) /\ IsFiniteSet(B) /\ A \cup B \subseteq J /\ \A c \in A \cup B : ShareOf(l)[c] \in Int
  BY <1>1, <1>3, FS_Subset
<1>5. SumFunctionOnSet(ShareOf(l), A \cup B) = SumFunctionOnSet(ShareOf(l), A) + SumFunctionOnSet(ShareOf(l), B)
  BY <1>2, <1>4, SumOfBoth
<1>6. SumFunctionOnSet(ShareOf(l), A \cup B) <= SumFunctionOnSet(ShareOf(l), J)
  BY <1>3, <1>4, SumOfPart
<1>7. SumFunctionOnSet(ShareOf(l), A) \in Nat /\ SumFunctionOnSet(ShareOf(l), B) \in Nat /\ SumFunctionOnSet(ShareOf(l), J) \in Nat
  BY <1>1, <1>3, SumOfPart
<1>8. SumFunctionOnSet(UsedBy(l), TurnsCalled(l)) \in Nat
  BY JoinedShape, SumIsNat
<1>. QED BY <1>1, <1>3, <1>5, <1>6, <1>7, <1>8

LEMMA SumsOfTurns ==
    ASSUME NEW l, NEW some, \A c \in some : c.of # None
    PROVE  /\ TurnSums(l, some).events = Cardinality(some)
           /\ TurnSums(l, some).tokens = SumFunctionOnSet([c \in some |-> l.rows[c.of].tokens], some)
<1>1. {c \in some : c.of # None} = some
  OBVIOUS
<1>2. TurnSums(l, some).tokens = SumFunction([c \in {c \in some : c.of # None} |-> l.rows[c.of].tokens])
  BY DEF TurnSums
<1>3. TurnSums(l, some).tokens = SumFunction([c \in some |-> l.rows[c.of].tokens])
  BY <1>1, <1>2
<1>. QED BY <1>3 DEF TurnSums, SumFunction

(* A query of turns that groups by something: every turn is in one bucket.    *)
LEMMA TurnsCountedOnce ==
    ASSUME NEW l, IsLedger(l), NEW dim, NEW f, f.by # {}, NEW b, b = SummarizeTurnContext(l, dim, f)
    PROVE  /\ Tokens(b, Keys(b)) <= SumFunctionOnSet(UsedBy(l), Ids(l))
           /\ Events(b, Keys(b)) <= Len(l.rows)
<1> DEFINE S == {c \in l.contexts : buildTurnContextWhere(dim, f, c)}
           h == [c \in S |-> turnGroupExpr(dim, f.by, c)]
           K == {h[c] : c \in S}
           Of(k) == {c \in S : turnGroupExpr(dim, f.by, c) = k}
           tokens == [c \in S |-> l.rows[c.of].tokens]
           one == [c \in S |-> 1]
           of == [c \in S |-> c.of]
           sums == [k \in K |-> SumFunctionOnSet(tokens, Of(k))]
           counts == [k \in K |-> Cardinality(Of(k))]
<1>1. /\ IsFiniteSet(S) /\ \A c \in S : c.of \in Ids(l) /\ c.of # None
      /\ \A c, d \in S : c.of = d.of => c = d
  <2>1. /\ IsFiniteSet(l.contexts) /\ \A c \in l.contexts : c.of \in Ids(l)
        /\ \A c, d \in l.contexts : c.of = d.of /\ c.dimension = d.dimension => c = d
    BY DEF IsLedger
  <2>2. None \notin Ids(l)
    BY LedgerShape, ReaderAssumption
  <2>. QED BY <2>1, <2>2, FS_Subset DEF buildTurnContextWhere
<1>2. /\ SumFunctionOnSet(UsedBy(l), Ids(l)) \in Nat /\ Len(l.rows) \in Nat /\ Ids(l) = 1 .. Len(l.rows)
  BY LedgerShape, JoinedShape, SumIsNat
<1>3. CASE ~Answerable(dim, f)
  <2>1. b = << >>
    BY <1>3 DEF SummarizeTurnContext
  <2>2. Keys(b) = {}
    BY <2>1 DEF Keys
  <2>3. Tokens(b, Keys(b)) = 0 /\ Events(b, Keys(b)) = 0
    BY <2>2, SumOfNone DEF Tokens, Events, SumFunction
  <2>. QED BY <1>2, <2>3
<1>4. CASE Answerable(dim, f)
  <2>1. b = [k \in K |-> TurnSums(l, Of(k))]
    <3>1. {turnGroupExpr(dim, f.by, c) : c \in S} \cup (IF f.by = {} THEN {<<>>} ELSE {}) = K
      OBVIOUS
    <3>. QED BY <1>4, <3>1 DEF SummarizeTurnContext
  <2>2. ASSUME NEW k \in K PROVE b[k].tokens = sums[k] /\ b[k].events = counts[k]
    <3> DEFINE g == [c \in Of(k) |-> l.rows[c.of].tokens]
    <3>1. b[k] = TurnSums(l, Of(k)) /\ \A c \in Of(k) : c.of # None
      BY <1>1, <2>1
    <3>2. b[k].tokens = SumFunctionOnSet(g, Of(k)) /\ b[k].events = Cardinality(Of(k))
      BY <3>1, SumsOfTurns
    <3>3. \A c \in Of(k) : g[c] = tokens[c]
      OBVIOUS
    <3>4. IsFiniteSet(Of(k))
      BY <1>1, FS_Subset
    <3>5. sums[k] = SumFunctionOnSet(tokens, Of(k)) /\ counts[k] = Cardinality(Of(k))
      OBVIOUS
    <3> HIDE DEF g, tokens, Of, sums, counts, S, K
    <3>6. SumFunctionOnSet(g, Of(k)) = SumFunctionOnSet(tokens, Of(k))
      BY <3>3, <3>4, SumAgrees
    <3>. QED BY <3>2, <3>5, <3>6
  <2>3. Keys(b) = K
    BY <2>1 DEF Keys
  <2>4. IsFiniteSet(K)
    <3> HIDE DEF S, h
    <3>. QED BY <1>1, ImageIsFinite
  <2>5. Tokens(b, Keys(b)) = SumFunctionOnSet(sums, K) /\ Events(b, Keys(b)) = SumFunctionOnSet(counts, K)
    <3> DEFINE x == [k \in K |-> b[k].tokens]
               y == [k \in K |-> b[k].events]
    <3>1. x = sums /\ y = counts
      BY <2>2
    <3>2. Tokens(b, Keys(b)) = SumFunctionOnSet(x, K) /\ Events(b, Keys(b)) = SumFunctionOnSet(y, K)
      BY <2>3 DEF Tokens, Events, SumFunction
    <3> HIDE DEF x, y, sums, counts, K
    <3>. QED BY <3>1, <3>2
  <2>6. \A c \in S : tokens[c] \in Nat /\ tokens[c] = UsedBy(l)[of[c]] /\ of[c] \in Ids(l) /\ one[c] = 1
    BY <1>1, JoinedShape
  <2>7. \A c \in S : h[c] \in K
    OBVIOUS
  <2>8. \A k \in K : \E c \in S : h[c] = k
    OBVIOUS
  <2>9. ASSUME NEW k \in K, NEW A \in SUBSET S, \A c \in S : c \in A <=> h[c] = k
        PROVE  sums[k] = SumFunctionOnSet(tokens, A) /\ counts[k] = SumFunctionOnSet(one, A)
    <3>1. A = Of(k)
      BY <2>9
    <3>2. IsFiniteSet(A) /\ \A c \in A : one[c] = 1
      BY <1>1, FS_Subset
    <3>3. sums[k] = SumFunctionOnSet(tokens, A) /\ counts[k] = Cardinality(A)
      BY <3>1
    <3> HIDE DEF one
    <3>4. SumFunctionOnSet(one, A) = Cardinality(A) * 1 /\ Cardinality(A) \in Nat
      BY <3>2, SumOfEqual, FS_CardinalityType
    <3>. QED BY <3>3, <3>4
  <2>10. \A c, d \in S : of[c] = of[d] => c = d
    BY <1>1
  <2> HIDE DEF h, tokens, one, of, sums, counts, K, S
  <2>11. Regroups(S, tokens, h, K, sums) /\ Regroups(S, one, h, K, counts)
    BY <1>1, <2>6, <2>7, <2>8, <2>9 DEF Regroups
  <2>12. SumFunctionOnSet(sums, K) = SumFunctionOnSet(tokens, S) /\ SumFunctionOnSet(counts, K) = SumFunctionOnSet(one, S)
    BY <2>11, SumRegroups
  <2> DEFINE R == {of[c] : c \in S}
  <2>13. R \subseteq Ids(l)
    BY <2>6
  <2>14. SumFunctionOnSet(tokens, S) = SumFunctionOnSet(UsedBy(l), R)
    BY <1>1, <2>6, <2>10, SumRenamed
  <2>15. SumFunctionOnSet(UsedBy(l), R) <= SumFunctionOnSet(UsedBy(l), Ids(l))
    <3> HIDE DEF R
    <3>. QED BY <2>13, JoinedShape, SumOfPart
  <2>16. SumFunctionOnSet(one, S) = Cardinality(S) * 1 /\ Cardinality(S) \in Nat
    BY <1>1, <2>6, SumOfEqual, FS_CardinalityType
  <2>17. Cardinality(S) <= Len(l.rows)
    <3>1. of \in [S -> 1 .. Len(l.rows)]
      BY <1>2, <2>6 DEF of
    <3>2. of \in Injection(S, 1 .. Len(l.rows))
      BY <2>10, <3>1, Fun_IsInj
    <3>3. IsFiniteSet(1 .. Len(l.rows)) /\ Cardinality(1 .. Len(l.rows)) = Len(l.rows)
      BY <1>2, FS_Interval
    <3>. QED BY <3>2, <3>3, FS_Injection
  <2>. QED BY <2>5, <2>12, <2>14, <2>15, <2>16, <2>17
<1>. QED BY <1>3, <1>4

(* The calls a query selects, by name and by time.                            *)
LEMMA CallsApart ==
    ASSUME NEW l, IsLedger(l)
    PROVE  /\ \A ns : ns # {} => SelectedCalls(l, [Everytime EXCEPT !.names = ns]) = {c \in l.calls : c.name \in ns}
           /\ \A t \in Int :
                 /\ SelectedCalls(l, [Everytime EXCEPT !.until = t]) = {c \in l.calls : c.at < t}
                 /\ SelectedCalls(l, [Everytime EXCEPT !.since = t]) = {c \in l.calls : c.at >= t}
<1>1. Everytime = [since |-> None, until |-> None, by |-> {}, models |-> {}, kinds |-> {}, names |-> {}, values |-> {}, skills |-> {}]
  BY DEF Everytime, ActivityFilter
<1>2. ASSUME NEW ns, ns # {}
      PROVE  SelectedCalls(l, [Everytime EXCEPT !.names = ns]) = {c \in l.calls : c.name \in ns}
  BY <1>1, <1>2 DEF SelectedCalls, buildActivityWhere, Within, In
<1>4. ASSUME NEW t \in Int
      PROVE  /\ SelectedCalls(l, [Everytime EXCEPT !.until = t]) = {c \in l.calls : c.at < t}
             /\ SelectedCalls(l, [Everytime EXCEPT !.since = t]) = {c \in l.calls : c.at >= t}
  <2>1. t # None
    BY ReaderAssumption
  <2>. QED BY <1>1, <2>1 DEF SelectedCalls, buildActivityWhere, Within, In
<1>. QED BY <1>2, <1>4

(* SharesNeverInflate, of any ledger there may be.                            *)
LEMMA LedgerShares == IsLedger(ledger) => SharesNeverInflate
<1> SUFFICES ASSUME IsLedger(ledger) PROVE SharesNeverInflate
  OBVIOUS
<1> DEFINE calls == ledger.calls
           names == {c.name : c \in calls}
           used(ids) == SumFunction([id \in ids |-> ledger.rows[id].tokens])
           turns == used({c.of : c \in calls} \ {None})
           named(ns) == IF ns = {} THEN 0 ELSE Given([Everytime EXCEPT !.names = ns])
           G(S) == AttributedTokens(ledger, S, S)
<1>1. \A ids : ids \subseteq Ids(ledger) => used(ids) = SumFunctionOnSet(UsedBy(ledger), ids)
  <2>1. ASSUME NEW ids, ids \subseteq Ids(ledger) PROVE used(ids) = SumFunctionOnSet(UsedBy(ledger), ids)
    <3> DEFINE g == [id \in ids |-> ledger.rows[id].tokens]
    <3>1. used(ids) = SumFunctionOnSet(g, ids)
      BY DEF SumFunction
    <3>2. \A id \in ids : g[id] = UsedBy(ledger)[id]
      BY <2>1 DEF UsedBy
    <3>3. IsFiniteSet(ids)
      BY <2>1, JoinedShape, FS_Subset
    <3> HIDE DEF g, used
    <3>4. SumFunctionOnSet(g, ids) = SumFunctionOnSet(UsedBy(ledger), ids)
      BY <3>2, <3>3, SumAgrees
    <3>. QED BY <3>1, <3>4
  <2>. QED BY <2>1
<1>2. turns = SumFunctionOnSet(UsedBy(ledger), TurnsCalled(ledger))
  <2>1. TurnsCalled(ledger) = {c.of : c \in calls} \ {None} /\ TurnsCalled(ledger) \subseteq Ids(ledger)
    BY JoinedShape DEF TurnsCalled
  <2> HIDE DEF used
  <2>. QED BY <1>1, <2>1
<1> HIDE DEF turns
<1>3. \A S, T : S \subseteq calls /\ T \subseteq calls /\ S \cap T = {} => G(S) + G(T) <= turns /\ G(S) \in Nat /\ G(S) <= turns
  <2>1. ASSUME NEW S, NEW T, S \subseteq calls, T \subseteq calls, S \cap T = {}
        PROVE  G(S) + G(T) <= turns /\ G(S) \in Nat /\ G(T) \in Nat /\ turns \in Nat
    BY <1>2, <2>1, TwoQueriesWithin
  <2> HIDE DEF G, calls
  <2>2. ASSUME NEW S, NEW T, S \subseteq calls, T \subseteq calls, S \cap T = {}
        PROVE  G(S) <= turns
    BY <2>1, <2>2
  <2>. QED BY <2>1, <2>2
<1>4. ASSUME NEW n \in names PROVE named({n}) + named(names \ {n}) <= turns
  <2> DEFINE one == {n}
             S == {c \in calls : c.name \in one}
             T == {c \in calls : c.name \in names \ {n}}
  <2>1. S \subseteq calls /\ T \subseteq calls /\ S \cap T = {}
    OBVIOUS
  <2>2. named(one) = G(S)
    <3>1. one # {}
      OBVIOUS
    <3> HIDE DEF one
    <3>. QED BY <3>1, CallsApart DEF Given
  <2>3. CASE names \ {n} = {}
    <3>1. named(names \ {n}) = 0
      BY <2>3
    <3> HIDE DEF named, names, S, T, G, calls
    <3>. QED BY <1>3, <2>1, <2>2, <3>1
  <2>4. CASE names \ {n} # {}
    <3>1. named(names \ {n}) = G(T)
      BY <2>4, CallsApart DEF Given
    <3> HIDE DEF named, names, S, T, G, calls
    <3>. QED BY <1>3, <2>1, <2>2, <3>1
  <2>. QED BY <2>3, <2>4
<1>5. ASSUME NEW t \in {c.at : c \in calls}
      PROVE  Given([Everytime EXCEPT !.until = t]) + Given([Everytime EXCEPT !.since = t]) <= turns
  <2> DEFINE S == {c \in calls : c.at < t}
             T == {c \in calls : c.at >= t}
  <2>1. calls \subseteq CallRow
    BY DEF IsLedger
  <2>2. t \in Int /\ \A c \in calls : c.at \in Int
    BY <2>1 DEF CallRow
  <2>3. S \subseteq calls /\ T \subseteq calls /\ S \cap T = {}
    BY <2>2
  <2>4. Given([Everytime EXCEPT !.until = t]) = G(S) /\ Given([Everytime EXCEPT !.since = t]) = G(T)
    BY <2>2, CallsApart DEF Given
  <2> HIDE DEF S, T, G, calls
  <2>. QED BY <1>3, <2>3, <2>4
<1>6. ASSUME NEW dim \in Dimensions, NEW by \in {{"day", "model"}, {"agent"}},
             NEW b, b = SummarizeTurnContext(ledger, dim, ActivityFilter(None, None, by))
      PROVE  Tokens(b, Keys(b)) <= used(Ids(ledger)) /\ Events(b, Keys(b)) <= Len(ledger.rows)
  <2>1. ActivityFilter(None, None, by).by # {}
    BY DEF ActivityFilter
  <2> HIDE DEF used
  <2>. QED BY <1>1, <1>6, <2>1, TurnsCountedOnce
<1>. QED BY <1>4, <1>5, <1>6 DEF SharesNeverInflate, turns

(* SharesNeverInflate: however the calls of the ledger are divided between    *)
(* two queries, by name or by time, they are given no more than their turns   *)
(* used, also when calls of a turn are recorded later; and no query of turns  *)
(* counts a turn twice (activityDivisorSQL, buildTurnContextWhere).           *)
THEOREM SharesAreWithin == ReaderSpec => []SharesNeverInflate
<1>1. ReaderInit => SummaryInv
  BY ReadersBegin
<1>2. SummaryInv /\ [ReaderNext]_readerVars => SummaryInv'
  BY ReadersStep
<1>3. SummaryInv => SharesNeverInflate
  BY LedgerShares DEF SummaryInv
<1>. QED BY <1>1, <1>2, <1>3, PTL DEF ReaderSpec
=============================================================================
