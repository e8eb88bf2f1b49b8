---------------------------- MODULE RuntimeProofs ----------------------------
(***************************************************************************)
(* Theorems about two parts of the tagma's runtime that share no state:    *)
(* the work schedule with its engine (Shift), then the shell of an agent   *)
(* (Shell).                                                                *)
(*                                                                         *)
(* Shift.  The evaluator is exact for every schedule that passes Validate, *)
(* every length of hour, day and cycle, and every time.  The engine's      *)
(* cycle is then right about what is ahead of it (CycleInv), and between   *)
(* passes it is the cycle of the stored row (SyncInv): so duty follows the *)
(* schedule.                                                               *)
(*                                                                         *)
(* Shell.  No background task runs on a writable set older than a          *)
(* carve-out that passed the gate, for every number of children and        *)
(* carve-outs.  The argument needs the exact tally (a gate that finds it   *)
(* at zero finds no task running), the exclusion of the gate's two sides   *)
(* (no snapshot is used across a carve) and the epoch (a command that is   *)
(* adopted was not overtaken).                                             *)
(***************************************************************************)
EXTENDS Shift, Shell, FiniteSetTheorems, WellFoundedInduction, TLAPS

(***************************************************************************)
(* Numbers.                                                                *)
(***************************************************************************)

\* What \div and % are, for a positive divisor.
LEMMA DivMod ==
    ASSUME NEW a \in Int, NEW n \in Nat \ {0}
    PROVE  a \div n \in Int /\ a % n \in 0..(n - 1) /\ a = ((a \div n) * n) + (a % n)
OBVIOUS

\* There is one quotient and one remainder.
LEMMA DivModUnique ==
    ASSUME NEW q \in Int, NEW n \in Nat \ {0}, NEW r \in 0..(n - 1)
    PROVE  ((q * n) + r) \div n = q /\ ((q * n) + r) % n = r
<1> DEFINE a == (q * n) + r
<1>1. a \in Int /\ a = (q * n) + r
  OBVIOUS
<1> HIDE DEF a
<1>2. a \div n = q /\ a % n = r
  BY <1>1
<1> QED BY <1>2 DEF a

\* A multiple is at least one divisor away from the next.
LEMMA Apart ==
    ASSUME NEW d \in Int, NEW e \in Int, NEW n \in Nat \ {0}, d < e
    PROVE  d * n \in Int /\ e * n \in Int /\ (d * n) + n <= e * n
<1>1. d * n \in Int /\ e * n \in Int /\ (d + 1) * n = (d * n) + n
  OBVIOUS
<1>2. PICK k \in Nat : e = (d + 1) + k
  <2>1. e - (d + 1) \in Nat /\ e = (d + 1) + (e - (d + 1))
    OBVIOUS
  <2> QED BY <2>1
<1>3. e * n = ((d + 1) * n) + (k * n) /\ k * n \in Nat
  BY <1>2
<1> QED BY <1>1, <1>3

\* A set of numbers with a lower bound has a least member.
LEMMA MinIs ==
    ASSUME NEW S \in SUBSET Int, S # {}, NEW b \in Int, \A x \in S : b <= x
    PROVE  Min(S) \in S /\ \A y \in S : Min(S) <= y
<1> DEFINE T == {x - b : x \in S}
<1>0. \A x \in S : x - b \in Nat
  OBVIOUS
<1>1. T \subseteq Nat /\ T # {}
  BY <1>0
<1>2. PICK m \in T : \A y \in T : ~ (<<y, m>> \in OpToRel(<, Nat))
  BY <1>1, WFMin, NatLessThanWellFounded
<1>3. \A y \in T : ~ (y < m)
  BY <1>1, <1>2 DEF OpToRel
<1>4. PICK k \in S : m = k - b
  BY <1>2
<1>5. ASSUME NEW y \in S PROVE k <= y
  <2>1. ~ (y - b < k - b)
    BY <1>3, <1>4
  <2>2. y \in Int /\ k \in Int /\ b \in Int
    OBVIOUS
  <2> HIDE DEF T
  <2> QED BY <2>1, <2>2
<1> HIDE DEF T
<1> QED BY <1>4, <1>5 DEF Min

\* A set of numbers with an upper bound has a greatest member.
LEMMA MaxIs ==
    ASSUME NEW S \in SUBSET Int, S # {}, NEW b \in Int, \A x \in S : x <= b
    PROVE  Max(S) \in S /\ \A y \in S : y <= Max(S)
<1> DEFINE T == {b - x : x \in S}
<1>0. \A x \in S : b - x \in Nat
  OBVIOUS
<1>1. T \subseteq Nat /\ T # {}
  BY <1>0
<1>2. PICK m \in T : \A y \in T : ~ (<<y, m>> \in OpToRel(<, Nat))
  BY <1>1, WFMin, NatLessThanWellFounded
<1>3. \A y \in T : ~ (y < m)
  BY <1>1, <1>2 DEF OpToRel
<1>4. PICK k \in S : m = b - k
  BY <1>2
<1>5. ASSUME NEW y \in S PROVE y <= k
  <2>1. ~ (b - y < b - k)
    BY <1>3, <1>4
  <2>2. y \in Int /\ k \in Int /\ b \in Int
    OBVIOUS
  <2> HIDE DEF T
  <2> QED BY <2>1, <2>2
<1> HIDE DEF T
<1> QED BY <1>4, <1>5 DEF Max

(***************************************************************************)
(* The evaluator.                                                          *)
(***************************************************************************)

\* What EvalIsExact says of the evaluator, for any schedule and time, and that a
\* shift begins where it says the next one starts.
Exact(spec, t) ==
    LET st == WindowStatus(spec, t)
    IN  /\ st.start \in Int /\ st.end \in Int /\ st.inside \in BOOLEAN
        /\ st.inside = OnAt(spec, t)
        /\ st.end > t /\ st.start > t
        /\ OnAt(spec, st.start)
        /\ \A u \in (IF st.inside THEN t ELSE st.start)..(st.end - 1) : OnAt(spec, u)
        /\ ~st.inside => \A u \in t..(st.start - 1) : ~OnAt(spec, u)

\* Being on duty is a Boolean.
LEMMA OnAtType ==
    ASSUME NEW spec \in Schedules, NEW t
    PROVE  OnAt(spec, t) \in BOOLEAN
<1>1. CASE spec.kind = "always"
  BY <1>1 DEF OnAt
<1>2. CASE spec.kind = "interval"
  BY <1>2 DEF OnAt
<1>3. CASE spec.kind = "calendar"
  BY <1>3 DEF OnAt
<1> QED BY <1>1, <1>2, <1>3 DEF Schedules, Always

\* How the cases of the evaluators show it: inside a shift, and outside.
LEMMA ExactInside ==
    ASSUME NEW spec \in Schedules, NEW t \in Int, NEW start \in Int, NEW end \in Int,
           WindowStatus(spec, t) = Facts(TRUE, start, end), end > t, start > t,
           OnAt(spec, start), \A u \in t..(end - 1) : OnAt(spec, u)
    PROVE  Exact(spec, t)
<1>1. OnAt(spec, t) = TRUE
  <2>1. OnAt(spec, t)
    OBVIOUS
  <2>2. OnAt(spec, t) \in BOOLEAN
    BY OnAtType
  <2> QED BY <2>1, <2>2
<1> QED BY <1>1 DEF Exact, Facts

\* The same outside a shift.
LEMMA ExactOutside ==
    ASSUME NEW spec \in Schedules, NEW t \in Int, NEW start \in Int, NEW end \in Int,
           WindowStatus(spec, t) = Facts(FALSE, start, end), end > t, start > t,
           OnAt(spec, start), \A u \in start..(end - 1) : OnAt(spec, u),
           \A u \in t..(start - 1) : ~OnAt(spec, u)
    PROVE  Exact(spec, t)
<1>1. OnAt(spec, t) = FALSE
  <2>1. ~OnAt(spec, t)
    OBVIOUS
  <2>2. OnAt(spec, t) \in BOOLEAN
    BY OnAtType
  <2> QED BY <2>1, <2>2
<1> DEFINE st == WindowStatus(spec, t)
<1>2. st.inside = FALSE /\ st.start = start /\ st.end = end
  BY DEF Facts
<1> QED BY <1>1, <1>2 DEF Exact

\* A rotation is the set of its shifts, each some periods after the anchor.
LEMMA IntervalOnAt ==
    ASSUME NEW spec \in Schedules, spec.kind = "interval", Validate(spec), NEW t \in Int
    PROVE  /\ spec.every * HourLen \in Nat \ {0} /\ spec.anchor \in Int /\ spec.length \in Nat \ {0}
           /\ OnAt(spec, t) <=>
                \E n \in Nat : LET from == spec.anchor + (n * (spec.every * HourLen))
                               IN  from <= t /\ t < from + spec.length
<1> DEFINE p == spec.every * HourLen
           a == spec.anchor
<1>1. spec.every \in Nat \ {0} /\ a \in Int /\ spec.length \in Nat \ {0}
  BY DEF Schedules, Validate, Always
<1>2. p \in Nat \ {0}
  BY <1>1, ShiftAssumption
<1>3. OnAt(spec, t) <=> \E from \in a..t : (from - a) % p = 0 /\ t < from + spec.length
  BY DEF OnAt
<1> HIDE DEF p, a
<1>4. ASSUME NEW from \in a..t, (from - a) % p = 0
      PROVE  \E n \in Nat : from = a + (n * p)
  <2>1. from - a \in Nat /\ from - a \in Int
    BY <1>1
  <2>2. PICK n \in Int : from - a = n * p
    <3>1. /\ (from - a) \div p \in Int
          /\ from - a = (((from - a) \div p) * p) + ((from - a) % p)
      BY <1>2, <2>1, DivMod, Zenon
    <3>2. ((from - a) \div p) * p \in Int
      BY <1>2, <3>1
    <3> QED BY <1>4, <3>1, <3>2
  <2>3. n >= 0
    <3>1. ASSUME n < 0 PROVE FALSE
      <4>1. (n * p) + p <= 0 * p
        BY <1>2, <2>2, <3>1, Apart
      <4> QED BY <1>1, <1>2, <2>1, <2>2, <4>1
    <3> QED BY <2>2, <3>1
  <2>4. n * p \in Int
    BY <1>2, <2>2
  <2> QED BY <1>1, <2>2, <2>3, <2>4
<1>5. ASSUME NEW n \in Nat, a + (n * p) <= t
      PROVE  a + (n * p) \in a..t /\ ((a + (n * p)) - a) % p = 0
  <2>1. n * p \in Nat
    BY <1>2
  <2>2. ((n * p) + 0) % p = 0
    BY <1>2, DivModUnique
  <2>3. (n * p) + 0 = n * p /\ (a + (n * p)) - a = n * p
    BY <1>1, <2>1
  <2> QED BY <1>1, <1>5, <2>1, <2>2, <2>3
<1>6. OnAt(spec, t) <=> \E n \in Nat : a + (n * p) <= t /\ t < (a + (n * p)) + spec.length
  BY <1>1, <1>3, <1>4, <1>5
<1> QED BY <1>1, <1>2, <1>6 DEF p, a

\* The rotation's evaluator is exact (eval_interval).
LEMMA IntervalExact ==
    ASSUME NEW spec \in Schedules, spec.kind = "interval", Validate(spec), NEW t \in Int
    PROVE  Exact(spec, t)
<1> DEFINE p == spec.every * HourLen
           a == spec.anchor
           l == spec.length
           On(u) == OnAt(spec, u)
<1>1. p \in Nat \ {0} /\ a \in Int /\ l \in Nat \ {0}
  BY IntervalOnAt
<1>2. ASSUME NEW u \in Int
      PROVE  On(u) <=> \E n \in Nat : a + (n * p) <= u /\ u < (a + (n * p)) + l
  BY IntervalOnAt
<1>3. \A n \in Nat : n * p \in Nat
  BY <1>1
<1>4. WindowStatus(spec, t) = EvalInterval(spec, t)
  BY DEF WindowStatus
<1>5. CASE t < a
  <2>1. WindowStatus(spec, t) = Facts(FALSE, a, a + l)
    BY <1>4, <1>5 DEF EvalInterval
  <2> HIDE DEF p, a, l, On
  <2>2. 0 * p = 0
    BY <1>1
  <2>3. \A u \in a..((a + l) - 1) : On(u)
    BY <1>1, <1>2, <2>2
  <2>4. \A u \in Int : u < a => ~On(u)
    BY <1>1, <1>2, <1>3
  <2>5. On(a) /\ ~On(t) /\ (\A u \in t..(a - 1) : ~On(u)) /\ a + l \in Int /\ a + l > t
    BY <1>1, <1>5, <2>3, <2>4
  <2> QED BY <1>1, <1>5, <2>1, <2>3, <2>5, ExactOutside DEF On
<1>6. CASE t >= a
  <2> DEFINE k == (t - a) \div p
             f == a + (k * p)
  <2>0. t - a \in Int
    BY <1>1
  <2>1. k \in Int /\ (t - a) % p \in 0..(p - 1) /\ t - a = (k * p) + ((t - a) % p)
    BY <1>1, <2>0, DivMod, Zenon
  <2>2. WindowStatus(spec, t) = IF t < f + l THEN Facts(TRUE, f + p, f + l)
                                ELSE Facts(FALSE, f + p, (f + p) + l)
    BY <1>1, <1>4, <1>6 DEF EvalInterval, Facts
  <2> HIDE DEF k, p, a, l, On
  <2>3. k * p \in Int /\ (k + 1) * p = (k * p) + p
    BY <1>1, <2>1
  <2>4. f \in Int /\ f <= t /\ t < f + p
    BY <1>1, <2>1, <2>3
  <2>5. k \in Nat
    <3>1. ASSUME k < 0 PROVE FALSE
      <4>1. (k * p) + p <= 0 * p
        BY <1>1, <2>1, <3>1, Apart
      <4> QED BY <1>1, <1>6, <2>3, <2>4, <4>1
    <3> QED BY <2>1, <3>1
  <2>6. \A u \in f..((f + l) - 1) : On(u)
    <3> SUFFICES ASSUME NEW u \in Int, f <= u, u < f + l PROVE On(u)
      BY <1>1, <2>4
    <3> QED BY <1>2, <2>5
  <2>7. \A u \in (f + p)..(((f + p) + l) - 1) : On(u)
    <3>1. k + 1 \in Nat /\ a + ((k + 1) * p) = f + p
      BY <1>1, <2>3, <2>5
    <3> HIDE DEF f
    <3> QED BY <1>1, <1>2, <2>4, <3>1
  <2>8. ASSUME NEW u \in Int, f + l <= u, u < f + p PROVE ~On(u)
    <3> SUFFICES ASSUME NEW n \in Nat, a + (n * p) <= u, u < (a + (n * p)) + l PROVE FALSE
      BY <1>2
    <3>1. CASE n > k
      <4>1. (k * p) + p <= n * p
        BY <1>1, <2>5, <3>1, Apart
      <4> QED BY <1>1, <1>3, <2>3, <2>8, <4>1
    <3>2. CASE n < k
      <4>1. (n * p) + p <= k * p
        BY <1>1, <2>5, <3>2, Apart
      <4> QED BY <1>1, <1>3, <2>3, <2>8, <4>1
    <3>3. CASE n = k
      BY <1>1, <2>3, <2>8, <3>3
    <3> QED BY <2>5, <3>1, <3>2, <3>3
  <2> HIDE DEF f
  <2>9. CASE t < f + l
    <3>1. \A u \in t..((f + l) - 1) : On(u)
      BY <1>1, <2>4, <2>6
    <3>2. On(t) /\ On(f + p) /\ f + p \in Int /\ f + l \in Int /\ f + p > t
      BY <1>1, <2>4, <2>7, <2>9, <3>1
    <3> QED BY <2>2, <2>9, <3>1, <3>2, ExactInside DEF On
  <2>10. CASE ~(t < f + l)
    <3>1. \A u \in t..((f + p) - 1) : ~On(u)
      BY <1>1, <2>4, <2>8, <2>10
    <3>2. ~On(t) /\ On(f + p) /\ f + p \in Int /\ (f + p) + l \in Int /\ (f + p) + l > t /\ f + p > t
      BY <1>1, <2>4, <2>7, <3>1
    <3> QED BY <2>2, <2>7, <2>10, <3>1, <3>2, ExactOutside DEF On
  <2> QED BY <2>9, <2>10
<1> QED BY <1>1, <1>5, <1>6

\* The window w of day d covers the time t.
Covers(d, w, t) == (d * DayLen) + w[1] <= t /\ t < (d * DayLen) + Until(w)
Selects(spec, d) == d % CycleDays \in spec.days

\* A valid calendar: its windows lie within a day, or run into the next.
LEMMA CalendarIs ==
    ASSUME NEW spec \in Schedules, spec.kind = "calendar", Validate(spec)
    PROVE  /\ spec.days \subseteq 0..(CycleDays - 1) /\ spec.days # {} /\ spec.windows # {}
           /\ \A w \in spec.windows :
                 /\ w[1] \in Int /\ 0 <= w[1] /\ w[1] < DayLen
                 /\ w[2] \in Int /\ 0 < w[2] /\ w[2] <= DayLen
                 /\ Until(w) = IF w[2] <= w[1] THEN w[2] + DayLen ELSE w[2]
                 /\ Until(w) \in Int /\ w[1] < Until(w) /\ Until(w) < DayLen + DayLen
<1>1. /\ spec.days \subseteq 0..(CycleDays - 1) /\ spec.days # {} /\ spec.windows # {}
      /\ \A w \in spec.windows : ValidWindow(w)
  BY DEF Validate
<1>2. ASSUME NEW w \in spec.windows
      PROVE  /\ w[1] \in Int /\ 0 <= w[1] /\ w[1] < DayLen
             /\ w[2] \in Int /\ 0 < w[2] /\ w[2] <= DayLen
             /\ Until(w) = IF w[2] <= w[1] THEN w[2] + DayLen ELSE w[2]
             /\ Until(w) \in Int /\ w[1] < Until(w) /\ Until(w) < DayLen + DayLen
  BY <1>1, <1>2, ShiftAssumption DEF ValidWindow, Until
<1> QED BY <1>1, <1>2

\* Only a window of today or yesterday can cover a time.
LEMMA CoversDay ==
    ASSUME NEW spec \in Schedules, spec.kind = "calendar", Validate(spec),
           NEW w \in spec.windows, NEW d \in Int, NEW t \in Int, Covers(d, w, t)
    PROVE  d = t \div DayLen \/ d = (t \div DayLen) - 1
<1> DEFINE q == t \div DayLen
<1>1. /\ q \in Int /\ q * DayLen \in Int /\ DayLen \in Nat \ {0}
      /\ q * DayLen <= t /\ t < (q * DayLen) + DayLen
  <2>1. q \in Int /\ t % DayLen \in 0..(DayLen - 1) /\ t = (q * DayLen) + (t % DayLen)
    BY ShiftAssumption, DivMod
  <2> HIDE DEF q
  <2>2. q * DayLen \in Int
    BY <2>1, ShiftAssumption
  <2> QED BY <2>1, <2>2, ShiftAssumption
<1> HIDE DEF q
<1>2. /\ w[1] \in Int /\ 0 <= w[1] /\ Until(w) \in Int /\ Until(w) < DayLen + DayLen
  BY CalendarIs
<1>3. d * DayLen \in Int /\ (q - 1) * DayLen = (q * DayLen) - DayLen /\ q - 1 \in Int
  BY <1>1
<1>4. ~(q < d)
  <2> SUFFICES ASSUME q < d PROVE FALSE
    OBVIOUS
  <2>1. (q * DayLen) + DayLen <= d * DayLen
    BY <1>1, Apart
  <2> QED BY <1>1, <1>2, <1>3, <2>1 DEF Covers
<1>5. ~(d < q - 1)
  <2> SUFFICES ASSUME d < q - 1 PROVE FALSE
    OBVIOUS
  <2>1. (d * DayLen) + DayLen <= (q - 1) * DayLen
    BY <1>1, <1>3, Apart
  <2> QED BY <1>1, <1>2, <1>3, <2>1 DEF Covers
<1> QED BY <1>1, <1>4, <1>5 DEF q

\* The minute of the day and the weekday decide what the timeline decides.
LEMMA CalendarOnAt ==
    ASSUME NEW spec \in Schedules, spec.kind = "calendar", Validate(spec), NEW t \in Int
    PROVE  OnAt(spec, t) <=> \E d \in Int, w \in spec.windows : Selects(spec, d) /\ Covers(d, w, t)
<1> DEFINE q == t \div DayLen
           r == t % DayLen
<1>1. /\ q \in Int /\ r \in 0..(DayLen - 1) /\ t = (q * DayLen) + r /\ DayLen \in Nat \ {0}
  BY ShiftAssumption, DivMod
<1>2. OnAt(spec, t) <=>
         \E w \in spec.windows :
            \/ w[1] <= r /\ (w[2] <= w[1] \/ r < w[2]) /\ Selects(spec, q)
            \/ w[2] <= w[1] /\ r < w[2] /\ Selects(spec, q - 1)
  BY DEF OnAt, Selects
<1>3. ASSUME NEW d \in Int, NEW w \in spec.windows, Covers(d, w, t) PROVE d = q \/ d = q - 1
  BY <1>3, CoversDay
<1> HIDE DEF q, r
<1>4. q * DayLen \in Int /\ (q - 1) * DayLen = (q * DayLen) - DayLen /\ q - 1 \in Int
  BY <1>1
<1>5. ASSUME NEW w \in spec.windows
      PROVE  /\ Covers(q, w, t) <=> w[1] <= r /\ (w[2] <= w[1] \/ r < w[2])
             /\ Covers(q - 1, w, t) <=> w[2] <= w[1] /\ r < w[2]
  <2>1. /\ w[1] \in Int /\ 0 <= w[1] /\ w[1] < DayLen
        /\ w[2] \in Int /\ 0 < w[2] /\ w[2] <= DayLen
        /\ Until(w) = IF w[2] <= w[1] THEN w[2] + DayLen ELSE w[2]
    BY CalendarIs
  <2> QED BY <1>1, <1>4, <2>1 DEF Covers
<1> QED BY <1>1, <1>2, <1>3, <1>4, <1>5

\* The spans the evaluator looks at: those of the selected days it scans.
LEMMA SpansAre ==
    ASSUME NEW spec \in Schedules, spec.kind = "calendar", Validate(spec), NEW t \in Int
    PROVE  /\ \A s \in Spans(spec, t) :
                 \E d \in Int, w \in spec.windows :
                    /\ Selects(spec, d) /\ s = <<(d * DayLen) + w[1], (d * DayLen) + Until(w)>>
                    /\ d >= (t \div DayLen) - 1 /\ d <= (t \div DayLen) + ScanDays
           /\ \A d \in Int, w \in spec.windows :
                 /\ Selects(spec, d)
                 /\ d >= (t \div DayLen) - 1 /\ d <= (t \div DayLen) + ScanDays
                 => <<(d * DayLen) + w[1], (d * DayLen) + Until(w)>> \in Spans(spec, t)
<1>1. t \div DayLen \in Int /\ ScanDays \in Int
  BY ShiftAssumption, DivMod
<1> DEFINE q == t \div DayLen
           days == {d \in (q - 1)..(q + ScanDays) : d % CycleDays \in spec.days}
<1>2. Spans(spec, t) = {<<(d * DayLen) + w[1], (d * DayLen) + Until(w)>> : d \in days, w \in spec.windows}
  BY DEF Spans
<1>3. \A d \in Int : d \in days <=> (Selects(spec, d) /\ d >= q - 1 /\ d <= q + ScanDays)
  BY <1>1 DEF Selects
<1>4. \A d \in days : d \in Int
  BY <1>1
<1> HIDE DEF days, q
<1>5. \A s \in Spans(spec, t) :
         \E d \in days, w \in spec.windows : s = <<(d * DayLen) + w[1], (d * DayLen) + Until(w)>>
  BY <1>2
<1>6. \A d \in days, w \in spec.windows : <<(d * DayLen) + w[1], (d * DayLen) + Until(w)>> \in Spans(spec, t)
  BY <1>2
<1> QED BY <1>3, <1>4, <1>5, <1>6 DEF q

\* Spans are intervals of time, within some bounds.
LEMMA SpanBounds ==
    ASSUME NEW spec \in Schedules, spec.kind = "calendar", Validate(spec), NEW t \in Int
    PROVE  \E lo, hi \in Int : \A s \in Spans(spec, t) :
              s[1] \in Int /\ s[2] \in Int /\ s[1] < s[2] /\ lo <= s[1] /\ s[2] <= hi
<1> DEFINE q == t \div DayLen
           lo == (q - 1) * DayLen
           hi == (((q + ScanDays) * DayLen) + DayLen) + DayLen
<1>1. q \in Int /\ ScanDays \in Int /\ DayLen \in Nat \ {0}
  BY ShiftAssumption, DivMod
<1> HIDE DEF q
<1>2. lo \in Int /\ hi \in Int
  BY <1>1
<1>3. ASSUME NEW s \in Spans(spec, t)
      PROVE  s[1] \in Int /\ s[2] \in Int /\ s[1] < s[2] /\ lo <= s[1] /\ s[2] <= hi
  <2>1. PICK d \in Int, w \in spec.windows :
           /\ s = <<(d * DayLen) + w[1], (d * DayLen) + Until(w)>>
           /\ d >= q - 1 /\ d <= q + ScanDays
    BY SpansAre DEF q
  <2>2. /\ w[1] \in Int /\ 0 <= w[1] /\ Until(w) \in Int
        /\ w[1] < Until(w) /\ Until(w) < DayLen + DayLen
    BY CalendarIs
  <2>3. d * DayLen \in Int /\ (q - 1) * DayLen \in Int /\ (q + ScanDays) * DayLen \in Int
    BY <1>1
  <2>4. lo <= d * DayLen
    <3>1. d = q - 1 \/ q - 1 < d
      BY <1>1, <2>1
    <3>2. CASE q - 1 < d
      <4>1. q - 1 \in Int
        BY <1>1
      <4>2. ((q - 1) * DayLen) + DayLen <= d * DayLen
        BY <1>1, <3>2, <4>1, Apart
      <4> QED BY <1>1, <2>3, <4>2
    <3> QED BY <2>3, <3>1, <3>2
  <2>5. d * DayLen <= (q + ScanDays) * DayLen
    <3>1. d = q + ScanDays \/ d < q + ScanDays
      BY <1>1, <2>1
    <3>2. CASE d < q + ScanDays
      <4>1. q + ScanDays \in Int
        BY <1>1
      <4>2. (d * DayLen) + DayLen <= (q + ScanDays) * DayLen
        BY <1>1, <3>2, <4>1, Apart
      <4> QED BY <1>1, <2>3, <4>2
    <3> QED BY <2>3, <3>1, <3>2
  <2> QED BY <1>1, <1>2, <2>1, <2>2, <2>3, <2>4, <2>5
<1> QED BY <1>2, <1>3

\* A mask selects a day of the next cycle, so that the scan finds a future shift.
LEMMA FutureExists ==
    ASSUME NEW spec \in Schedules, spec.kind = "calendar", Validate(spec), NEW t \in Int
    PROVE  \E s \in Spans(spec, t) : s[1] > t
<1> DEFINE q == t \div DayLen
<1>1. /\ q \in Int /\ q * DayLen \in Int /\ DayLen \in Nat \ {0} /\ t < (q * DayLen) + DayLen
  <2>1. q \in Int /\ t % DayLen \in 0..(DayLen - 1) /\ t = (q * DayLen) + (t % DayLen)
    BY ShiftAssumption, DivMod
  <2> HIDE DEF q
  <2>2. q * DayLen \in Int
    BY <2>1, ShiftAssumption
  <2> QED BY <2>1, <2>2, ShiftAssumption
<1>2. PICK k \in 0..(CycleDays - 1) : k \in spec.days
  BY CalendarIs
<1>3. PICK w \in spec.windows : w[1] \in Int /\ 0 <= w[1]
  BY CalendarIs
<1> DEFINE x == k - (q + 1)
           m == x \div CycleDays
           r == x % CycleDays
           d == (q + 1) + r
<1>4. x \in Int /\ CycleDays \in Nat \ {0} /\ ScanDays \in Int /\ ScanDays >= CycleDays
  BY <1>1, ShiftAssumption
<1>5. m \in Int /\ r \in 0..(CycleDays - 1) /\ x = (m * CycleDays) + r
  BY <1>4, DivMod, Zenon
<1> HIDE DEF q, m, r
<1>6. d \in Int /\ q < d /\ d <= q + ScanDays
  BY <1>1, <1>4, <1>5
<1>7. d = ((-m) * CycleDays) + k /\ -m \in Int
  BY <1>1, <1>4, <1>5
<1>8. (((-m) * CycleDays) + k) % CycleDays = k
  BY <1>4, <1>7, DivModUnique, Zenon
<1> HIDE DEF d
<1>9. Selects(spec, d)
  BY <1>2, <1>7, <1>8 DEF Selects
<1> DEFINE s == <<(d * DayLen) + w[1], (d * DayLen) + Until(w)>>
<1>10. s \in Spans(spec, t)
  <2>1. d >= q - 1
    BY <1>1, <1>6
  <2> QED BY <1>6, <1>9, <2>1, SpansAre DEF q
<1>11. s[1] > t
  <2>1. (q * DayLen) + DayLen <= d * DayLen /\ d * DayLen \in Int
    BY <1>1, <1>6, Apart
  <2> QED BY <1>1, <1>3, <2>1
<1> QED BY <1>10, <1>11

\* A time a span covers is on duty; and a time on duty is covered by a span, if
\* it is not before t and some scanned span starts at the time or later.
LEMMA SpanOnAt ==
    ASSUME NEW spec \in Schedules, spec.kind = "calendar", Validate(spec), NEW t \in Int
    PROVE  /\ \A s \in Spans(spec, t), u \in Int : s[1] <= u /\ u < s[2] => OnAt(spec, u)
           /\ \A u \in Int : /\ OnAt(spec, u) /\ t <= u
                             /\ u = t \/ \E s \in Spans(spec, t) : u < s[1]
                 => \E s \in Spans(spec, t) : s[1] <= u /\ u < s[2]
<1>1. ASSUME NEW s \in Spans(spec, t), NEW u \in Int, s[1] <= u, u < s[2]
      PROVE  OnAt(spec, u)
  <2>1. PICK d \in Int, w \in spec.windows :
           Selects(spec, d) /\ s = <<(d * DayLen) + w[1], (d * DayLen) + Until(w)>>
    BY SpansAre
  <2>2. Covers(d, w, u)
    BY <1>1, <2>1 DEF Covers
  <2> QED BY <2>1, <2>2, CalendarOnAt
<1>2. ASSUME NEW u \in Int, OnAt(spec, u), t <= u, u = t \/ \E s \in Spans(spec, t) : u < s[1]
      PROVE  \E s \in Spans(spec, t) : s[1] <= u /\ u < s[2]
  <2> DEFINE q == t \div DayLen
             v == u \div DayLen
  <2>1. PICK d \in Int, w \in spec.windows : Selects(spec, d) /\ Covers(d, w, u)
    BY <1>2, CalendarOnAt
  <2>2. d = v \/ d = v - 1
    BY <2>1, CoversDay
  <2>3. /\ q \in Int /\ t % DayLen \in 0..(DayLen - 1) /\ t = (q * DayLen) + (t % DayLen)
        /\ v \in Int /\ u % DayLen \in 0..(DayLen - 1) /\ u = (v * DayLen) + (u % DayLen)
        /\ DayLen \in Nat \ {0} /\ ScanDays \in Nat
    BY ShiftAssumption, DivMod
  <2> HIDE DEF q, v
  <2>4. /\ q * DayLen \in Int /\ q * DayLen <= t /\ t < (q * DayLen) + DayLen
        /\ v * DayLen \in Int /\ v * DayLen <= u /\ u < (v * DayLen) + DayLen
        /\ d * DayLen \in Int
    BY <2>3
  <2>5. ~(v < q)
    <3> SUFFICES ASSUME v < q PROVE FALSE
      OBVIOUS
    <3>1. (v * DayLen) + DayLen <= q * DayLen
      BY <2>3, Apart
    <3>2. t <= u /\ DayLen \in Int
      BY <1>2, <2>3
    <3> QED BY <2>4, <3>1, <3>2
  <2>6. d <= q + ScanDays
    <3>1. CASE u = t
      <4>1. q = v
        BY <3>1 DEF q, v
      <4> QED BY <2>2, <2>3, <4>1
    <3>2. CASE \E s \in Spans(spec, t) : u < s[1]
      <4>1. PICK e \in Int, x \in spec.windows :
               u < (e * DayLen) + x[1] /\ e <= q + ScanDays
        BY <3>2, SpansAre DEF q
      <4>2. x[1] \in Int /\ x[1] < DayLen /\ w[1] \in Int /\ 0 <= w[1]
        BY CalendarIs
      <4>3. ~(e < d)
        <5> SUFFICES ASSUME e < d PROVE FALSE
          OBVIOUS
        <5>1. (e * DayLen) + DayLen <= d * DayLen /\ e * DayLen \in Int
          BY <2>3, Apart
        <5> QED BY <2>1, <2>3, <2>4, <4>1, <4>2, <5>1 DEF Covers
      <4> QED BY <2>3, <4>1, <4>3
    <3> QED BY <1>2, <3>1, <3>2
  <2>7. d >= q - 1
    BY <2>2, <2>3, <2>5
  <2>8. <<(d * DayLen) + w[1], (d * DayLen) + Until(w)>> \in Spans(spec, t)
    BY <2>1, <2>6, <2>7, SpansAre DEF q
  <2> QED BY <2>1, <2>8 DEF Covers
<1> QED BY <1>1, <1>2

\* The calendar's evaluator is exact (eval_calendar).
LEMMA CalendarExact ==
    ASSUME NEW spec \in Schedules, spec.kind = "calendar", Validate(spec), NEW t \in Int
    PROVE  Exact(spec, t)
<1> DEFINE S == Spans(spec, t)
           covering == {s \in S : s[1] <= t /\ t < s[2]}
           future == {s \in S : s[1] > t}
           starts == {s[1] : s \in future}
           ends == {s[2] : s \in future}
           last == {s[2] : s \in covering}
           start == Min(starts)
<1>1. WindowStatus(spec, t) = IF covering # {} THEN Facts(TRUE, start, Max(last))
                              ELSE Facts(FALSE, start, Min(ends))
  BY DEF WindowStatus, EvalCalendar
<1>2. PICK lo \in Int, hi \in Int : \A s \in S :
         s[1] \in Int /\ s[2] \in Int /\ s[1] < s[2] /\ lo <= s[1] /\ s[2] <= hi
  BY SpanBounds
<1>3. PICK f \in future : TRUE
  BY FutureExists
<1>4. /\ \A s \in S, u \in Int : s[1] <= u /\ u < s[2] => OnAt(spec, u)
      /\ \A u \in Int : /\ OnAt(spec, u) /\ t <= u
                        /\ u = t \/ \E s \in S : u < s[1]
            => \E s \in S : s[1] <= u /\ u < s[2]
  BY SpanOnAt
<1> HIDE DEF S
<1>5. start \in starts /\ \A y \in starts : start <= y
  <2>1. starts \in SUBSET Int /\ starts # {} /\ \A x \in starts : lo <= x
    BY <1>2, <1>3
  <2> HIDE DEF starts
  <2> QED BY <2>1, MinIs
<1>6. PICK first \in future : first[1] = start
  BY <1>5
<1>7. Min(ends) \in ends /\ \A y \in ends : Min(ends) <= y
  <2>1. ends \in SUBSET Int /\ ends # {} /\ \A x \in ends : lo <= x
    BY <1>2, <1>3
  <2> HIDE DEF ends
  <2> QED BY <2>1, MinIs
<1>8. start \in Int /\ start > t /\ \A s \in future : start <= s[1]
  BY <1>2, <1>5, <1>6
<1> HIDE DEF start
<1>9. OnAt(spec, start)
  BY <1>2, <1>4, <1>6, <1>8
<1>10. CASE covering # {}
  <2>1. Max(last) \in last /\ \A y \in last : y <= Max(last)
    <3>1. last \in SUBSET Int /\ last # {} /\ \A x \in last : x <= hi
      BY <1>2, <1>10
    <3> HIDE DEF last
    <3> QED BY <3>1, MaxIs
  <2>2. PICK s \in covering : Max(last) = s[2]
    BY <2>1
  <2>3. Max(last) \in Int /\ Max(last) > t /\ \A u \in t..(Max(last) - 1) : OnAt(spec, u)
    <3>1. s \in S /\ s[1] \in Int /\ s[2] \in Int /\ s[1] <= t /\ t < s[2]
      BY <1>2
    <3>2. \A u \in t..(s[2] - 1) : OnAt(spec, u)
      BY <1>4, <3>1
    <3> HIDE DEF last
    <3> QED BY <2>2, <3>1, <3>2
  <2> HIDE DEF last
  <2> QED BY <1>1, <1>8, <1>9, <1>10, <2>3, ExactInside
<1>11. CASE covering = {}
  <2>1. \E s \in future : Min(ends) = s[2]
    BY <1>7
  <2>2. Min(ends) \in Int /\ Min(ends) > t
    BY <1>2, <2>1
  <2>3. ASSUME NEW u \in start..(Min(ends) - 1) PROVE OnAt(spec, u)
    <3>1. first[2] \in Int /\ first[2] >= Min(ends) /\ u \in Int
      BY <1>2, <1>6, <1>7, <1>8, <2>2
    <3> QED BY <1>4, <1>6, <1>8, <2>2, <2>3, <3>1
  <2>4. ASSUME NEW u \in t..(start - 1), OnAt(spec, u) PROVE FALSE
    <3>1. u \in Int /\ t <= u /\ u < first[1]
      BY <1>6, <1>8
    <3>2. PICK s \in S : s[1] <= u /\ u < s[2]
      BY <1>4, <1>6, <2>4, <3>1
    <3>3. s[1] \in Int /\ s[2] \in Int
      BY <1>2
    <3>4. CASE s[1] <= t
      BY <1>11, <3>1, <3>2, <3>3, <3>4
    <3>5. CASE s[1] > t
      BY <1>6, <1>8, <3>1, <3>2, <3>3, <3>5
    <3> QED BY <3>3, <3>4, <3>5
  <2> HIDE DEF ends
  <2> QED BY <1>1, <1>8, <1>9, <1>11, <2>2, <2>3, <2>4, ExactOutside
<1> QED BY <1>10, <1>11

\* window_status is exact, for every schedule that passes Validate and every time:
\* rotations by their quotient, calendars by the windows laid on the scanned days.
THEOREM EvalExact ==
    ASSUME NEW spec \in Schedules, Validate(spec), NEW t \in Int
    PROVE  Exact(spec, t)
<1>1. CASE spec.kind = "always"
  <2>1. WindowStatus(spec, t) = Facts(TRUE, t + Horizon, t + Horizon)
    BY <1>1 DEF WindowStatus
  <2>2. t + Horizon \in Int /\ t + Horizon > t
    BY ShiftAssumption
  <2>3. \A u : OnAt(spec, u)
    BY <1>1 DEF OnAt
  <2> QED BY <2>1, <2>2, <2>3, ExactInside
<1>2. CASE spec.kind = "interval"
  BY <1>2, IntervalExact
<1>3. CASE spec.kind = "calendar"
  BY <1>3, CalendarExact
<1> QED BY <1>1, <1>2, <1>3 DEF Schedules, Always

(***************************************************************************)
(* The cycle.                                                              *)
(***************************************************************************)

\* What a cycle says is ahead of it, at a time t: off duty, no shift before the
\* start it waits for, unless one was slept through; on duty, a shift up to its end.
Ahead(c, t) ==
    /\ c.spec = Always => c.phase = "working"
    /\ c.phase = "off" => OnAt(c.spec, c.start)
    /\ c.phase # "off" => \A u \in t..(c.end - 1) : OnAt(c.spec, u)
Clear(c, t) == c.phase = "off" => \A u \in t..(c.start - 1) : ~OnAt(c.spec, u)

\* Time only takes from it.
LEMMA AheadLater ==
    ASSUME NEW c \in Cycles, NEW t \in Int, NEW u \in Int, t <= u
    PROVE  (Ahead(c, t) => Ahead(c, u)) /\ (Clear(c, t) => Clear(c, u))
<1>1. c.start \in Int /\ c.end \in Int
  BY DEF Cycles
<1> QED BY <1>1 DEF Ahead, Clear

\* What a valid row and a valid cycle are made of.
LEMMA RowIs ==
    ASSUME NEW r \in Rows
    PROVE  /\ r.spec \in Schedules /\ Validate(r.spec) /\ r.status \in {"active", "paused"}
           /\ r.warn \in Nat \X Nat /\ r.warn[1] >= r.warn[2]
BY DEF Rows, Valid

\* A valid cycle is not the absent one.
LEMMA CycleIs ==
    ASSUME NEW c \in ValidCycles
    PROVE  /\ c \in Cycles /\ c # None /\ c.spec \in Schedules /\ Validate(c.spec)
           /\ c.warn \in Nat \X Nat /\ c.warn[1] >= c.warn[2]
           /\ c.phase \in Phases /\ c.start \in Int /\ c.end \in Int
<1>1. c # None
  BY ScheduleAssumption DEF ValidCycles
<1> QED BY <1>1 DEF ValidCycles, Cycles, Valid

\* A new cycle is right about the time it is set up at (init_cycle).
LEMMA InitIs ==
    ASSUME NEW r \in Rows, NEW t \in Int
    PROVE  /\ InitCycle(r, t) \in ValidCycles
           /\ InitCycle(r, t).spec = r.spec /\ InitCycle(r, t).warn = r.warn
           /\ Ahead(InitCycle(r, t), t) /\ Clear(InitCycle(r, t), t)
<1> DEFINE st == WindowStatus(r.spec, t)
           c == InitCycle(r, t)
<1>1. /\ r.spec \in Schedules /\ Validate(r.spec)
      /\ r.warn \in Nat \X Nat /\ r.warn[1] >= r.warn[2]
  BY RowIs
<1>2. /\ st.start \in Int /\ st.end \in Int /\ st.inside \in BOOLEAN
      /\ st.inside = OnAt(r.spec, t) /\ OnAt(r.spec, st.start)
      /\ st.inside => \A u \in t..(st.end - 1) : OnAt(r.spec, u)
      /\ ~st.inside => \A u \in t..(st.start - 1) : ~OnAt(r.spec, u)
  BY <1>1, EvalExact DEF Exact
<1>3. r.spec = Always => OnAt(r.spec, t)
  BY DEF OnAt, Always
<1> DEFINE phase == IF ~st.inside THEN "off"
                    ELSE IF r.spec = Always THEN "working"
                    ELSE IF t >= st.end - r.warn[2] THEN "finalwarned"
                    ELSE IF t >= st.end - r.warn[1] THEN "prewarned"
                    ELSE "working"
<1>4. c = [spec |-> r.spec, warn |-> r.warn, phase |-> phase, end |-> st.end, start |-> st.start]
  BY DEF InitCycle
<1> HIDE DEF st, c
<1>5. /\ phase \in Phases /\ (phase = "off") = ~st.inside
      /\ r.spec = Always => phase = "working"
  BY <1>2, <1>3 DEF Phases
<1> HIDE DEF phase
<1>6. c \in Cycles
  BY <1>1, <1>2, <1>4, <1>5 DEF Cycles
<1>7. c \in ValidCycles /\ c.spec = r.spec /\ c.warn = r.warn
  BY <1>1, <1>4, <1>6 DEF ValidCycles, Valid
<1>8. Ahead(c, t) /\ Clear(c, t)
  BY <1>2, <1>4, <1>5 DEF Ahead, Clear
<1> QED BY <1>7, <1>8 DEF c

\* When a transition is due (compute_transition).
LEMMA TransitionIs ==
    ASSUME NEW c, NEW t
    PROVE  /\ Transition(c, t) = "start" => c.phase = "off" /\ t >= c.start
           /\ Transition(c, t) = "prewarn" => c.phase = "working" /\ c.spec # Always
           /\ Transition(c, t) = "finalwarn" => c.phase = "prewarned"
           /\ Transition(c, t) = "end" => c.phase = "finalwarned" /\ t >= c.end
BY DEF Transition

\* Between passes the next deadline is not past what the cycle says is ahead.
LEMMA DeadlineIs ==
    ASSUME NEW c \in ValidCycles
    PROVE  /\ NextDeadline(c) \in Int
           /\ c.phase = "off" => NextDeadline(c) = c.start
           /\ c.phase # "off" => NextDeadline(c) <= c.end
<1>1. /\ c # None /\ c.warn[1] \in Nat /\ c.warn[2] \in Nat
      /\ c.phase \in Phases /\ c.start \in Int /\ c.end \in Int
  BY CycleIs
<1>2. CASE c.phase = "off"
  BY <1>1, <1>2 DEF NextDeadline
<1>3. CASE c.phase = "working"
  BY <1>1, <1>3 DEF NextDeadline, PreWarnTime
<1>4. CASE c.phase = "prewarned"
  BY <1>1, <1>4 DEF NextDeadline, FinalWarnTime
<1>5. CASE c.phase = "finalwarned"
  BY <1>1, <1>5 DEF NextDeadline
<1> QED BY <1>1, <1>2, <1>3, <1>4, <1>5 DEF Phases

(***************************************************************************)
(* Types.                                                                  *)
(***************************************************************************)

\* What a pass is made of.
LEMMA PassIs ==
    ASSUME now \in Nat, NEW e \in Passes(now)
    PROVE  /\ e.time \in Int /\ 0 <= e.time /\ e.time <= now /\ e.time \in 0..now
           /\ e.at \in {"sync", "drain"} => e.row \in Rows
           /\ e.at \in {"parked", "begin"} => e.row = None
           /\ e.at \in {"parked", "begin", "sync", "drain"}
BY DEF Passes

\* A pass that moves on.
Moved(n, e, d, step, r) == d \in Passes(n) /\ d.at = step /\ d.time = e.time /\ d.row = r

\* A pass that reads the row, and one that is brought in line with it.
LEMMA PassWrites ==
    ASSUME NEW n \in Nat, NEW e \in Passes(n), NEW r \in Rows
    PROVE  /\ Moved(n, e, [e EXCEPT !.at = "sync", !.row = r], "sync", r)
           /\ e.row \in Rows => Moved(n, e, [e EXCEPT !.at = "drain"], "drain", e.row)
<1> DEFINE Any == {"parked", "begin", "sync", "drain"}
<1>1. e \in [at : Any, time : 0..n, row : Rows \cup {None}]
  BY DEF Passes
<1>2. LET d == [e EXCEPT !.at = "sync", !.row = r]
      IN  d \in [at : {"sync"}, time : 0..n, row : Rows] /\ d.at = "sync" /\ d.time = e.time /\ d.row = r
  BY <1>1
<1>3. ASSUME e.row \in Rows
      PROVE  LET d == [e EXCEPT !.at = "drain"]
             IN  d \in [at : {"drain"}, time : 0..n, row : Rows]
                 /\ d.at = "drain" /\ d.time = e.time /\ d.row = e.row
  BY <1>1, <1>3
<1> QED BY <1>2, <1>3 DEF Passes, Moved

\* A pass that is over, and one that begins.
LEMMA PassSets ==
    ASSUME NEW n \in Nat
    PROVE  /\ Parked \in Passes(n)
           /\ [at |-> "begin", time |-> n, row |-> None] \in Passes(n)
BY DEF Passes, Parked

\* What a request under way is made of.
LEMMA PutIs ==
    ASSUME NEW p \in Requests
    PROVE  /\ p.at \in {"read", "saved"} => p.row \in Rows
           /\ p # NoPut => [p EXCEPT !.at = "saved"] \in Requests
           /\ p.at \in {"idle", "read", "saved"}
           /\ p.at = "idle" => p = NoPut
BY DEF Requests, NoPut

\* The anchored schedule is still a valid one (put_work_schedule).
LEMMA AnchoredIs ==
    ASSUME now \in Int, row \in Rows, NEW spec \in Schedules, Validate(spec)
    PROVE  Anchored(spec) \in Schedules /\ Validate(Anchored(spec))
<1>1. CASE spec.kind # "interval" \/ spec = row.spec
  BY <1>1 DEF Anchored
<1>2. CASE ~(spec.kind # "interval" \/ spec = row.spec)
  <2>1. spec.every \in Nat /\ spec.length \in Nat /\ spec.anchor \in Int
        /\ spec = [kind |-> "interval", every |-> spec.every, length |-> spec.length, anchor |-> spec.anchor]
        /\ spec.every > 0 /\ spec.length > 0
    <3>1. spec.kind = "interval"
      BY <1>2
    <3>2. spec \in [kind : {"interval"}, every : Nat, length : Nat, anchor : Int]
      BY <3>1 DEF Schedules, Always
    <3> QED BY <3>1, <3>2 DEF Validate
  <2> DEFINE a == (now \div HourLen) * HourLen + (spec.anchor % HourLen)
  <2>2. a \in Int
    <3>1. now \div HourLen \in Int /\ spec.anchor % HourLen \in Int /\ HourLen \in Int
      BY <2>1, ShiftAssumption, DivMod
    <3> QED BY <3>1
  <2>3. Anchored(spec) = [spec EXCEPT !.anchor = a]
    BY <1>2 DEF Anchored
  <2> HIDE DEF a
  <2>4. Anchored(spec) = [kind |-> "interval", every |-> spec.every, length |-> spec.length, anchor |-> a]
    BY <2>1, <2>3
  <2> QED BY <2>1, <2>2, <2>4 DEF Schedules, Validate
<1> QED BY <1>1, <1>2

\* A cycle whose phase and times are written stays valid, and is otherwise the same.
Rewritten(c, d, phase, start, end) ==
    /\ d \in ValidCycles /\ d.spec = c.spec /\ d.warn = c.warn
    /\ d.phase = phase /\ d.start = start /\ d.end = end

\* The writes of the transitions are such.
LEMMA CycleWrites ==
    ASSUME NEW c \in ValidCycles, NEW p \in Phases, NEW n \in Int
    PROVE  /\ Rewritten(c, [c EXCEPT !.phase = p], p, c.start, c.end)
           /\ Rewritten(c, [c EXCEPT !.start = n], c.phase, n, c.end)
           /\ Rewritten(c, [c EXCEPT !.phase = p, !.end = n], p, c.start, n)
           /\ Rewritten(c, [c EXCEPT !.end = n, !.phase = p], p, c.start, n)
           /\ Rewritten(c, [c EXCEPT !.phase = p, !.start = n], p, n, c.end)
<1>1. c \in Cycles /\ Valid(c)
  BY DEF ValidCycles
<1>2. ASSUME NEW d \in Cycles, d.spec = c.spec, d.warn = c.warn
      PROVE  d \in ValidCycles
  BY <1>1, <1>2 DEF ValidCycles, Valid
<1>3. Rewritten(c, [c EXCEPT !.phase = p], p, c.start, c.end)
  <2> DEFINE d == [c EXCEPT !.phase = p]
  <2>1. d \in Cycles /\ d.spec = c.spec /\ d.warn = c.warn
        /\ d.phase = p /\ d.start = c.start /\ d.end = c.end
    BY <1>1 DEF Cycles
  <2> QED BY <1>2, <2>1 DEF Rewritten
<1>4. Rewritten(c, [c EXCEPT !.start = n], c.phase, n, c.end)
  <2> DEFINE d == [c EXCEPT !.start = n]
  <2>1. d \in Cycles /\ d.spec = c.spec /\ d.warn = c.warn
        /\ d.phase = c.phase /\ d.start = n /\ d.end = c.end
    BY <1>1 DEF Cycles
  <2> QED BY <1>2, <2>1 DEF Rewritten
<1>5. /\ Rewritten(c, [c EXCEPT !.phase = p, !.end = n], p, c.start, n)
      /\ [c EXCEPT !.end = n, !.phase = p] = [c EXCEPT !.phase = p, !.end = n]
  <2> DEFINE d == [c EXCEPT !.phase = p, !.end = n]
  <2>1. d \in Cycles /\ d.spec = c.spec /\ d.warn = c.warn
        /\ d.phase = p /\ d.start = c.start /\ d.end = n
    BY <1>1 DEF Cycles
  <2>2. [c EXCEPT !.end = n, !.phase = p] = d
    BY <1>1 DEF Cycles
  <2> QED BY <1>2, <2>1, <2>2 DEF Rewritten
<1>6. Rewritten(c, [c EXCEPT !.phase = p, !.start = n], p, n, c.end)
  <2> DEFINE d == [c EXCEPT !.phase = p, !.start = n]
  <2>1. d \in Cycles /\ d.spec = c.spec /\ d.warn = c.warn
        /\ d.phase = p /\ d.start = n /\ d.end = c.end
    BY <1>1 DEF Cycles
  <2> QED BY <1>2, <2>1 DEF Rewritten
<1> QED BY <1>3, <1>4, <1>5, <1>6

\* What FireStart and FireEnd take from the evaluator is a pair of times.
LEMMA TimesAre ==
    ASSUME NEW c \in ValidCycles, NEW t \in Int
    PROVE  /\ WindowStatus(c.spec, c.start).start \in Int /\ WindowStatus(c.spec, c.start).end \in Int
           /\ WindowStatus(c.spec, t).start \in Int /\ WindowStatus(c.spec, t).end \in Int
<1>1. c.spec \in Schedules /\ Validate(c.spec) /\ c.start \in Int
  BY CycleIs
<1> QED BY <1>1, EvalExact DEF Exact

\* The seeded row and the engine at its start are well formed.
LEMMA TypeInit == Init => TypeOK
<1> SUFFICES ASSUME Init PROVE TypeOK
  OBVIOUS
<1>1. MaxTime \in Nat /\ MaxPuts \in Nat /\ MaxFaults \in Nat /\ \A w \in Warns : w \in Nat \X Nat
  BY ShiftAssumption
<1>2. row \in Rows
  <2>1. Always \in Schedules /\ Validate(Always)
    BY DEF Schedules, Validate, Always
  <2>2. PICK w \in Warns : w[1] >= w[2] /\ row = [spec |-> Always, warn |-> w, status |-> "active"]
    BY DEF Init
  <2> QED BY <1>1, <2>1, <2>2 DEF Rows, Valid
<1>3. eng \in Passes(now) /\ put \in Requests
  BY <1>1, PassSets DEF Init, Requests
<1>4. now = 0 /\ puts = 0 /\ faults = 0 /\ deadline = None /\ cycle = None
  BY DEF Init
<1>5. now \in 0..MaxTime /\ puts \in 0..MaxPuts /\ faults \in 0..MaxFaults
  BY <1>1, <1>4
<1>6. /\ rooted \in BOOLEAN /\ permit \in BOOLEAN /\ duty \in {"on", "off"}
      /\ held \in BOOLEAN /\ hands \in BOOLEAN /\ slept \in BOOLEAN /\ blind \in BOOLEAN
  BY DEF Init
<1> QED BY <1>2, <1>3, <1>4, <1>5, <1>6 DEF TypeOK

\* Each step of the engine keeps the types.
LEMMA TypeEngine == TypeOK /\ Engine => TypeOK'
<1> SUFFICES ASSUME TypeOK, Engine PROVE TypeOK'
  OBVIOUS
<1>1. /\ now \in Nat /\ now \in Int /\ now \in 0..now /\ row \in Rows
      /\ eng \in Passes(now) /\ cycle \in ValidCycles \cup {None}
  BY ShiftAssumption DEF TypeOK
<1>2. /\ eng.time \in Int /\ eng.time \in 0..now
      /\ eng.at \in {"sync", "drain"} => eng.row \in Rows
      /\ eng.at \in {"parked", "begin"} => eng.row = None
  BY <1>1, PassIs
<1>3. /\ Parked \in Passes(now) /\ [at |-> "begin", time |-> now, row |-> None] \in Passes(now)
      /\ [eng EXCEPT !.at = "sync", !.row = row] \in Passes(now)
      /\ eng.row \in Rows => [eng EXCEPT !.at = "drain"] \in Passes(now)
  BY <1>1, PassSets, PassWrites DEF Moved
<1>4. CASE PassBegins
  BY <1>3, <1>4 DEF TypeOK, PassBegins, edge
<1>5. CASE PassReads
  <2>1. eng' \in Passes(now) /\ blind' \in BOOLEAN /\ cycle' \in ValidCycles \cup {None}
        /\ deadline' \in Int \cup {None}
    BY <1>2, <1>3, <1>5 DEF TypeOK, PassReads
  <2> QED BY <1>5, <2>1 DEF TypeOK, PassReads, edge
<1>6. CASE PassFails
  <2>1. faults' \in 0..MaxFaults
    BY <1>6, ShiftAssumption DEF TypeOK, PassFails, Fault
  <2> QED BY <1>1, <1>3, <1>6, <2>1 DEF TypeOK, PassFails, edge
<1>7. CASE Sync
  <2>1. eng.row \in Rows
    BY <1>2, <1>7 DEF Sync
  <2>2. InitCycle(eng.row, eng.time) \in ValidCycles
    BY <1>2, <2>1, InitIs
  <2>3. cycle' \in ValidCycles \cup {None} /\ eng' \in Passes(now)
    BY <1>1, <1>2, <1>3, <1>7, <2>1, <2>2 DEF Sync
  <2>4. duty' \in {"on", "off"} /\ held' \in BOOLEAN /\ hands' \in BOOLEAN /\ slept' \in BOOLEAN
    BY <1>7 DEF Sync, TypeOK, ExecuteStart, ExecuteEnd, edge
  <2> QED BY <1>7, <2>3, <2>4 DEF TypeOK, Sync
<1>8. ASSUME NEW transition, Draining(transition), cycle' \in ValidCycles,
             duty' \in {"on", "off"} /\ held' \in BOOLEAN /\ hands' \in BOOLEAN /\ slept' \in BOOLEAN
      PROVE  TypeOK'
  BY <1>8 DEF TypeOK, Draining
<1>9. cycle # None => cycle \in ValidCycles
  BY <1>1
<1>10. CASE FireStart
  <2>1. Draining("start") /\ cycle \in ValidCycles
    BY <1>9, <1>10 DEF FireStart, Draining
  <2>2. cycle' \in ValidCycles
    <3> DEFINE start == WindowStatus(cycle.spec, eng.time).start
               end == WindowStatus(cycle.spec, cycle.start).end
    <3>1. start \in Int /\ end \in Int
      BY <1>2, <2>1, TimesAre
    <3>2. \/ cycle' = [cycle EXCEPT !.start = start]
          \/ cycle' = [cycle EXCEPT !.phase = "working", !.end = end]
      BY <1>10 DEF FireStart
    <3>3. "working" \in Phases
      BY DEF Phases
    <3> HIDE DEF start, end
    <3>4. /\ Rewritten(cycle, [cycle EXCEPT !.start = start], cycle.phase, start, cycle.end)
          /\ Rewritten(cycle, [cycle EXCEPT !.phase = "working", !.end = end], "working", cycle.start, end)
      BY <2>1, <3>1, <3>3, CycleWrites
    <3> QED BY <3>2, <3>4 DEF Rewritten
  <2>3. duty' \in {"on", "off"} /\ held' \in BOOLEAN /\ hands' \in BOOLEAN /\ slept' \in BOOLEAN
    BY <1>10 DEF FireStart, TypeOK, ExecuteStart
  <2> QED BY <1>8, <2>1, <2>2, <2>3
<1>11. CASE FirePreWarn
  <2>1. Draining("prewarn") /\ cycle \in ValidCycles
    BY <1>9, <1>11 DEF FirePreWarn, Draining
  <2>2. cycle' \in ValidCycles
    <3>1. 0 \in Int /\ {"prewarned", "finalwarned"} \subseteq Phases
      BY DEF Phases
    <3> QED BY <1>11, <2>1, <3>1, CycleWrites DEF FirePreWarn, Rewritten
  <2>3. duty' \in {"on", "off"} /\ held' \in BOOLEAN /\ hands' \in BOOLEAN /\ slept' \in BOOLEAN
    BY <1>11 DEF FirePreWarn, TypeOK, ExecuteWarn, edge
  <2> QED BY <1>8, <2>1, <2>2, <2>3
<1>12. CASE FireFinalWarn
  <2>1. Draining("finalwarn") /\ cycle \in ValidCycles
    BY <1>9, <1>12 DEF FireFinalWarn, Draining
  <2>2. cycle' \in ValidCycles
    <3>1. 0 \in Int /\ {"prewarned", "finalwarned"} \subseteq Phases
      BY DEF Phases
    <3> QED BY <1>12, <2>1, <3>1, CycleWrites DEF FireFinalWarn, Rewritten
  <2>3. duty' \in {"on", "off"} /\ held' \in BOOLEAN /\ hands' \in BOOLEAN /\ slept' \in BOOLEAN
    BY <1>12 DEF FireFinalWarn, TypeOK, ExecuteWarn, edge
  <2> QED BY <1>8, <2>1, <2>2, <2>3
<1>13. CASE FireEnd
  <2>1. Draining("end") /\ cycle \in ValidCycles
    BY <1>9, <1>13 DEF FireEnd, Draining
  <2>2. cycle' \in ValidCycles
    <3> DEFINE st == WindowStatus(cycle.spec, eng.time)
    <3>1. st.start \in Int /\ st.end \in Int
      BY <1>2, <2>1, TimesAre
    <3>2. \/ cycle' = [cycle EXCEPT !.end = st.end, !.phase = "working"]
          \/ cycle' = [cycle EXCEPT !.phase = "off", !.start = st.start]
      BY <1>13 DEF FireEnd
    <3>3. "working" \in Phases /\ "off" \in Phases
      BY DEF Phases
    <3>4. /\ Rewritten(cycle, [cycle EXCEPT !.end = st.end, !.phase = "working"], "working", cycle.start, st.end)
          /\ Rewritten(cycle, [cycle EXCEPT !.phase = "off", !.start = st.start], "off", st.start, cycle.end)
      BY <2>1, <3>1, <3>3, CycleWrites, Zenon
    <3> HIDE DEF st
    <3> QED BY <3>2, <3>4 DEF Rewritten
  <2>3. duty' \in {"on", "off"} /\ held' \in BOOLEAN /\ hands' \in BOOLEAN /\ slept' \in BOOLEAN
    BY <1>13 DEF FireEnd, TypeOK, ExecuteEnd, edge
  <2> QED BY <1>8, <2>1, <2>2, <2>3
<1>14. CASE PassEnds
  <2>1. deadline' \in Int \cup {None}
    BY <1>9, <1>14, DeadlineIs DEF PassEnds, NextDeadline
  <2> QED BY <1>3, <1>14, <2>1 DEF TypeOK, PassEnds, edge
<1> QED BY <1>4, <1>5, <1>6, <1>7, <1>10, <1>11, <1>12, <1>13, <1>14 DEF Engine

\* Each step of the routes, the boot and the clock keeps the types.
LEMMA TypeRoutes ==
    ASSUME TypeOK, Routes \/ Buffer \/ RootRestored \/ Restart \/ Clock
    PROVE  TypeOK'
<1>1. /\ now \in Nat /\ now \in Int /\ row \in Rows /\ put \in Requests /\ eng \in Passes(now)
      /\ faults \in Nat /\ puts \in Nat
  BY ShiftAssumption DEF TypeOK
<1>2. Fault => faults' \in 0..MaxFaults
  BY <1>1, ShiftAssumption DEF Fault
<1>3. ASSUME NEW spec \in Specs \cup {row.spec}, NEW warn \in Warns,
             NEW status \in {"active", "paused"}, PutReads(spec, warn, status)
      PROVE  TypeOK'
  <2> DEFINE r == [spec |-> Anchored(spec), warn |-> warn, status |-> status]
             release == row.status = "active" /\ status = "paused"
  <2>1. spec \in Schedules /\ Validate(spec) /\ warn \in Nat \X Nat /\ warn[1] >= warn[2]
    BY <1>1, <1>3, RowIs, ScheduleAssumption, ShiftAssumption DEF PutReads
  <2>2. Anchored(spec) \in Schedules /\ Validate(Anchored(spec))
    BY <1>1, <2>1, AnchoredIs
  <2>3. r \in Rows
    BY <2>1, <2>2 DEF Rows, Valid
  <2>4. put' = [at |-> "read", release |-> release, row |-> r]
    BY <1>3 DEF PutReads
  <2> HIDE DEF r
  <2>5. put' \in Requests
    BY <2>3, <2>4 DEF Requests
  <2>6. puts' \in 0..MaxPuts
    BY <1>1, <1>3, ShiftAssumption DEF PutReads
  <2> QED BY <1>3, <2>5, <2>6 DEF TypeOK, PutReads, edge
<1>4. CASE PutSaves
  <2>1. put.row \in Rows /\ [put EXCEPT !.at = "saved"] \in Requests /\ NoPut \in Requests
    BY <1>1, <1>4, PutIs DEF PutSaves, NoPut, Requests
  <2>2. row' \in Rows /\ put' \in Requests
    BY <1>4, <2>1 DEF PutSaves
  <2> QED BY <1>4, <2>2 DEF TypeOK, PutSaves, edge
<1>5. CASE PutReleases
  <2>1. NoPut \in Requests
    BY DEF Requests
  <2> QED BY <1>5, <2>1 DEF TypeOK, PutReleases
<1>6. ASSUME NEW status \in {"on", "off"}, UpdateDuty(status) PROVE TypeOK'
  <2>1. held' \in BOOLEAN
    BY <1>6 DEF UpdateDuty, TypeOK
  <2> QED BY <1>2, <1>6, <2>1 DEF TypeOK, UpdateDuty
<1>7. CASE Buffer
  BY <1>7 DEF TypeOK, Buffer
<1>8. CASE RootRestored
  BY <1>8 DEF TypeOK, RootRestored, edge
<1>9. CASE Restart
  <2>1. eng' \in Passes(now) /\ put' \in Requests
    BY <1>1, <1>9, PassSets DEF Restart, Requests
  <2> QED BY <1>2, <1>9, <2>1 DEF TypeOK, Restart
<1>10. CASE Clock
  <2>1. now' \in 0..MaxTime /\ now' \in Nat /\ now <= now'
    BY <1>1, <1>10, ShiftAssumption DEF Clock
  <2>2. eng \in Passes(now')
    BY <1>1, <2>1 DEF Passes
  <2> QED BY <1>10, <2>1, <2>2 DEF TypeOK, Clock, edge
<1> QED BY <1>3, <1>4, <1>5, <1>6, <1>7, <1>8, <1>9, <1>10 DEF Routes

\* Each step keeps the types.
LEMMA TypeNext == TypeOK /\ [Next]_vars => TypeOK'
<1> SUFFICES ASSUME TypeOK, [Next]_vars PROVE TypeOK'
  OBVIOUS
<1>1. CASE Engine
  BY <1>1, TypeEngine
<1>2. CASE Routes \/ Buffer \/ RootRestored \/ Restart \/ Clock
  BY <1>2, TypeRoutes
<1>3. CASE UNCHANGED vars
  BY <1>3 DEF TypeOK, vars, edge
<1> QED BY <1>1, <1>2, <1>3 DEF Next

(***************************************************************************)
(* The engine's cycle.                                                     *)
(***************************************************************************)

\* The cycle is right about what is ahead, and duty agrees with it unless a route
\* set it.
CycleInv ==
    cycle # None =>
        /\ Ahead(cycle, now)
        /\ slept \/ Clear(cycle, now)
        /\ ~hands => (duty = "off" <=> cycle.phase = "off")
        /\ held /\ ~hands => duty = "off"

\* At a start that is due the shift it opens is on up to its end (execute_start).
LEMMA StartIs ==
    ASSUME NEW c \in ValidCycles, NEW t \in Int, OnAt(c.spec, c.start), t >= c.start
    PROVE  LET opened == WindowStatus(c.spec, c.start)
           IN  opened.end \in Int /\ \A u \in t..(opened.end - 1) : OnAt(c.spec, u)
<1> DEFINE opened == WindowStatus(c.spec, c.start)
<1>1. c.spec \in Schedules /\ Validate(c.spec) /\ c.start \in Int
  BY CycleIs
<1>2. /\ opened.end \in Int /\ opened.inside = OnAt(c.spec, c.start)
      /\ \A u \in (IF opened.inside THEN c.start ELSE opened.start)..(opened.end - 1) : OnAt(c.spec, u)
  BY <1>1, EvalExact DEF Exact
<1>3. \A u \in c.start..(opened.end - 1) : OnAt(c.spec, u)
  BY <1>1, <1>2
<1> HIDE DEF opened
<1>4. \A u \in t..(opened.end - 1) : OnAt(c.spec, u)
  BY <1>1, <1>2, <1>3
<1> QED BY <1>2, <1>4 DEF opened

\* Off duty the start that comes next is the one the evaluator gives.
LEMMA NextStartIs ==
    ASSUME NEW c \in ValidCycles, NEW t \in Int
    PROVE  LET st == WindowStatus(c.spec, t)
           IN  /\ st.start \in Int /\ OnAt(c.spec, st.start)
               /\ st.end \in Int
               /\ st.inside => \A u \in t..(st.end - 1) : OnAt(c.spec, u)
               /\ ~st.inside => \A u \in t..(st.start - 1) : ~OnAt(c.spec, u)
<1>1. c.spec \in Schedules /\ Validate(c.spec)
  BY CycleIs
<1> QED BY <1>1, EvalExact DEF Exact

\* Each transition leaves the cycle right (the drain of recompute).
LEMMA CycleDrain ==
    ASSUME TypeOK, CycleInv, FireStart \/ FirePreWarn \/ FireFinalWarn \/ FireEnd
    PROVE  CycleInv'
<1>1. /\ now \in Nat /\ now \in Int /\ eng \in Passes(now) /\ cycle \in ValidCycles \cup {None}
  BY ShiftAssumption DEF TypeOK
<1>2. eng.time \in Int /\ eng.time <= now
  BY <1>1, PassIs
<1>3. cycle \in ValidCycles /\ now' = now /\ duty \in {"on", "off"}
  BY <1>1 DEF FireStart, FirePreWarn, FireFinalWarn, FireEnd, Draining, TypeOK
<1>4. cycle # None /\ cycle.start \in Int /\ cycle.end \in Int /\ cycle.phase \in Phases
  BY <1>3, CycleIs
<1>5. /\ cycle.spec = Always => cycle.phase = "working"
      /\ cycle.phase = "off" => OnAt(cycle.spec, cycle.start)
      /\ cycle.phase # "off" => \A u \in now..(cycle.end - 1) : OnAt(cycle.spec, u)
      /\ ~hands => (duty = "off" <=> cycle.phase = "off")
      /\ held /\ ~hands => duty = "off"
  BY <1>4 DEF CycleInv, Ahead
<1> DEFINE st == WindowStatus(cycle.spec, eng.time)
           opened == WindowStatus(cycle.spec, cycle.start)
<1>6. /\ st.start \in Int /\ st.end \in Int /\ OnAt(cycle.spec, st.start)
      /\ st.inside => \A u \in now..(st.end - 1) : OnAt(cycle.spec, u)
      /\ ~st.inside => \A u \in now..(st.start - 1) : ~OnAt(cycle.spec, u)
  <2>1. /\ st.start \in Int /\ st.end \in Int /\ OnAt(cycle.spec, st.start)
        /\ st.inside => \A u \in eng.time..(st.end - 1) : OnAt(cycle.spec, u)
        /\ ~st.inside => \A u \in eng.time..(st.start - 1) : ~OnAt(cycle.spec, u)
    BY <1>2, <1>3, NextStartIs
  <2> HIDE DEF st
  <2> QED BY <1>1, <1>2, <2>1
<1>7. ASSUME FireStart
      PROVE  opened.end \in Int /\ \A u \in now..(opened.end - 1) : OnAt(cycle.spec, u)
  <2>1. cycle.phase = "off" /\ eng.time >= cycle.start
    BY <1>7, TransitionIs DEF FireStart, Draining
  <2>2. opened.end \in Int /\ \A u \in eng.time..(opened.end - 1) : OnAt(cycle.spec, u)
    BY <1>2, <1>3, <1>5, <2>1, StartIs
  <2> HIDE DEF opened
  <2> QED BY <1>1, <1>2, <2>2
<1>8. ASSUME cycle' \in ValidCycles, cycle'.spec = cycle.spec,
             cycle'.spec = Always => cycle'.phase = "working",
             cycle'.phase = "off" => OnAt(cycle.spec, cycle'.start),
             cycle'.phase # "off" => \A u \in now..(cycle'.end - 1) : OnAt(cycle.spec, u),
             slept' \/ (cycle'.phase = "off" => \A u \in now..(cycle'.start - 1) : ~OnAt(cycle.spec, u)),
             ~hands' => (duty' = "off" <=> cycle'.phase = "off"),
             held' /\ ~hands' => duty' = "off"
      PROVE  CycleInv'
  BY <1>3, <1>8 DEF CycleInv, Ahead, Clear
<1>9. CASE FireStart
  <2>1. cycle.phase = "off"
    BY <1>9, TransitionIs DEF FireStart, Draining
  <2>2. CASE eng.time >= opened.end
    <3>1. cycle' = [cycle EXCEPT !.start = st.start] /\ duty' = "off" /\ slept' = TRUE /\ hands' = FALSE
      BY <1>9, <2>2 DEF FireStart
    <3>2. Rewritten(cycle, cycle', cycle.phase, st.start, cycle.end)
      BY <1>3, <1>4, <1>6, <3>1, CycleWrites, Zenon
    <3> HIDE DEF st, opened
    <3> QED BY <1>5, <1>6, <1>8, <2>1, <3>1, <3>2 DEF Rewritten
  <2>3. CASE ~(eng.time >= opened.end)
    <3>1. cycle' = [cycle EXCEPT !.phase = "working", !.end = opened.end]
          /\ duty' = "on" /\ held' = FALSE
      BY <1>9, <2>3 DEF FireStart, ExecuteStart
    <3>2. Rewritten(cycle, cycle', "working", cycle.start, opened.end)
      <4>1. "working" \in Phases
        BY DEF Phases
      <4> QED BY <1>3, <1>7, <1>9, <3>1, <4>1, CycleWrites, Zenon
    <3> HIDE DEF st, opened
    <3> QED BY <1>7, <1>8, <1>9, <3>1, <3>2 DEF Rewritten
  <2> QED BY <2>2, <2>3
<1>10. ASSUME NEW phase \in Phases \ {"off"}, cycle' = [cycle EXCEPT !.phase = phase],
              cycle.phase # "off", cycle.spec # Always,
              ExecuteWarn \/ UNCHANGED edge
      PROVE  CycleInv'
  <2>1. Rewritten(cycle, cycle', phase, cycle.start, cycle.end)
    BY <1>3, <1>4, <1>10, CycleWrites, Zenon
  <2>2. duty' = duty /\ (~hands' => ~hands) /\ (held' => held \/ duty = "off")
    <3>1. CASE ExecuteWarn
      BY <3>1 DEF ExecuteWarn
    <3>2. CASE UNCHANGED edge
      BY <3>2 DEF edge
    <3> QED BY <1>10, <3>1, <3>2
  <2>3. ~hands => duty # "off"
    BY <1>5, <1>10
  <2>4. /\ ~hands' => (duty' = "off" <=> cycle'.phase = "off")
        /\ held' /\ ~hands' => duty' = "off"
    BY <1>5, <1>10, <2>1, <2>2, <2>3 DEF Rewritten
  <2>5. /\ cycle'.phase # "off" /\ cycle'.end = cycle.end /\ cycle' \in ValidCycles
        /\ cycle'.spec = cycle.spec /\ cycle'.spec # Always
    BY <1>10, <2>1 DEF Rewritten
  <2> QED BY <1>5, <1>8, <1>10, <2>4, <2>5
<1>11. CASE FirePreWarn
  <2>1. cycle.phase = "working" /\ cycle.spec # Always
    BY <1>11, TransitionIs DEF FirePreWarn, Draining
  <2>2. "prewarned" \in Phases \ {"off"}
    BY DEF Phases
  <2> QED BY <1>10, <1>11, <2>1, <2>2 DEF FirePreWarn
<1>12. CASE FireFinalWarn
  <2>1. cycle.phase = "prewarned" /\ cycle.spec # Always
    BY <1>5, <1>12, TransitionIs DEF FireFinalWarn, Draining
  <2>2. "finalwarned" \in Phases \ {"off"}
    BY DEF Phases
  <2> QED BY <1>10, <1>12, <2>1, <2>2 DEF FireFinalWarn
<1>13. CASE FireEnd
  <2>1. cycle.phase = "finalwarned"
    BY <1>13, TransitionIs DEF FireEnd, Draining
  <2>2. "working" \in Phases /\ "off" \in Phases
    BY DEF Phases
  <2>3. CASE st.inside
    <3>1. cycle' = [cycle EXCEPT !.end = st.end, !.phase = "working"] /\ UNCHANGED edge
      BY <1>13, <2>3 DEF FireEnd
    <3>2. Rewritten(cycle, cycle', "working", cycle.start, st.end)
      BY <1>3, <1>6, <2>2, <3>1, CycleWrites, Zenon
    <3> HIDE DEF st, opened
    <3> QED BY <1>5, <1>6, <1>8, <2>1, <2>3, <3>1, <3>2 DEF Rewritten, edge
  <2>4. CASE ~st.inside
    <3>1. cycle' = [cycle EXCEPT !.phase = "off", !.start = st.start] /\ duty' = "off"
      BY <1>13, <2>4 DEF FireEnd, ExecuteEnd
    <3>2. Rewritten(cycle, cycle', "off", st.start, cycle.end)
      BY <1>3, <1>6, <2>2, <3>1, CycleWrites, Zenon
    <3>3. cycle.spec # Always
      BY <1>5, <2>1
    <3> HIDE DEF st, opened
    <3> QED BY <1>6, <1>8, <2>4, <3>1, <3>2, <3>3 DEF Rewritten
  <2> QED BY <2>3, <2>4
<1> QED BY <1>9, <1>11, <1>12, <1>13

\* Bringing the cycle in line with the row leaves it right (recompute).
LEMMA CycleSync ==
    ASSUME TypeOK, CycleInv, Sync
    PROVE  CycleInv'
<1> DEFINE new == InitCycle(eng.row, eng.time)
<1>1. /\ now \in Nat /\ now \in Int /\ eng \in Passes(now) /\ duty \in {"on", "off"}
      /\ cycle \in ValidCycles \cup {None} /\ now' = now
  BY ShiftAssumption DEF TypeOK, Sync
<1>2. eng.time \in Int /\ eng.time <= now /\ eng.row \in Rows
  BY <1>1, PassIs DEF Sync
<1>3. /\ new \in ValidCycles /\ Ahead(new, now) /\ Clear(new, now)
  <2>1. new \in ValidCycles /\ Ahead(new, eng.time) /\ Clear(new, eng.time)
    BY <1>2, InitIs
  <2> HIDE DEF new
  <2>2. new \in Cycles
    BY <2>1, CycleIs
  <2> QED BY <1>1, <1>2, <2>1, <2>2, AheadLater
<1>4. CASE cycle' = None
  BY <1>4 DEF CycleInv
<1>5. CASE UNCHANGED <<cycle, edge>>
  BY <1>1, <1>5 DEF CycleInv, edge
<1>6. ASSUME cycle' = new,
             ~hands' => (duty' = "off" <=> new.phase = "off"),
             held' /\ ~hands' => duty' = "off"
      PROVE  CycleInv'
  BY <1>1, <1>3, <1>6 DEF CycleInv
<1>7. CASE cycle' = new /\ duty' = "off" /\ new.phase = "off"
  BY <1>6, <1>7
<1>8. CASE cycle' = new /\ ExecuteStart /\ new.phase # "off"
  BY <1>6, <1>8 DEF ExecuteStart
<1>9. CASE /\ cycle' = new /\ duty' = "on" /\ UNCHANGED <<held, hands>> /\ new.phase # "off"
           /\ cycle # None /\ cycle.phase # "off"
  <2>1. held /\ ~hands => FALSE
    BY <1>9 DEF CycleInv
  <2>2. held' /\ ~hands' => held /\ ~hands
    BY <1>9
  <2> QED BY <1>6, <1>9, <2>1, <2>2
<1>10. \/ cycle' = None
       \/ UNCHANGED <<cycle, edge>>
       \/ cycle' = new /\ duty' = "off" /\ new.phase = "off"
       \/ cycle' = new /\ ExecuteStart /\ new.phase # "off"
       \/ /\ cycle' = new /\ duty' = "on" /\ UNCHANGED <<held, hands>> /\ new.phase # "off"
          /\ cycle # None /\ cycle.phase # "off"
  BY DEF Sync, ExecuteEnd
<1> QED BY <1>4, <1>5, <1>7, <1>8, <1>9, <1>10

\* Each step leaves the cycle right.
LEMMA CycleNext == TypeOK /\ CycleInv /\ [Next]_vars => CycleInv'
<1> SUFFICES ASSUME TypeOK, CycleInv, [Next]_vars PROVE CycleInv'
  OBVIOUS
<1>1. now \in Int /\ cycle \in ValidCycles \cup {None}
  BY DEF TypeOK
<1>2. CASE UNCHANGED <<now, cycle, edge>>
  BY <1>2 DEF CycleInv, edge
<1>3. CASE cycle' = None
  BY <1>3 DEF CycleInv
<1>4. CASE FireStart \/ FirePreWarn \/ FireFinalWarn \/ FireEnd
  BY <1>4, CycleDrain
<1>5. CASE Sync
  BY <1>5, CycleSync
<1>6. CASE PassBegins \/ PassFails \/ PassEnds
  BY <1>2, <1>6 DEF PassBegins, PassFails, PassEnds, edge
<1>7. CASE PassReads
  BY <1>2, <1>3, <1>7 DEF PassReads, edge
<1>8. ASSUME NEW spec, NEW warn, NEW status, PutReads(spec, warn, status) PROVE CycleInv'
  BY <1>2, <1>8 DEF PutReads, edge
<1>9. CASE PutSaves \/ RootRestored
  BY <1>2, <1>9 DEF PutSaves, RootRestored, edge
<1>10. CASE UNCHANGED <<now, cycle, slept>> /\ hands' = TRUE
  BY <1>10 DEF CycleInv
<1>11. CASE PutReleases
  BY <1>10, <1>11 DEF PutReleases
<1>12. ASSUME NEW status, UpdateDuty(status) PROVE CycleInv'
  BY <1>10, <1>12 DEF UpdateDuty
<1>13. CASE Buffer
  <2>1. UNCHANGED <<now, cycle, slept, hands, duty>> /\ duty = "off"
    BY <1>13 DEF Buffer
  <2> QED BY <2>1 DEF CycleInv
<1>14. CASE Restart
  BY <1>3, <1>14 DEF Restart
<1>15. CASE Clock
  <2>1. now' \in Int /\ now <= now' /\ UNCHANGED <<cycle, edge>>
    BY <1>1, <1>15 DEF Clock
  <2>2. CASE cycle # None
    <3>1. cycle \in Cycles
      BY <1>1, <2>2, CycleIs
    <3>2. /\ Ahead(cycle, now) => Ahead(cycle, now')
          /\ Clear(cycle, now) => Clear(cycle, now')
      BY <1>1, <2>1, <3>1, AheadLater
    <3> QED BY <2>1, <3>2 DEF CycleInv, edge
  <2> QED BY <2>1, <2>2 DEF CycleInv
<1> QED BY <1>2, <1>4, <1>5, <1>6, <1>7, <1>8, <1>9, <1>11, <1>12, <1>13, <1>14, <1>15
        DEF Next, Engine, Routes, vars, edge

\* The cycle follows the row: none while the schedule is paused, one of the row's
\* schedule otherwise.
Matches(c, r) == IF r.status = "paused" THEN c = None ELSE c # None /\ ~Edited(c, r)

\* What a pass read is the stored row, or another pass is due; between passes the
\* cycle follows the row and the deadline is the cycle's, or another pass is due,
\* or there was no root.
SyncInv ==
    /\ eng.at = "sync" => permit \/ eng.row = row
    /\ eng.at = "drain" => permit \/ Matches(cycle, row)
    /\ eng.at = "parked" =>
          permit \/ blind \/ Due \/ (Matches(cycle, row) /\ deadline = NextDeadline(cycle))

\* A transition leaves what the cycle follows alone.
LEMMA DrainMatches ==
    ASSUME TypeOK, FireStart \/ FirePreWarn \/ FireFinalWarn \/ FireEnd
    PROVE  /\ cycle # None /\ cycle' # None /\ cycle'.spec = cycle.spec /\ cycle'.warn = cycle.warn
           /\ eng.at = "drain" /\ UNCHANGED <<row, eng, permit>>
<1>1. /\ now \in Nat /\ eng \in Passes(now) /\ eng.at = "drain" /\ cycle \in ValidCycles
      /\ UNCHANGED <<row, eng, permit>>
  BY ShiftAssumption DEF TypeOK, FireStart, FirePreWarn, FireFinalWarn, FireEnd, Draining
<1>2. eng.time \in Int
  BY <1>1, PassIs
<1> DEFINE st == WindowStatus(cycle.spec, eng.time)
           end == WindowStatus(cycle.spec, cycle.start).end
<1>3. st.start \in Int /\ st.end \in Int /\ end \in Int /\ {"working", "off", "prewarned", "finalwarned"} \subseteq Phases
  BY <1>1, <1>2, TimesAre DEF Phases
<1>4. \/ \E p \in Phases : cycle' = [cycle EXCEPT !.phase = p]
      \/ \E n \in Int : cycle' = [cycle EXCEPT !.start = n]
      \/ \E p \in Phases, n \in Int :
            \/ cycle' = [cycle EXCEPT !.phase = p, !.end = n]
            \/ cycle' = [cycle EXCEPT !.end = n, !.phase = p]
            \/ cycle' = [cycle EXCEPT !.phase = p, !.start = n]
  <2>1. \/ cycle' = [cycle EXCEPT !.phase = "prewarned"]
        \/ cycle' = [cycle EXCEPT !.phase = "finalwarned"]
        \/ cycle' = [cycle EXCEPT !.start = st.start]
        \/ cycle' = [cycle EXCEPT !.phase = "working", !.end = end]
        \/ cycle' = [cycle EXCEPT !.end = st.end, !.phase = "working"]
        \/ cycle' = [cycle EXCEPT !.phase = "off", !.start = st.start]
    BY DEF FireStart, FirePreWarn, FireFinalWarn, FireEnd
  <2> HIDE DEF st, end
  <2> QED BY <1>3, <2>1
<1>5. PICK p, s, e : Rewritten(cycle, cycle', p, s, e)
  <2>1. CASE \E p \in Phases : cycle' = [cycle EXCEPT !.phase = p]
    <3>1. PICK p \in Phases : cycle' = [cycle EXCEPT !.phase = p]
      BY <2>1
    <3>2. Rewritten(cycle, cycle', p, cycle.start, cycle.end)
      BY <1>1, <1>3, <3>1, CycleWrites, Zenon
    <3> QED BY <3>2
  <2>2. CASE \E n \in Int : cycle' = [cycle EXCEPT !.start = n]
    <3>1. PICK n \in Int : cycle' = [cycle EXCEPT !.start = n]
      BY <2>2
    <3>2. "off" \in Phases
      BY <1>3
    <3>3. Rewritten(cycle, cycle', cycle.phase, n, cycle.end)
      BY <1>1, <3>1, <3>2, CycleWrites, Zenon
    <3> QED BY <3>3
  <2>3. CASE \E p \in Phases, n \in Int :
                \/ cycle' = [cycle EXCEPT !.phase = p, !.end = n]
                \/ cycle' = [cycle EXCEPT !.end = n, !.phase = p]
                \/ cycle' = [cycle EXCEPT !.phase = p, !.start = n]
    <3>1. PICK p \in Phases, n \in Int :
             \/ cycle' = [cycle EXCEPT !.phase = p, !.end = n]
             \/ cycle' = [cycle EXCEPT !.end = n, !.phase = p]
             \/ cycle' = [cycle EXCEPT !.phase = p, !.start = n]
      BY <2>3
    <3>2. /\ Rewritten(cycle, [cycle EXCEPT !.phase = p, !.end = n], p, cycle.start, n)
          /\ Rewritten(cycle, [cycle EXCEPT !.end = n, !.phase = p], p, cycle.start, n)
          /\ Rewritten(cycle, [cycle EXCEPT !.phase = p, !.start = n], p, n, cycle.end)
      BY <1>1, <3>1, CycleWrites, Zenon
    <3>3. \/ Rewritten(cycle, cycle', p, cycle.start, n)
          \/ Rewritten(cycle, cycle', p, n, cycle.end)
      BY <3>1, <3>2, Zenon
    <3> QED BY <3>3
  <2> QED BY <1>4, <2>1, <2>2, <2>3
<1> QED BY <1>1, <1>5, CycleIs DEF Rewritten

\* Each step keeps the cycle the one of the row.
LEMMA SyncNext == TypeOK /\ SyncInv /\ [Next]_vars => SyncInv'
<1> SUFFICES ASSUME TypeOK, SyncInv, [Next]_vars PROVE SyncInv'
  OBVIOUS
<1>1. /\ now \in Nat /\ now \in Int /\ row \in Rows /\ eng \in Passes(now)
      /\ cycle \in ValidCycles \cup {None} /\ deadline \in Int \cup {None}
  BY ShiftAssumption DEF TypeOK
<1>2. CASE UNCHANGED <<now, row, cycle, deadline, permit, eng, blind>>
  BY <1>2 DEF SyncInv, Due
<1>3. CASE eng'.at = "begin"
  BY <1>3 DEF SyncInv
<1>4. CASE eng'.at = "parked" /\ (permit' \/ blind' \/ Due')
  BY <1>4 DEF SyncInv
<1>5. CASE PassBegins \/ Restart
  BY <1>3, <1>5 DEF PassBegins, Restart
<1>6. CASE PassReads
  <2>1. CASE rooted
    <3>1. eng' = [eng EXCEPT !.at = "sync", !.row = row] /\ row' = row
      BY <1>6, <2>1 DEF PassReads
    <3>2. Moved(now, eng, eng', "sync", row)
      BY <1>1, <3>1, PassWrites
    <3> QED BY <3>1, <3>2 DEF SyncInv, Moved
  <2>2. CASE ~rooted
    <3>1. eng'.at = "parked" /\ blind'
      <4>1. eng' = Parked /\ blind' = TRUE
        BY <1>6, <2>2 DEF PassReads
      <4> QED BY <4>1 DEF Parked
    <3> QED BY <1>4, <3>1
  <2> QED BY <2>1, <2>2
<1>7. CASE PassFails
  <2>1. eng'.at = "parked" /\ deadline' = now /\ now' = now /\ now # None
    BY <1>1, <1>7, ScheduleAssumption DEF PassFails, Parked
  <2>2. Due'
    BY <1>1, <2>1 DEF Due
  <2> QED BY <1>4, <2>1, <2>2
<1>8. CASE Sync
  <2>1. eng.at = "sync" /\ eng' = [eng EXCEPT !.at = "drain"] /\ row' = row /\ permit' = permit
    BY <1>8 DEF Sync
  <2>2. eng.row \in Rows /\ eng.time \in Int
    BY <1>1, <2>1, PassIs
  <2>3. eng'.at = "drain"
    BY <1>1, <2>1, <2>2, PassWrites DEF Moved
  <2> DEFINE new == InitCycle(eng.row, eng.time)
  <2>4. new # None /\ new.spec = eng.row.spec /\ new.warn = eng.row.warn
    BY <2>2, InitIs, CycleIs
  <2>5. IF eng.row.status = "paused" THEN cycle' = None
        ELSE \/ cycle # None /\ ~Edited(cycle, eng.row) /\ cycle' = cycle
             \/ cycle' = new
    BY <1>8 DEF Sync
  <2> HIDE DEF new
  <2>6. Matches(cycle', eng.row)
    BY <2>4, <2>5 DEF Matches, Edited
  <2> QED BY <2>1, <2>3, <2>6 DEF SyncInv
<1>9. CASE FireStart \/ FirePreWarn \/ FireFinalWarn \/ FireEnd
  <2>1. /\ cycle # None /\ cycle' # None /\ cycle'.spec = cycle.spec /\ cycle'.warn = cycle.warn
        /\ eng.at = "drain" /\ UNCHANGED <<row, eng, permit>>
    BY <1>9, DrainMatches
  <2> QED BY <2>1 DEF SyncInv, Matches, Edited
<1>10. CASE PassEnds
  <2>1. /\ eng.at = "drain" /\ eng'.at = "parked" /\ deadline' = NextDeadline(cycle)
        /\ UNCHANGED <<now, row, cycle, permit, blind>>
    BY <1>10 DEF PassEnds, Parked
  <2>2. permit' \/ (Matches(cycle', row') /\ deadline' = NextDeadline(cycle'))
    BY <2>1 DEF SyncInv
  <2> QED BY <2>1, <2>2 DEF SyncInv
<1>11. ASSUME NEW spec, NEW warn, NEW status, PutReads(spec, warn, status) PROVE SyncInv'
  BY <1>2, <1>11 DEF PutReads
<1>12. CASE PutSaves
  <2>1. permit' = TRUE
    BY <1>12 DEF PutSaves
  <2> QED BY <2>1 DEF SyncInv
<1>13. CASE PutReleases
  BY <1>2, <1>13 DEF PutReleases
<1>14. ASSUME NEW status, UpdateDuty(status) PROVE SyncInv'
  BY <1>2, <1>14 DEF UpdateDuty
<1>15. CASE Buffer \/ RootRestored
  BY <1>2, <1>15 DEF Buffer, RootRestored
<1>16. CASE Clock
  <2>1. now' \in Int /\ now <= now' /\ UNCHANGED <<row, cycle, deadline, permit, eng, blind>>
    BY <1>1, <1>16 DEF Clock
  <2>2. Due => Due'
    BY <1>1, <2>1 DEF Due
  <2> QED BY <2>1, <2>2 DEF SyncInv
<1> QED BY <1>2, <1>5, <1>6, <1>7, <1>8, <1>9, <1>10, <1>11, <1>12, <1>13, <1>14, <1>15, <1>16
        DEF Next, Engine, Routes, vars

(***************************************************************************)
(* The theorems.                                                           *)
(***************************************************************************)

ShiftInv == TypeOK /\ CycleInv /\ SyncInv

\* The three parts hold together.
LEMMA ShiftInvCorrect == Spec => []ShiftInv
<1>1. Init => ShiftInv
  <2>1. Init => cycle = None /\ eng.at = "begin"
    BY DEF Init
  <2> QED BY <2>1, TypeInit DEF ShiftInv, CycleInv, SyncInv
<1>2. ShiftInv /\ [Next]_vars => ShiftInv'
  BY TypeNext, CycleNext, SyncNext DEF ShiftInv
<1> QED BY <1>1, <1>2, PTL DEF Spec

\* The schedule, the cycle, the engine's pass and the request under way stay what the
\* code's types and Validate allow: no row and no cycle holds a refused schedule
\* (put_work_schedule, recompute).
THEOREM ShiftTypeCorrect == Spec => []TypeOK
<1>1. ShiftInv => TypeOK
  BY DEF ShiftInv
<1> QED BY <1>1, ShiftInvCorrect, PTL

\* window_status tells exactly when the agent is to be on duty, and the next change,
\* for every schedule that passes Validate (always, rotation, calendar), every length
\* of hour, day and cycle, and every time.
THEOREM EvalCorrect == Spec => []EvalIsExact
<1>1. TypeOK => EvalIsExact
  <2> SUFFICES ASSUME TypeOK PROVE EvalIsExact
    OBVIOUS
  <2>1. row.spec \in Schedules /\ Validate(row.spec) /\ now \in Int
    BY RowIs DEF TypeOK
  <2>2. Exact(row.spec, now)
    BY <2>1, EvalExact
  <2> QED BY <2>2 DEF Exact, EvalIsExact
<1> QED BY <1>1, ShiftTypeCorrect, PTL

\* Between passes the engine has put the agent on duty exactly when its schedule says
\* so (recompute), for every edit, pause, restart, stall and failed pass.
THEOREM DutyCorrect == Spec => []DutyFollowsWindow
<1>1. ShiftInv => DutyFollowsWindow
  <2> SUFFICES ASSUME ShiftInv, Followed, ~hands, ~slept PROVE (duty = "on") = OnAt(row.spec, now)
    BY DEF DutyFollowsWindow
  <2>1. /\ now \in Int /\ cycle \in ValidCycles /\ cycle # None /\ cycle.spec = row.spec
        /\ deadline = NextDeadline(cycle) /\ duty \in {"on", "off"} /\ row \in Rows
    BY DEF ShiftInv, TypeOK, SyncInv, Followed, Idle, Matches, Edited
  <2>2. /\ deadline \in Int /\ now < deadline
        /\ cycle.phase = "off" => deadline = cycle.start
        /\ cycle.phase # "off" => deadline <= cycle.end
        /\ cycle.start \in Int /\ cycle.end \in Int
    <3>1. NextDeadline(cycle) # None
      BY <2>1, DeadlineIs, ScheduleAssumption
    <3> QED BY <2>1, <3>1, DeadlineIs, CycleIs DEF Followed, Due
  <2>3. /\ Ahead(cycle, now) /\ Clear(cycle, now)
        /\ duty = "off" <=> cycle.phase = "off"
    BY <2>1 DEF ShiftInv, CycleInv
  <2>4. (duty = "on") <=> OnAt(row.spec, now)
    BY <2>1, <2>2, <2>3 DEF Ahead, Clear
  <2>5. OnAt(row.spec, now) \in BOOLEAN
    BY <2>1, RowIs, OnAtType
  <2> QED BY <2>4, <2>5
<1> QED BY <1>1, ShiftInvCorrect, PTL

\* A message held while off duty does not wait beside an agent the engine brought on
\* duty: execute_start announces it, in every way to come on duty.
THEOREM HeldCorrect == Spec => []HeldIsOffDuty
<1>1. ShiftInv => HeldIsOffDuty
  <2> SUFFICES ASSUME ShiftInv, Followed, ~hands, held PROVE duty = "off"
    BY DEF HeldIsOffDuty
  <2>1. cycle # None
    BY DEF ShiftInv, SyncInv, Followed, Idle, Matches
  <2> QED BY <2>1 DEF ShiftInv, CycleInv
<1> QED BY <1>1, ShiftInvCorrect, PTL

(***************************************************************************)
(* The shell: its invariant.                                               *)
(***************************************************************************)

\* What the backend's operation knows of its child.
OpInv ==
    /\ at \in {"execSnap", "bgSnap"} => cur \in Procs /\ life[cur] = "none"
    /\ at \in {"bgForked", "bgCounted"} =>
          cur \in Procs /\ life[cur] # "none" /\ state[cur] = "none"
    /\ at \in {"execWait", "adopting", "adoptRead", "refused"} =>
          cur \in Procs /\ life[cur] # "none" /\ state[cur] = "fg"
    /\ at \in {"killing", "dropKill"} => cur \in Procs /\ cur \in cancelled
    /\ \A p \in Procs : life[p] = "none" => state[p] = "none" /\ watcher[p] = "none"

\* The two sides of the gate exclude each other, and a carve between the gate
\* and the lock table holds the WRITE side over no running task.
GateInv ==
    /\ reading => writer = NoOne
    /\ at \in {"execSnap", "bgSnap", "bgForked", "adoptRead"} => reading
    /\ \A c \in Carves : carve[c] \in {"permit", "gated"} => writer = c
    /\ \A c \in Carves : carve[c] = "gated" => running_bg = 0

\* Children forked under READ know every carve-out; a settled task is doomed;
\* and a command whose epoch is still the gate's was not overtaken.
StaleInv ==
    /\ NoStaleTask
    /\ \A p \in Procs : state[p] \in {"killed", "exited"} => Condemned(p)
    /\ at \in {"execSnap", "bgSnap"} => Confined(cur)
    /\ at \in {"bgForked", "bgCounted"} /\ life[cur] = "alive" => Confined(cur)
    /\ at \in {"execWait", "adopting", "adoptRead", "refused"} =>
          /\ forkEpoch <= carve_epoch
          /\ forkEpoch = carve_epoch =>
                /\ \A c \in Carves : carve[c] # "gated"
                /\ life[cur] = "alive" => Confined(cur)

ShellInv == ShellTypeOK /\ OpInv /\ TallyExact /\ GateInv /\ StaleInv

(***************************************************************************)
(* Types.                                                                  *)
(***************************************************************************)

\* Nothing has been launched.
LEMMA InitType == ShellInit => ShellTypeOK
<1> SUFFICES ASSUME ShellInit PROVE ShellTypeOK
  OBVIOUS
<1>1. reading \in BOOLEAN
  BY Zenon DEF ShellInit
<1> QED BY <1>1, ShellAssumption DEF ShellInit, ShellTypeOK, Background

\* Each step leaves READ held or not.
LEMMA NextReading == ShellTypeOK /\ [ShellNext]_shellVars => reading' \in BOOLEAN
<1> SUFFICES ASSUME reading \in BOOLEAN, [ShellNext]_shellVars PROVE reading' \in BOOLEAN
  BY DEF ShellTypeOK
<1>1. reading' \in {reading, TRUE, FALSE}
  <2>1. CASE UNCHANGED shellVars
    BY <2>1 DEF shellVars, gateVars
  <2>2. CASE OpStep
    BY <2>2 DEF OpStep, LaunchFails, ExecFork, ExecDone, ExecTimeout, AdoptRead, Adopt, AdoptRefused,
                RefusedKill, BgFork, BgCount, BgStart, KillJoined, DropKill, DropMark, gateVars
  <2>3. CASE Interrupt \/ DropBegin
    BY <2>3 DEF Interrupt, DropBegin, gateVars
  <2>4. ASSUME NEW q \in Procs, NEW kind \in {"execSnap", "bgSnap"}, Launch(q, kind)
        PROVE  reading' \in {reading, TRUE, FALSE}
    BY <2>4 DEF Launch
  <2>5. ASSUME NEW q \in Procs, Kill(q) \/ ProcExits(q) \/ WatchStep(q) \/ WatchAborted(q)
        PROVE  reading' \in {reading, TRUE, FALSE}
    BY <2>5
       DEF Kill, ProcExits, WatchStep, WatchKills, WatchReaps, WatchMarks, WatchReports,
           WatchAborted, gateVars
  <2>6. ASSUME NEW c \in Carves, CarvePermit(c) \/ CarveStep(c) \/ CarveEnds(c) \/ Recarve(c)
        PROVE  reading' \in {reading, TRUE, FALSE}
    BY <2>6 DEF CarvePermit, CarveStep, CarveGate, CarveLand, CarveEnds, Recarve, gateVars
  <2> QED BY <2>1, <2>2, <2>3, <2>4, <2>5, <2>6 DEF ShellNext
<1> QED BY <1>1, Zenon

\* Each step keeps the types.
LEMMA NextType == ShellTypeOK /\ OpInv /\ [ShellNext]_shellVars => ShellTypeOK'
<1> SUFFICES ASSUME ShellTypeOK, OpInv, [ShellNext]_shellVars PROVE ShellTypeOK'
  OBVIOUS
<1>0. reading' \in BOOLEAN
  BY NextReading
<1> USE <1>0, ShellAssumption DEF ShellTypeOK, Background, gateVars, carveVars, procVars, taskVars, opVars,
                   GoTo, Return, Die, MarkTerminal, Register
<1>1. CASE UNCHANGED shellVars
  BY <1>1 DEF shellVars
<1>2. CASE LaunchFails \/ ExecFork \/ (\E failed \in BOOLEAN : ExecDone(failed)) \/ ExecTimeout
  BY <1>2 DEF LaunchFails, ExecFork, ExecDone, ExecTimeout, OpInv
<1>3. CASE AdoptRead \/ Adopt \/ AdoptRefused
  BY <1>3 DEF AdoptRead, Adopt, AdoptRefused, OpInv
<1>4. CASE RefusedKill \/ BgFork \/ BgCount \/ BgStart
  BY <1>4 DEF RefusedKill, BgFork, BgCount, BgStart, OpInv
<1>5. CASE KillJoined \/ DropKill
  BY <1>5 DEF KillJoined, DropKill, OpInv
<1>6. CASE Interrupt \/ DropBegin
  BY <1>6 DEF Interrupt, DropBegin, OpInv
<1>7. ASSUME NEW q \in Procs, DropMark(q) \/ Kill(q) PROVE ShellTypeOK'
  BY <1>7 DEF DropMark, Kill
<1>8. ASSUME NEW q \in Procs, NEW kind \in {"execSnap", "bgSnap"}, Launch(q, kind) PROVE ShellTypeOK'
  BY <1>8 DEF Launch
<1>9. ASSUME NEW q \in Procs, ProcExits(q) \/ WatchReaps(q) \/ WatchReports(q) \/ WatchAborted(q)
      PROVE  ShellTypeOK'
  BY <1>9 DEF ProcExits, WatchReaps, WatchReports, WatchAborted, WatcherAt
<1>10. ASSUME NEW q \in Procs, (\E oversize \in BOOLEAN : WatchKills(q, oversize)) \/ WatchMarks(q)
       PROVE  ShellTypeOK'
  BY <1>10 DEF WatchKills, WatchMarks, WatcherAt
<1>11. ASSUME NEW c \in Carves, CarvePermit(c) \/ CarveStep(c) PROVE ShellTypeOK'
  BY <1>11 DEF CarvePermit, CarveStep, CarveGate, CarveLand, CarveAt
<1>12. ASSUME NEW c \in Carves, CarveEnds(c) \/ Recarve(c) PROVE ShellTypeOK'
  BY <1>12 DEF CarveEnds, Recarve, CarveAt
<1> QED
  BY <1>1, <1>2, <1>3, <1>4, <1>5, <1>6, <1>7, <1>8, <1>9, <1>10, <1>11, <1>12
     DEF ShellNext, OpStep, WatchStep

(***************************************************************************)
(* The operation and its child.                                            *)
(***************************************************************************)

\* No operation runs at first.
LEMMA InitOp == ShellInit => OpInv
BY DEF ShellInit, OpInv

\* Each step keeps what the operation knows.
LEMMA NextOp == ShellTypeOK /\ OpInv /\ [ShellNext]_shellVars => OpInv'
<1> SUFFICES ASSUME ShellTypeOK, OpInv, [ShellNext]_shellVars PROVE OpInv'
  OBVIOUS
<1> USE ShellAssumption DEF ShellTypeOK, OpInv, Background, gateVars, carveVars, procVars, taskVars, opVars,
        GoTo, Return, Die, MarkTerminal, Register
<1>1. CASE UNCHANGED shellVars
  BY <1>1 DEF shellVars
<1>2. CASE LaunchFails
  BY <1>2 DEF LaunchFails
<1>3. CASE ExecFork
  BY <1>3 DEF ExecFork
<1>4. CASE ExecTimeout \/ AdoptRead \/ AdoptRefused
  BY <1>4 DEF ExecTimeout, AdoptRead, AdoptRefused
<1>5. CASE Adopt
  BY <1>5 DEF Adopt
<1>6. CASE RefusedKill \/ \E failed \in BOOLEAN : ExecDone(failed)
  BY <1>6 DEF RefusedKill, ExecDone
<1>7. CASE BgFork
  BY <1>7 DEF BgFork
<1>8. CASE BgCount \/ BgStart
  BY <1>8 DEF BgCount, BgStart
<1>9. CASE KillJoined
  BY <1>9 DEF KillJoined
<1>10. CASE DropKill
  BY <1>10 DEF DropKill
<1>11. CASE Interrupt \/ DropBegin
  BY <1>11 DEF Interrupt, DropBegin
<1>12. ASSUME NEW q \in Procs, DropMark(q) PROVE OpInv'
  BY <1>12 DEF DropMark
<1>13. ASSUME NEW q \in Procs, Kill(q) PROVE OpInv'
  BY <1>13 DEF Kill
<1>14. ASSUME NEW q \in Procs, NEW kind \in {"execSnap", "bgSnap"}, Launch(q, kind) PROVE OpInv'
  BY <1>14 DEF Launch
<1>15. ASSUME NEW q \in Procs, ProcExits(q) PROVE OpInv'
  BY <1>15 DEF ProcExits
<1>16. ASSUME NEW q \in Procs, WatchReaps(q) PROVE OpInv'
  BY <1>16 DEF WatchReaps, WatcherAt
<1>17. ASSUME NEW q \in Procs, WatchReports(q) \/ WatchAborted(q) PROVE OpInv'
  BY <1>17 DEF WatchReports, WatchAborted, WatcherAt
<1>18. ASSUME NEW q \in Procs, \E oversize \in BOOLEAN : WatchKills(q, oversize) PROVE OpInv'
  BY <1>18 DEF WatchKills, WatcherAt
<1>19. ASSUME NEW q \in Procs, WatchMarks(q) PROVE OpInv'
  BY <1>19 DEF WatchMarks, WatcherAt
<1>20. ASSUME NEW c \in Carves, CarvePermit(c) \/ CarveStep(c) \/ CarveEnds(c) \/ Recarve(c)
       PROVE  OpInv'
  BY <1>20 DEF CarvePermit, CarveStep, CarveGate, CarveLand, CarveEnds, Recarve
<1> QED
  BY <1>1, <1>2, <1>3, <1>4, <1>5, <1>6, <1>7, <1>8, <1>9, <1>10, <1>11, <1>12, <1>13, <1>14,
     <1>15, <1>16, <1>17, <1>18, <1>19, <1>20
     DEF ShellNext, OpStep, WatchStep

(***************************************************************************)
(* The tally.                                                              *)
(***************************************************************************)

Running == {p \in Procs : state[p] = "running"}

\* Only children run, so their number is one.
LEMMA RunningFinite == IsFiniteSet(Running) /\ Cardinality(Running) \in Nat
BY ShellAssumption, FS_Subset, FS_CardinalityType DEF Running

\* A task that is settled leaves the tally once.
LEMMA MarkTally ==
    ASSUME ShellTypeOK, TallyExact, NEW q \in Procs, NEW terminal \in {"killed", "exited"},
           MarkTerminal(q, terminal), at = "bgCounted" <=> at' = "bgCounted"
    PROVE  TallyExact'
<1> DEFINE counted == IF at = "bgCounted" THEN 1 ELSE 0
<1>0. running_bg = Cardinality(Running) + counted /\ counted' = counted
  BY DEF TallyExact, Running
<1>1. CASE state[q] = "running"
  <2>1. Running' = Running \ {q} /\ q \in Running
    BY <1>1 DEF MarkTerminal, Running, ShellTypeOK
  <2>2. Cardinality(Running') = Cardinality(Running) - 1
    BY <2>1, RunningFinite, FS_RemoveElement
  <2>3. running_bg' = Cardinality(Running') + counted'
    BY <1>0, <1>1, <2>2, RunningFinite DEF MarkTerminal
  <2> QED BY <2>3 DEF TallyExact, Running
<1>2. CASE state[q] # "running"
  BY <1>0, <1>2 DEF MarkTerminal, TallyExact, Running
<1> QED BY <1>1, <1>2

\* A task that is registered joins the running ones.
LEMMA RegisterRuns ==
    ASSUME ShellTypeOK, NEW q \in Procs, state[q] # "running", Register(q)
    PROVE  Cardinality(Running') = Cardinality(Running) + 1
<1>1. Running' = Running \cup {q} /\ q \notin Running
  BY DEF Register, Running, ShellTypeOK
<1> QED BY <1>1, RunningFinite, FS_AddElement

\* Each step keeps the tally exact.
LEMMA NextTally == ShellTypeOK /\ OpInv /\ TallyExact /\ [ShellNext]_shellVars => TallyExact'
<1> SUFFICES ASSUME ShellTypeOK, OpInv, TallyExact, [ShellNext]_shellVars PROVE TallyExact'
  OBVIOUS
<1>1. CASE /\ UNCHANGED <<state, running_bg>>
           /\ at = "bgCounted" <=> at' = "bgCounted"
  BY <1>1 DEF TallyExact
<1>2. CASE UNCHANGED shellVars
  BY <1>1, <1>2 DEF shellVars, gateVars, opVars, taskVars
<1>3. CASE LaunchFails \/ (\E failed \in BOOLEAN : ExecDone(failed)) \/ ExecTimeout \/ AdoptRead \/ AdoptRefused \/ RefusedKill
           \/ BgFork \/ DropKill \/ Interrupt \/ DropBegin
  BY <1>1, <1>3
     DEF LaunchFails, ExecDone, ExecTimeout, AdoptRead, AdoptRefused, RefusedKill, BgFork, DropKill,
         Interrupt, DropBegin, GoTo, Return, gateVars, taskVars
<1>4. CASE ExecFork
  <2>1. state[cur] = "none" /\ cur \in Procs /\ state' = [state EXCEPT ![cur] = "fg"]
    BY <1>4 DEF ExecFork, OpInv
  <2>2. Running' = Running
    BY <2>1 DEF Running, ShellTypeOK
  <2> QED BY <1>4, <2>2 DEF ExecFork, TallyExact, Running
<1>5. CASE Adopt
  <2>1. cur \in Procs /\ state[cur] # "running" /\ Register(cur)
    BY <1>5 DEF Adopt, OpInv
  <2>2. running_bg' = Cardinality(Running) + 1 /\ at' # "bgCounted"
    BY <1>5, RunningFinite DEF Adopt, TallyExact, Running, Return
  <2>3. running_bg' = Cardinality(Running')
    BY <2>1, <2>2, RegisterRuns
  <2> QED BY <2>2, <2>3, RunningFinite DEF TallyExact, Running
<1>6. CASE BgCount
  <2>1. running_bg = Cardinality(Running) /\ running_bg' = running_bg + 1 /\ at' = "bgCounted"
    BY <1>6, RunningFinite DEF BgCount, TallyExact, Running, GoTo
  <2>2. Running' = Running
    BY <1>6 DEF BgCount, Running, taskVars
  <2> QED BY <2>1, <2>2 DEF TallyExact, Running
<1>7. CASE BgStart
  <2>1. cur \in Procs /\ state[cur] # "running" /\ Register(cur)
    BY <1>7 DEF BgStart, OpInv
  <2>2. running_bg' = Cardinality(Running) + 1 /\ at' # "bgCounted"
    BY <1>7 DEF BgStart, TallyExact, Running, Return, gateVars
  <2>3. running_bg' = Cardinality(Running')
    BY <2>1, <2>2, RegisterRuns
  <2> QED BY <2>2, <2>3, RunningFinite DEF TallyExact, Running
<1>8. CASE KillJoined
  BY <1>8, MarkTally DEF KillJoined, Return, OpInv
<1>9. ASSUME NEW q \in Procs, DropMark(q) PROVE TallyExact'
  BY <1>9, MarkTally DEF DropMark, GoTo
<1>10. ASSUME NEW q \in Procs, NEW kind \in {"execSnap", "bgSnap"}, Launch(q, kind) PROVE TallyExact'
  BY <1>1, <1>10 DEF Launch, GoTo, taskVars
<1>11. ASSUME NEW q \in Procs,
              \/ Kill(q) \/ ProcExits(q) \/ WatchReaps(q) \/ WatchReports(q) \/ WatchAborted(q)
              \/ \E oversize \in BOOLEAN : WatchKills(q, oversize)
       PROVE  TallyExact'
  BY <1>1, <1>11
     DEF Kill, ProcExits, WatchReaps, WatchReports, WatchAborted, WatchKills, GoTo, gateVars,
         taskVars, opVars
<1>12. ASSUME NEW q \in Procs, WatchMarks(q) PROVE TallyExact'
  BY <1>12, MarkTally DEF WatchMarks, opVars
<1>13. ASSUME NEW c \in Carves, CarvePermit(c) \/ CarveStep(c) \/ CarveEnds(c) \/ Recarve(c)
       PROVE  TallyExact'
  BY <1>1, <1>13
     DEF CarvePermit, CarveStep, CarveGate, CarveLand, CarveEnds, Recarve, gateVars, taskVars, opVars
<1> QED
  BY <1>2, <1>3, <1>4, <1>5, <1>6, <1>7, <1>8, <1>9, <1>10, <1>11, <1>12, <1>13
     DEF ShellNext, OpStep, WatchStep

(***************************************************************************)
(* The gate.                                                               *)
(***************************************************************************)

\* A tally of zero means that no task runs and none is about to.
LEMMA ZeroTally ==
    ASSUME ShellTypeOK, TallyExact, running_bg = 0
    PROVE  at # "bgCounted" /\ \A p \in Procs : state[p] # "running"
<1>1. Cardinality(Running) = 0 /\ at # "bgCounted"
  BY RunningFinite DEF TallyExact, Running
<1>2. Running = {}
  BY <1>1, RunningFinite, FS_EmptySet
<1> QED BY <1>1, <1>2 DEF Running

\* The gate is free at first.
LEMMA InitGate == ShellInit => GateInv
BY DEF ShellInit, GateInv

\* A settled task leaves a tally of zero at zero.
LEMMA MarkGate ==
    ASSUME ShellTypeOK, TallyExact, NEW q \in Procs, NEW terminal, MarkTerminal(q, terminal)
    PROVE  running_bg = 0 => running_bg' = 0
BY ZeroTally DEF MarkTerminal

\* Each step keeps the two sides apart.
LEMMA NextGate == ShellTypeOK /\ OpInv /\ TallyExact /\ GateInv /\ [ShellNext]_shellVars => GateInv'
<1> SUFFICES ASSUME ShellTypeOK, OpInv, TallyExact, GateInv, [ShellNext]_shellVars PROVE GateInv'
  OBVIOUS
<1> USE ShellAssumption DEF GateInv, gateVars, carveVars, opVars, GoTo, Return
<1>1. CASE UNCHANGED shellVars
  BY <1>1 DEF shellVars
<1>2. CASE LaunchFails \/ ExecFork \/ (\E failed \in BOOLEAN : ExecDone(failed)) \/ ExecTimeout
           \/ AdoptRead \/ AdoptRefused \/ RefusedKill
  BY <1>2 DEF LaunchFails, ExecFork, ExecDone, ExecTimeout, AdoptRead, AdoptRefused, RefusedKill, ShellTypeOK
<1>3. CASE Adopt
  BY <1>3 DEF Adopt
<1>4. CASE BgFork \/ BgStart \/ DropKill \/ DropBegin \/ Interrupt
  BY <1>4 DEF BgFork, BgStart, DropKill, DropBegin, Interrupt
<1>5. CASE BgCount
  BY <1>5 DEF BgCount
<1>6. CASE KillJoined
  BY <1>6, MarkGate DEF KillJoined, OpInv
<1>7. ASSUME NEW q \in Procs, DropMark(q) PROVE GateInv'
  BY <1>7, MarkGate DEF DropMark
<1>8. ASSUME NEW q \in Procs, NEW kind \in {"execSnap", "bgSnap"}, Launch(q, kind) PROVE GateInv'
  BY <1>8 DEF Launch
<1>9. ASSUME NEW q \in Procs,
             \/ Kill(q) \/ ProcExits(q) \/ WatchReaps(q) \/ WatchReports(q) \/ WatchAborted(q)
             \/ \E oversize \in BOOLEAN : WatchKills(q, oversize)
      PROVE  GateInv'
  BY <1>9 DEF Kill, ProcExits, WatchReaps, WatchReports, WatchAborted, WatchKills
<1>10. ASSUME NEW q \in Procs, WatchMarks(q) PROVE GateInv'
  <2>1. running_bg = 0 => running_bg' = 0
    BY <1>10, MarkGate DEF WatchMarks
  <2> QED BY <1>10, <2>1 DEF WatchMarks
<1>11. ASSUME NEW c \in Carves, CarvePermit(c) PROVE GateInv'
  BY <1>11 DEF CarvePermit, CarveAt, ShellTypeOK
<1>12. ASSUME NEW c \in Carves, CarveGate(c) PROVE GateInv'
  <2>1. TallyExact => running_bg >= 0
    BY RunningFinite DEF TallyExact, Running
  <2> QED BY <1>12, <2>1 DEF CarveGate, CarveAt, ShellTypeOK
<1>13. ASSUME NEW c \in Carves, (\E ok \in BOOLEAN : CarveLand(c, ok)) \/ CarveEnds(c) \/ Recarve(c)
       PROVE  GateInv'
  BY <1>13 DEF CarveLand, CarveEnds, Recarve, CarveAt, ShellTypeOK
<1> QED
  BY <1>1, <1>2, <1>3, <1>4, <1>5, <1>6, <1>7, <1>8, <1>9, <1>10, <1>11, <1>12, <1>13
     DEF ShellNext, OpStep, WatchStep, CarveStep

(***************************************************************************)
(* Confinement.                                                            *)
(***************************************************************************)

\* Nothing is carved at first.
LEMMA InitStale == ShellInit => StaleInv
BY DEF ShellInit, StaleInv, NoStaleTask, Confined, Condemned, Background

\* Each step keeps the confinement of what lives on.
LEMMA NextStale ==
    ShellTypeOK /\ OpInv /\ TallyExact /\ GateInv /\ StaleInv /\ [ShellNext]_shellVars => StaleInv'
<1> SUFFICES ASSUME ShellTypeOK, OpInv, TallyExact, GateInv, StaleInv, [ShellNext]_shellVars PROVE StaleInv'
  OBVIOUS
<1> USE ShellAssumption
    DEF StaleInv, NoStaleTask, Confined, Condemned, gateVars, carveVars, procVars, taskVars, opVars,
        GoTo, Return, Die, MarkTerminal, Register, Background
<1>1. CASE UNCHANGED shellVars
  BY <1>1 DEF shellVars
<1>2. CASE LaunchFails
  BY <1>2 DEF LaunchFails, OpInv, ShellTypeOK
<1>3. CASE ExecFork
  <2>1. \A c \in Carves : carve[c] # "gated"
    BY <1>3 DEF ExecFork, GateInv
  <2> QED BY <1>3, <2>1 DEF ExecFork, OpInv, ShellTypeOK
<1>4. CASE ExecTimeout \/ AdoptRead \/ AdoptRefused
  BY <1>4 DEF ExecTimeout, AdoptRead, AdoptRefused, ShellTypeOK
<1>5. CASE Adopt
  BY <1>5 DEF Adopt, OpInv, ShellTypeOK
<1>6. CASE RefusedKill \/ \E failed \in BOOLEAN : ExecDone(failed)
  BY <1>6 DEF RefusedKill, ExecDone, OpInv, ShellTypeOK
<1>7. CASE BgFork
  BY <1>7 DEF BgFork, OpInv, ShellTypeOK
<1>8. CASE BgCount
  BY <1>8 DEF BgCount, OpInv, ShellTypeOK
<1>9. CASE BgStart
  BY <1>9 DEF BgStart, OpInv, ShellTypeOK
<1>10. CASE KillJoined
  BY <1>10 DEF KillJoined, OpInv, ShellTypeOK
<1>11. CASE DropKill
  BY <1>11 DEF DropKill, OpInv, ShellTypeOK
<1>12. CASE Interrupt
  BY <1>12 DEF Interrupt, OpInv, ShellTypeOK
<1>13. CASE DropBegin
  BY <1>13 DEF DropBegin, ShellTypeOK
<1>14. ASSUME NEW q \in Procs, DropMark(q) PROVE StaleInv'
  BY <1>14 DEF DropMark, ShellTypeOK
<1>15. ASSUME NEW q \in Procs, Kill(q) PROVE StaleInv'
  BY <1>15 DEF Kill, ShellTypeOK
<1>16. ASSUME NEW q \in Procs, NEW kind \in {"execSnap", "bgSnap"}, Launch(q, kind) PROVE StaleInv'
  BY <1>16 DEF Launch, OpInv, ShellTypeOK
<1>17. ASSUME NEW q \in Procs, ProcExits(q) PROVE StaleInv'
  BY <1>17 DEF ProcExits, OpInv, ShellTypeOK
<1>18. ASSUME NEW q \in Procs, WatchReaps(q) PROVE StaleInv'
  BY <1>18 DEF WatchReaps, WatcherAt, OpInv, ShellTypeOK
<1>19. ASSUME NEW q \in Procs, WatchReports(q) \/ WatchAborted(q) PROVE StaleInv'
  BY <1>19 DEF WatchReports, WatchAborted, WatcherAt, OpInv, ShellTypeOK
<1>20. ASSUME NEW q \in Procs, \E oversize \in BOOLEAN : WatchKills(q, oversize) PROVE StaleInv'
  BY <1>20 DEF WatchKills, WatcherAt, ShellTypeOK
<1>21. ASSUME NEW q \in Procs, WatchMarks(q) PROVE StaleInv'
  BY <1>21 DEF WatchMarks, WatcherAt, ShellTypeOK
<1>22. ASSUME NEW c \in Carves, CarvePermit(c) PROVE StaleInv'
  BY <1>22 DEF CarvePermit, CarveAt, ShellTypeOK
<1>23. ASSUME NEW c \in Carves, CarveGate(c) PROVE StaleInv'
  BY <1>23 DEF CarveGate, CarveAt, ShellTypeOK
<1>24. ASSUME NEW c \in Carves, NEW ok \in BOOLEAN, CarveLand(c, ok) PROVE StaleInv'
  <2>1. carve[c] = "gated" /\ running_bg = 0 /\ writer = c
    BY <1>24 DEF CarveLand, CarveAt, GateInv
  <2>2. at # "bgCounted" /\ \A p \in Procs : state[p] # "running"
    BY <2>1, ZeroTally
  <2>3. at \notin {"execSnap", "bgSnap", "bgForked"}
    BY <2>1 DEF GateInv
  <2> QED BY <1>24, <2>1, <2>2, <2>3 DEF CarveLand, CarveAt, ShellTypeOK
<1>25. ASSUME NEW c \in Carves, CarveEnds(c) \/ Recarve(c) PROVE StaleInv'
  BY <1>25 DEF CarveEnds, Recarve, CarveAt, ShellTypeOK
<1> QED
  BY <1>1, <1>2, <1>3, <1>4, <1>5, <1>6, <1>7, <1>8, <1>9, <1>10, <1>11, <1>12, <1>13, <1>14,
     <1>15, <1>16, <1>17, <1>18, <1>19, <1>20, <1>21, <1>22, <1>23, <1>24, <1>25
     DEF ShellNext, OpStep, WatchStep, CarveStep

(***************************************************************************)
(* The theorems.                                                           *)
(***************************************************************************)

\* The parts of the invariant hold together.
LEMMA ShellInvCorrect == ShellSpec => []ShellInv
<1>1. ShellInit => ShellInv
  <2>1. ShellInit => TallyExact
    <3> SUFFICES ASSUME ShellInit PROVE TallyExact
      OBVIOUS
    <3>1. {p \in Procs : state[p] = "running"} = {}
      BY DEF ShellInit
    <3> QED BY <3>1, FS_EmptySet DEF ShellInit, TallyExact
  <2> QED BY <2>1, InitType, InitOp, InitGate, InitStale DEF ShellInv
<1>2. ShellInv /\ [ShellNext]_shellVars => ShellInv'
  BY NextType, NextOp, NextTally, NextGate, NextStale DEF ShellInv
<1> QED BY <1>1, <1>2, PTL DEF ShellSpec

\* The gate, the operation, the children and the watchers keep their types.
THEOREM ShellTypeCorrect == ShellSpec => []ShellTypeOK
BY ShellInvCorrect, PTL DEF ShellInv

\* The gate's tally of background tasks is exact at every step.
THEOREM TallyCorrect == ShellSpec => []TallyExact
BY ShellInvCorrect, PTL DEF ShellInv

\* No background task outlives, unnoticed, a carve-out its confinement does
\* not know.
THEOREM StaleCorrect == ShellSpec => []NoStaleTask
<1>1. ShellInv => NoStaleTask
  BY DEF ShellInv, StaleInv
<1> QED BY <1>1, ShellInvCorrect, PTL
=============================================================================
