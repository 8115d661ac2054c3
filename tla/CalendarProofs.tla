---------------------------- MODULE CalendarProofs ----------------------------
(***************************************************************************)
(* What the slot arithmetic of the synchronisation promises for every      *)
(* length of the hour and for every instant, and the occurrences and slots *)
(* of a recurrence rule for every calendar that satisfies                  *)
(* CalendarAssumption, every start date and every window.                  *)
(***************************************************************************)
EXTENDS Cadence, Schedules, TLAPS

-----------------------------------------------------------------------------
(* Cadences.                                                               *)

\* A multiple of a positive period leaves no remainder.
LEMMA MultipleMod ==
    ASSUME NEW k \in Int, NEW p \in Nat \ {0}
    PROVE  k * p \in Int /\ (k * p) % p = 0
  OBVIOUS

\* Rounding down to a multiple of a positive period.
LEMMA RoundDown ==
    ASSUME NEW x \in Int, NEW p \in Nat \ {0}
    PROVE  /\ x \div p \in Int
           /\ (x \div p) * p <= x
           /\ x < (x \div p) * p + p
  <1>1. /\ x = p * (x \div p) + (x % p)
        /\ x % p \in 0..(p - 1)
        /\ x \div p \in Int
    BY SMT
  <1> QED BY <1>1, SMT

\* The period of a cadence that runs on a schedule is a positive integer.
LEMMA PeriodPositive ==
    ASSUME NEW c \in Scheduled
    PROVE  period(c) \in Nat \ {0} /\ offset(c) \in Nat
  BY HourAssumption, SMT DEF Scheduled, period, period_hours, offset

\* The slot that cron claims and the one shown as next, for every cadence that
\* has slots, every instant (before the epoch too) and every length of the
\* hour: they bracket now, lie on the cadence's grid and are neighbours there.
THEOREM SlotBracketsNow ==
    ASSUME NEW c \in Scheduled, NEW now \in Int
    PROVE  /\ most_recent_slot(c, now) <= now
           /\ now < next_slot(c, now)
           /\ IsSlot(c, most_recent_slot(c, now))
           /\ IsSlot(c, next_slot(c, now))
  <1> DEFINE p == period(c)
             o == offset(c)
             x == now - o
             k == x \div p
  <1>1. p \in Nat \ {0} /\ o \in Nat
    BY PeriodPositive
  <1>2. x \in Int
    BY <1>1
  <1>3. most_recent_slot(c, now) = k * p + o /\ next_slot(c, now) = k * p + o + p
    BY DEF most_recent_slot, next_slot
  <1>4. x = now - o
    OBVIOUS
  <1> HIDE DEF p, o, x
  <1>5. k \in Int /\ k * p <= x /\ x < k * p + p
    BY <1>1, <1>2, RoundDown
  <1> HIDE DEF k
  <1>6. (k + 1) * p = k * p + p /\ k + 1 \in Int /\ k * p \in Int
    BY <1>1, <1>5, SMT
  <1>7. (k * p) % p = 0 /\ (k * p + p) % p = 0
    BY <1>1, <1>5, <1>6, MultipleMod
  <1>8. (k * p + o) - o = k * p /\ (k * p + o + p) - o = k * p + p
    BY <1>1, <1>6, SMT
  <1>9. k * p + o \in Int /\ k * p + o + p \in Int
    BY <1>1, <1>6, SMT
  <1>10. IsSlot(c, k * p + o) /\ IsSlot(c, k * p + o + p)
    BY <1>7, <1>8, <1>9 DEF IsSlot, p, o
  <1>11. k * p + o <= now /\ now < k * p + o + p
    BY <1>1, <1>4, <1>5, <1>6, SMT
  <1> QED BY <1>3, <1>10, <1>11

\* Cron redelivery while the same slot is current claims the same slot: a slot
\* is the most recent one for exactly the instants from it up to the next one,
\* so the key of sync_log_one_scheduled_slot_idx is the same for all of them.
THEOREM SlotIsStable ==
    ASSUME NEW c \in Scheduled, NEW t \in Int, NEW u \in Int,
           most_recent_slot(c, t) <= u, u < next_slot(c, t)
    PROVE  most_recent_slot(c, u) = most_recent_slot(c, t)
  <1> DEFINE p == period(c)
             o == offset(c)
             k == (t - o) \div p
  <1>1. p \in Nat \ {0} /\ o \in Nat
    BY PeriodPositive
  <1>2. /\ most_recent_slot(c, t) = k * p + o
        /\ next_slot(c, t) = k * p + o + p
        /\ most_recent_slot(c, u) = ((u - o) \div p) * p + o
    BY DEF most_recent_slot, next_slot
  <1>3. k \in Int
    BY <1>1, SMT
  <1> HIDE DEF p, o, k
  <1>4. k * p \in Int /\ k * p <= u - o /\ u - o < k * p + p
    BY <1>1, <1>2, <1>3, SMT
  <1>5. (u - o) \div p = k
    BY <1>1, <1>3, <1>4, SMT
  <1> QED BY <1>2, <1>5

-----------------------------------------------------------------------------
(* Days and months.                                                        *)

\* The ends of the calendar's months are integers.
LEMMA MonthBounds ==
    ASSUME NEW m \in MonthNumbers
    PROVE  /\ m \in Int /\ FirstDay[m] \in Int /\ FirstDay[m + 1] \in Int
           /\ FirstDay[m + 1] > FirstDay[m] + MidDay
           /\ FirstDay[FirstMonth] \in Int /\ FirstDay[LastMonth + 1] \in Int
  BY CalendarAssumption DEF MonthNumbers

\* Months between two of the calendar's months are the calendar's too.
LEMMA MonthInterval ==
    ASSUME NEW a \in MonthNumbers, NEW b \in MonthNumbers
    PROVE  a..b \subseteq MonthNumbers
  <1>1. FirstMonth \in Int /\ LastMonth \in Int
    BY CalendarAssumption
  <1> QED BY <1>1 DEF MonthNumbers

\* Dates are integers.
LEMMA DatesAreIntegers ==
    ASSUME NEW d \in Dates
    PROVE  d \in Int
  BY CalendarAssumption DEF Dates

\* A date lies in its month.
LEMMA InItsMonth ==
    ASSUME NEW d \in Dates
    PROVE  /\ month(d) \in MonthNumbers
           /\ FirstDay[month(d)] <= d
           /\ d < FirstDay[month(d) + 1]
  <1>1. \E m \in MonthNumbers : FirstDay[m] <= d /\ d < FirstDay[m + 1]
    BY CalendarAssumption
  <1> QED BY <1>1 DEF month

\* Months do not overlap.
LEMMA OneMonth ==
    ASSUME NEW d \in Int, NEW m \in MonthNumbers,
           FirstDay[m] <= d, d < FirstDay[m + 1]
    PROVE  d \in Dates /\ month(d) = m
  <1>1. FirstDay[FirstMonth] <= d /\ d < FirstDay[LastMonth + 1]
    <2>1. m = FirstMonth \/ FirstDay[FirstMonth + 1] <= FirstDay[m]
      BY CalendarAssumption DEF MonthNumbers
    <2>2. m = LastMonth \/ FirstDay[m + 1] <= FirstDay[LastMonth + 1]
      BY CalendarAssumption DEF MonthNumbers
    <2>3. FirstMonth \in MonthNumbers
      BY CalendarAssumption DEF MonthNumbers
    <2>4. FirstDay[FirstMonth] <= FirstDay[FirstMonth + 1] /\ MidDay \in Nat
      BY <2>3, MonthBounds, CalendarAssumption
    <2> QED BY <2>1, <2>2, <2>3, <2>4, MonthBounds
  <1>2. d \in Dates
    BY <1>1, CalendarAssumption DEF Dates
  <1>3. /\ month(d) \in MonthNumbers
        /\ FirstDay[month(d)] <= d /\ d < FirstDay[month(d) + 1]
    BY <1>2, InItsMonth
  <1> DEFINE n == month(d)
  <1>4. n \in MonthNumbers /\ FirstDay[n] <= d /\ d < FirstDay[n + 1]
    BY <1>3
  <1> HIDE DEF n
  <1>5. (n < m => FirstDay[n + 1] <= FirstDay[m])
        /\ (m < n => FirstDay[m + 1] <= FirstDay[n])
    BY <1>4, CalendarAssumption DEF MonthNumbers
  <1>6. n = m
    BY <1>4, <1>5, MonthBounds
  <1> QED BY <1>2, <1>6 DEF n

\* A later date is not in an earlier month.
LEMMA MonthMonotone ==
    ASSUME NEW d \in Dates, NEW e \in Dates, d <= e
    PROVE  month(d) <= month(e)
  <1> DEFINE m == month(d)
             n == month(e)
  <1>1. /\ m \in MonthNumbers /\ FirstDay[m] <= d
        /\ n \in MonthNumbers /\ e < FirstDay[n + 1]
    BY InItsMonth
  <1> HIDE DEF m, n
  <1>2. n < m => FirstDay[n + 1] <= FirstDay[m]
    BY <1>1, CalendarAssumption DEF MonthNumbers
  <1>3. m <= n
    BY <1>1, <1>2, MonthBounds, DatesAreIntegers
  <1> QED BY <1>3 DEF m, n

\* The clamped day of a month is the one date of that month that IsDay accepts.
LEMMA ClampedDay ==
    ASSUME NEW m \in MonthNumbers, NEW n \in Nat \ {0}
    PROVE  /\ with_day_clamped(m, n) \in Dates
           /\ month(with_day_clamped(m, n)) = m
           /\ \A d \in Dates :
                 month(d) = m => (IsDay(d, n) <=> d = with_day_clamped(m, n))
  <1> DEFINE c == with_day_clamped(m, n)
  <1>1. c = IF FirstDay[m] + n - 1 <= FirstDay[m + 1] - 1
            THEN FirstDay[m] + n - 1 ELSE FirstDay[m + 1] - 1
    BY DEF with_day_clamped, last_of_month
  <1> HIDE DEF c
  <1>a. /\ FirstDay[m] \in Int /\ FirstDay[m + 1] \in Int /\ MidDay \in Nat
        /\ FirstDay[m + 1] > FirstDay[m] + MidDay
    BY MonthBounds, CalendarAssumption
  <1>2. c \in Int /\ FirstDay[m] <= c /\ c < FirstDay[m + 1]
    BY <1>1, <1>a
  <1>3. c \in Dates /\ month(c) = m
    BY <1>2, OneMonth
  <1>4. ASSUME NEW d \in Dates, month(d) = m
        PROVE  IsDay(d, n) <=> d = c
    <2>1. IsDay(d, n) <=> \/ d - FirstDay[m] + 1 = n
                          \/ d - FirstDay[m] + 1 < n /\ d = FirstDay[m + 1] - 1
      BY <1>4 DEF IsDay, day, last_of_month
    <2>2. d \in Int /\ FirstDay[m] <= d /\ d < FirstDay[m + 1]
      BY <1>4, InItsMonth, DatesAreIntegers
    <2> QED BY <2>1, <2>2, <1>1, MonthBounds
  <1> QED BY <1>3, <1>4 DEF c

\* So is the last day of a month.
LEMMA LastDay ==
    ASSUME NEW m \in MonthNumbers
    PROVE  /\ last_of_month(m) \in Dates
           /\ month(last_of_month(m)) = m
  <1>1. last_of_month(m) \in Int /\ FirstDay[m] <= last_of_month(m)
        /\ last_of_month(m) < FirstDay[m + 1]
    BY MonthBounds, CalendarAssumption DEF last_of_month
  <1> QED BY <1>1, OneMonth

\* No month is too short for the semimonthly day.
LEMMA MidDayIsNotClamped ==
    ASSUME NEW d \in Dates
    PROVE  IsDay(d, MidDay) <=> day(d) = MidDay
  <1> DEFINE m == month(d)
  <1>1. m \in MonthNumbers
    BY InItsMonth
  <1>2. IsDay(d, MidDay) <=>
            \/ d - FirstDay[m] + 1 = MidDay
            \/ d - FirstDay[m] + 1 < MidDay /\ d = FirstDay[m + 1] - 1
    BY DEF IsDay, day, last_of_month
  <1>3. day(d) = d - FirstDay[m] + 1
    BY DEF day
  <1> HIDE DEF m
  <1>4. d \in Int /\ MidDay \in Int
    BY DatesAreIntegers, CalendarAssumption
  <1>5. /\ FirstDay[m] \in Int /\ FirstDay[m + 1] \in Int
        /\ FirstDay[m + 1] > FirstDay[m] + MidDay
    BY <1>1, MonthBounds
  <1> QED BY <1>2, <1>3, <1>4, <1>5

-----------------------------------------------------------------------------
(* The frequencies.                                                        *)

\* Rules that fall on days of the month: the months of the window are the
\* months of its days.
LEMMA MonthlyDue ==
    ASSUME NEW from \in Dates, NEW through \in Dates, NEW n \in Nat \ {0},
           NEW d \in Dates, from <= d, d <= through
    PROVE  (\E m \in month(from)..month(through) : d = with_day_clamped(m, n))
              <=> IsDay(d, n)
  <1>1. /\ month(from) \in MonthNumbers /\ month(through) \in MonthNumbers
        /\ month(d) \in MonthNumbers
    BY InItsMonth
  <1>2. month(from) <= month(d) /\ month(d) <= month(through)
    BY MonthMonotone
  <1>3. month(d) \in month(from)..month(through)
    BY <1>1, <1>2, MonthBounds
  <1>4. month(from)..month(through) \subseteq MonthNumbers
    BY <1>1, MonthInterval
  <1>5. ASSUME NEW m \in month(from)..month(through), d = with_day_clamped(m, n)
        PROVE  IsDay(d, n)
    BY <1>4, <1>5, ClampedDay
  <1>6. IsDay(d, n) => d = with_day_clamped(month(d), n)
    BY <1>1, ClampedDay
  <1> QED BY <1>3, <1>5, <1>6

\* The same of the last days of months.
LEMMA MonthEndDue ==
    ASSUME NEW from \in Dates, NEW through \in Dates,
           NEW d \in Dates, from <= d, d <= through
    PROVE  (\E m \in month(from)..month(through) : d = last_of_month(m))
              <=> d = last_of_month(month(d))
  <1>1. /\ month(from) \in MonthNumbers /\ month(through) \in MonthNumbers
        /\ month(d) \in MonthNumbers
    BY InItsMonth
  <1>2. month(from) <= month(d) /\ month(d) <= month(through)
    BY MonthMonotone
  <1>3. month(d) \in month(from)..month(through)
    BY <1>1, <1>2, MonthBounds
  <1>4. month(from)..month(through) \subseteq MonthNumbers
    BY <1>1, MonthInterval
  <1> QED BY <1>3, <1>4, LastDay

\* Division with remainder by a positive number.
LEMMA Division ==
    ASSUME NEW x \in Int, NEW p \in Nat \ {0}
    PROVE  /\ x \div p \in Int /\ x % p \in Int
           /\ 0 <= x % p /\ x % p < p
           /\ x = p * (x \div p) + (x % p)
  BY SMT

\* Quotient and remainder are unique.
LEMMA DivisionUnique ==
    ASSUME NEW x \in Int, NEW p \in Nat \ {0}, NEW q \in Int, NEW r \in Int,
           0 <= r, r < p, x = p * q + r
    PROVE  x \div p = q /\ x % p = r
  BY SMT

\* Steps of a positive length from the first one that is not before from.
LEMMA StepsDue ==
    ASSUME NEW a \in Int, NEW from \in Int, NEW d \in Int,
           NEW s \in Nat \ {0}
    PROVE  /\ FirstStep(a, from, s) \in Int
           /\ (FirstStep(a, from, s) <= d /\ (d - FirstStep(a, from, s)) % s = 0)
                 <=> (a <= d /\ from <= d /\ (d - a) % s = 0)
  <1> DEFINE k == IF a < from THEN (from - a + s - 1) \div s ELSE 0
             c == FirstStep(a, from, s)
  <1>1. k \in Int /\ c = a + k * s
    <2>1. a < from => (from - a + s - 1) \div s \in Int
      BY Division
    <2> QED BY <2>1 DEF FirstStep
  <1>2. /\ a <= c /\ from <= c
        /\ a < from => c < from + s
        /\ ~(a < from) => c = a
    <2>1. CASE a < from
      <3>1. /\ k \in Int
            /\ from - a + s - 1 = s * k + ((from - a + s - 1) % s)
            /\ (from - a + s - 1) % s \in 0..(s - 1)
        BY <2>1, Division
      <3> HIDE DEF k, c
      <3> QED BY <2>1, <3>1, <1>1
    <2>2. CASE ~(a < from)
      BY <2>2, <1>1
    <2> QED BY <2>1, <2>2
  <1> HIDE DEF k, c
  <1>3. (d - c) % s = (d - a) % s
    <2> DEFINE q == (d - c) \div s
               r == (d - c) % s
    <2>1. q \in Int /\ r \in Int /\ 0 <= r /\ r < s /\ d - c = s * q + r
      BY <1>1, Division
    <2> HIDE DEF q, r
    <2>2. d - a = s * (q + k) + r
      BY <2>1, <1>1
    <2>3. (d - a) % s = r
      BY <2>1, <2>2, <1>1, DivisionUnique
    <2> QED BY <2>3 DEF r
  <1>4. ASSUME a <= d, from <= d, (d - a) % s = 0
        PROVE  c <= d
    <2>1. CASE ~(a < from)
      BY <2>1, <1>2, <1>4
    <2>2. CASE a < from
      <3> DEFINE q == (d - c) \div s
      <3>1. q \in Int /\ d - c = s * q
        BY <1>1, <1>3, <1>4, Division
      <3> HIDE DEF q
      <3>2. d - c > -s
        BY <2>2, <1>1, <1>2, <1>4
      <3>3. q >= 0
        BY <3>1, <3>2
      <3> QED BY <3>1, <3>3, <1>1
    <2> QED BY <2>1, <2>2
  <1>5. c <= d => a <= d /\ from <= d
    BY <1>1, <1>2
  <1> QED BY <1>1, <1>3, <1>4, <1>5 DEF c

\* The years of the calendar's months, which are whole years.
LEMMA Years ==
    \E f, g \in Int :
        /\ \A m \in MonthNumbers : f <= m \div Year /\ m \div Year < g
        /\ \A y \in f..(g - 1), r \in 0..(Year - 1) : y * Year + r \in MonthNumbers
  <1> DEFINE f == FirstMonth \div Year
             g == (LastMonth + 1) \div Year
  <1>1. /\ Year \in Nat \ {0} /\ FirstMonth \in Int /\ LastMonth \in Int
        /\ FirstMonth % Year = 0 /\ (LastMonth + 1) % Year = 0
    BY CalendarAssumption
  <1>2. /\ f \in Int /\ g \in Int
        /\ FirstMonth = Year * f /\ LastMonth + 1 = Year * g
    BY <1>1, Division
  <1> HIDE DEF f, g
  <1>3. ASSUME NEW m \in MonthNumbers
        PROVE  f <= m \div Year /\ m \div Year < g
    <2> DEFINE q == m \div Year
               r == m % Year
    <2>1. m \in Int /\ Year * f <= m /\ m < Year * g
      BY <1>1, <1>2 DEF MonthNumbers
    <2>2. q \in Int /\ r \in Int /\ 0 <= r /\ r < Year /\ m = Year * q + r
      BY <1>1, <2>1, Division
    <2> HIDE DEF q, r
    <2>3. Year * f < Year * (q + 1) /\ Year * q < Year * g
      BY <1>1, <1>2, <2>1, <2>2
    <2>4. f < q + 1 /\ q < g
      BY <1>1, <1>2, <2>2, <2>3
    <2> QED BY <1>2, <2>2, <2>4 DEF q
  <1>4. ASSUME NEW y \in f..(g - 1), NEW r \in 0..(Year - 1)
        PROVE  y * Year + r \in MonthNumbers
    <2>1. y \in Int /\ f <= y /\ y + 1 <= g /\ r \in Int /\ 0 <= r /\ r < Year
      BY <1>1, <1>2
    <2>2. Year * f <= Year * y /\ Year * (y + 1) <= Year * g
      BY <1>1, <1>2, <2>1
    <2>3. FirstMonth <= y * Year + r /\ y * Year + r < LastMonth + 1
      BY <1>1, <1>2, <2>1, <2>2
    <2> QED BY <1>1, <2>1, <2>3 DEF MonthNumbers
  <1> QED BY <1>2, <1>3, <1>4

\* Two months are whole years apart when they are the same month of a year.
LEMMA SameMonthOfYear ==
    ASSUME NEW m \in Int, NEW n \in Int
    PROVE  (m - n) % Year = 0 <=> m % Year = n % Year
  <1> DEFINE q == m \div Year
             r == m % Year
             u == n \div Year
             v == n % Year
  <1>1. Year \in Nat \ {0}
    BY CalendarAssumption
  <1>2. q \in Int /\ r \in Int /\ 0 <= r /\ r < Year /\ m = Year * q + r
    BY <1>1, Division
  <1>3. u \in Int /\ v \in Int /\ 0 <= v /\ v < Year /\ n = Year * u + v
    BY <1>1, Division
  <1> HIDE DEF q, r, u, v
  <1>4. ASSUME r = v PROVE (m - n) % Year = 0
    <2>1. m - n = Year * (q - u) + 0
      BY <1>1, <1>2, <1>3, <1>4
    <2> QED BY <1>1, <1>2, <1>3, <2>1, DivisionUnique
  <1>5. ASSUME (m - n) % Year = 0 PROVE r = v
    <2> DEFINE w == (m - n) \div Year
    <2>1. w \in Int /\ m - n = Year * w
      BY <1>1, <1>5, Division
    <2> HIDE DEF w
    <2>2. m = Year * (u + w) + v
      BY <1>1, <1>3, <2>1
    <2>3. m % Year = v
      BY <1>1, <1>3, <2>1, <2>2, DivisionUnique
    <2> QED BY <2>3 DEF r
  <1> QED BY <1>4, <1>5 DEF r, v

\* The day of a year that an annual rule falls on exists in every year of a
\* window.
LEMMA AnnualInCalendar ==
    ASSUME NEW from \in Dates, NEW through \in Dates, NEW a \in Dates,
           NEW y \in year(from)..year(through)
    PROVE  /\ y * Year + (month(a) % Year) \in MonthNumbers
           /\ day(a) \in Nat \ {0}
           /\ in_year_clamped(a, y) \in Dates
  <1>1. Year \in Nat \ {0}
    BY CalendarAssumption
  <1>2. /\ month(from) \in MonthNumbers /\ month(through) \in MonthNumbers
        /\ month(a) \in MonthNumbers
    BY InItsMonth
  <1>3. month(a) % Year \in 0..(Year - 1)
    BY <1>1, <1>2, Division, MonthBounds
  <1>4. PICK f \in Int, g \in Int :
            /\ \A m \in MonthNumbers : f <= m \div Year /\ m \div Year < g
            /\ \A x \in f..(g - 1), r \in 0..(Year - 1) :
                    x * Year + r \in MonthNumbers
    BY Years
  <1>5. /\ f <= year(from) /\ year(through) < g
        /\ year(from) \in Int /\ year(through) \in Int
    BY <1>1, <1>2, <1>4, Division, MonthBounds DEF year
  <1>6. y \in f..(g - 1)
    BY <1>4, <1>5
  <1>7. y * Year + (month(a) % Year) \in MonthNumbers
    BY <1>3, <1>4, <1>6
  <1>8. day(a) \in Nat \ {0}
    <2>1. FirstDay[month(a)] <= a /\ FirstDay[month(a)] \in Int /\ a \in Int
      BY <1>2, InItsMonth, MonthBounds, DatesAreIntegers
    <2> QED BY <2>1 DEF day
  <1> QED BY <1>7, <1>8, ClampedDay DEF in_year_clamped

\* A later month is not in an earlier year.
LEMMA YearMonotone ==
    ASSUME NEW p \in Int, NEW q \in Int, p <= q
    PROVE  p \div Year <= q \div Year
  <1> DEFINE x == p \div Year
             z == q \div Year
  <1>1. Year \in Nat \ {0}
    BY CalendarAssumption
  <1>2. /\ x \in Int /\ z \in Int
        /\ Year * x <= p /\ q < Year * z + Year
    BY <1>1, Division
  <1> HIDE DEF x, z
  <1>3. z < x => Year * (z + 1) <= Year * x
    BY <1>1, <1>2
  <1>4. x <= z
    BY <1>1, <1>2, <1>3
  <1> QED BY <1>4 DEF x, z

\* The years of a window are the years of its days, and the anchor's day of a
\* year is clamped into its month.
LEMMA AnnualDue ==
    ASSUME NEW from \in Dates, NEW through \in Dates, NEW a \in Dates,
           NEW d \in Dates, from <= d, d <= through
    PROVE  (\E y \in year(from)..year(through) : d = in_year_clamped(a, y))
              <=> (month(d) - month(a)) % Year = 0 /\ IsDay(d, day(a))
  <1> DEFINE r == month(a) % Year
             n == day(a)
  <1>1. Year \in Nat \ {0}
    BY CalendarAssumption
  <1>2. /\ month(from) \in MonthNumbers /\ month(through) \in MonthNumbers
        /\ month(d) \in MonthNumbers /\ month(a) \in MonthNumbers
    BY InItsMonth
  <1>3. /\ month(from) \in Int /\ month(through) \in Int
        /\ month(d) \in Int /\ month(a) \in Int
    BY <1>2, MonthBounds
  <1>4. year(d) \in year(from)..year(through)
    <2>1. month(from) <= month(d) /\ month(d) <= month(through)
      BY MonthMonotone
    <2>2. year(from) <= year(d) /\ year(d) <= year(through)
      BY <1>3, <2>1, YearMonotone DEF year
    <2>3. year(from) \in Int /\ year(d) \in Int /\ year(through) \in Int
      BY <1>1, <1>3, Division DEF year
    <2> QED BY <2>2, <2>3
  <1>5. r \in Int /\ 0 <= r /\ r < Year
    BY <1>1, <1>3, Division
  <1>6. \A y : in_year_clamped(a, y) = with_day_clamped(y * Year + r, n)
    BY DEF in_year_clamped
  <1>7. \A y \in year(from)..year(through) :
            y * Year + r \in MonthNumbers /\ n \in Nat \ {0} /\ y \in Int
    BY <1>1, <1>3, AnnualInCalendar, Division DEF year
  <1> HIDE DEF r, n
  <1>8. ASSUME NEW y \in year(from)..year(through), d = in_year_clamped(a, y)
        PROVE  (month(d) - month(a)) % Year = 0 /\ IsDay(d, n)
    <2>1. y \in Int /\ y * Year + r \in MonthNumbers /\ n \in Nat \ {0}
      BY <1>7
    <2>2. month(d) = y * Year + r /\ IsDay(d, n)
      BY <1>6, <1>8, <2>1, ClampedDay
    <2>3. month(d) = Year * y + r
      BY <1>1, <1>5, <2>1, <2>2
    <2>4. month(d) % Year = r
      BY <1>1, <1>3, <1>5, <2>1, <2>3, DivisionUnique
    <2> QED BY <1>3, <2>2, <2>4, SameMonthOfYear DEF r
  <1>9. ASSUME (month(d) - month(a)) % Year = 0, IsDay(d, n)
        PROVE  \E y \in year(from)..year(through) : d = in_year_clamped(a, y)
    <2>1. month(d) % Year = r
      BY <1>3, <1>9, SameMonthOfYear DEF r
    <2>2. month(d) = year(d) * Year + r
      <3>1. month(d) = Year * (month(d) \div Year) + (month(d) % Year)
            /\ month(d) \div Year \in Int
        BY <1>1, <1>3, Division
      <3> QED BY <1>1, <2>1, <3>1 DEF year
    <2>3. d = with_day_clamped(year(d) * Year + r, n)
      BY <1>2, <1>4, <1>7, <1>9, <2>2, ClampedDay
    <2> QED BY <1>4, <1>6, <2>3
  <1> QED BY <1>8, <1>9 DEF n

-----------------------------------------------------------------------------

\* A window of days lies within the calendar.
LEMMA WindowDates ==
    ASSUME NEW from \in Dates, NEW through \in Dates
    PROVE  /\ from..through \subseteq Dates
           /\ from \in Int /\ through \in Int
  <1>1. FirstDay[FirstMonth] \in Int /\ FirstDay[LastMonth + 1] \in Int
    BY CalendarAssumption
  <1> QED BY <1>1 DEF Dates

\* The enumeration of months, years and steps finds exactly the days that the
\* rule falls on, for every calendar, start date, window and day of the month:
\* nothing due in the window is left out at a month end, at a leap day or at a
\* window boundary, and nothing else is projected.
THEOREM OccurrencesExact ==
    ASSUME NEW f \in Frequencies, NEW a \in Dates, NEW from \in Dates,
           NEW through \in Dates, NEW n \in Nat \ {0}
    PROVE  schedule_occurrences(f, a, from, through, n)
              = {d \in from..through : Due(f, a, d, n)}
  <1>1. /\ from..through \subseteq Dates
        /\ from \in Int /\ through \in Int /\ a \in Int
    BY WindowDates, DatesAreIntegers
  <1>2. CASE f = "monthly"
    <2>1. schedule_occurrences(f, a, from, through, n) =
             Within({with_day_clamped(m, n) : m \in month(from)..month(through)},
                    a, from, through)
      BY <1>2 DEF schedule_occurrences
    <2>2. \A d : Due(f, a, d, n) <=> d >= a /\ IsDay(d, n)
      BY <1>2 DEF Due
    <2>3. \A m \in month(from)..month(through) : with_day_clamped(m, n) \in Dates
      BY InItsMonth, MonthInterval, ClampedDay
    <2>4. ASSUME NEW d
          PROVE  d \in Within({with_day_clamped(m, n) : m \in month(from)..month(through)},
                              a, from, through)
                   <=> d \in from..through /\ Due(f, a, d, n)
      BY <1>1, <2>2, <2>3, MonthlyDue, DatesAreIntegers DEF Within
    <2> QED BY <2>1, <2>4
  <1>3. CASE f = "semimonthly"
    <2> DEFINE W == UNION {{with_day_clamped(m, MidDay), last_of_month(m)} :
                              m \in month(from)..month(through)}
    <2>1. schedule_occurrences(f, a, from, through, n) = Within(W, a, from, through)
      BY <1>3 DEF schedule_occurrences
    <2>2. \A d : Due(f, a, d, n) <=>
                    d >= a /\ (day(d) = MidDay \/ d = last_of_month(month(d)))
      BY <1>3 DEF Due
    <2>3. MidDay \in Nat \ {0}
      BY CalendarAssumption
    <2>4. \A d \in W : d \in Int /\ d \in Dates
      BY <2>3, InItsMonth, MonthInterval, ClampedDay, LastDay, DatesAreIntegers
    <2>5. ASSUME NEW d \in Dates, from <= d, d <= through
          PROVE  d \in W <=> day(d) = MidDay \/ d = last_of_month(month(d))
      BY <2>3, <2>5, MonthlyDue, MonthEndDue, MidDayIsNotClamped
    <2> HIDE DEF W
    <2>6. ASSUME NEW d
          PROVE  d \in Within(W, a, from, through)
                   <=> d \in from..through /\ Due(f, a, d, n)
      BY <1>1, <2>2, <2>4, <2>5 DEF Within
    <2> QED BY <2>1, <2>6
  <1>4. ASSUME NEW s \in Nat \ {0}
        PROVE  step_occurrences(a, from, through, s) =
                  {d \in from..through : d >= a /\ (d - a) % s = 0}
    <2>1. ASSUME NEW d
          PROVE  d \in step_occurrences(a, from, through, s)
                   <=> d \in from..through /\ d >= a /\ (d - a) % s = 0
      <3>1. CASE d \in Int
        BY <1>1, <3>1, StepsDue DEF step_occurrences
      <3>2. CASE d \notin Int
        BY <1>1, <3>2, StepsDue DEF step_occurrences
      <3> QED BY <3>1, <3>2
    <2> QED BY <2>1
  <1>5. CASE f = "weekly"
    <2>1. Week \in Nat \ {0}
      BY CalendarAssumption
    <2>2. schedule_occurrences(f, a, from, through, n)
             = step_occurrences(a, from, through, Week)
      BY <1>5 DEF schedule_occurrences
    <2>3. \A d : Due(f, a, d, n) <=> d >= a /\ (d - a) % Week = 0
      BY <1>5 DEF Due
    <2> QED BY <1>4, <2>1, <2>2, <2>3
  <1>6. CASE f = "biweekly"
    <2>1. 2 * Week \in Nat \ {0}
      BY CalendarAssumption
    <2>2. schedule_occurrences(f, a, from, through, n)
             = step_occurrences(a, from, through, 2 * Week)
      BY <1>6 DEF schedule_occurrences
    <2>3. \A d : Due(f, a, d, n) <=> d >= a /\ (d - a) % (2 * Week) = 0
      BY <1>6 DEF Due
    <2> QED BY <1>4, <2>1, <2>2, <2>3
  <1>7. CASE f = "annual"
    <2> DEFINE W == {in_year_clamped(a, y) : y \in year(from)..year(through)}
    <2>1. schedule_occurrences(f, a, from, through, n) = Within(W, a, from, through)
      BY <1>7 DEF schedule_occurrences
    <2>2. \A d : Due(f, a, d, n) <=>
                    /\ d >= a
                    /\ (month(d) - month(a)) % Year = 0 /\ IsDay(d, day(a))
      BY <1>7 DEF Due
    <2>3. ASSUME NEW d \in Dates, from <= d, d <= through
          PROVE  d \in W <=> (month(d) - month(a)) % Year = 0 /\ IsDay(d, day(a))
      BY <2>3, AnnualDue
    <2>4. \A d \in W : d \in Int /\ d \in Dates
      BY AnnualInCalendar, DatesAreIntegers
    <2> HIDE DEF W
    <2>5. ASSUME NEW d
          PROVE  d \in Within(W, a, from, through)
                   <=> d \in from..through /\ Due(f, a, d, n)
      BY <1>1, <2>2, <2>3, <2>4 DEF Within
    <2> QED BY <2>1, <2>5
  <1>8. CASE f = "one_time"
    <2>1. schedule_occurrences(f, a, from, through, n)
             = Within({a}, a, from, through)
      BY <1>8 DEF schedule_occurrences
    <2>2. \A d : Due(f, a, d, n) <=> d >= a /\ d = a
      BY <1>8 DEF Due
    <2> QED BY <1>1, <2>1, <2>2 DEF Within
  <1> QED BY <1>2, <1>3, <1>5, <1>6, <1>7, <1>8 DEF Frequencies

\* Two days of one month that a day-of-month rule falls on are the same day.
LEMMA OneDayPerMonth ==
    ASSUME NEW d \in Dates, NEW e \in Dates, NEW n \in Nat \ {0},
           month(d) = month(e), IsDay(d, n), IsDay(e, n)
    PROVE  d = e
  BY InItsMonth, ClampedDay

\* Days that are whole steps from an anchor and have the same quotient.
LEMMA OneDayPerStep ==
    ASSUME NEW a \in Int, NEW d \in Int, NEW e \in Int, NEW s \in Nat \ {0},
           (d - a) % s = 0, (e - a) % s = 0, (d - a) \div s = (e - a) \div s
    PROVE  d = e
  <1>1. d - a = s * ((d - a) \div s) /\ e - a = s * ((e - a) \div s)
    BY Division
  <1> QED BY <1>1

\* Two days that a rule falls on never share a source slot, so the upsert of
\* refresh_stream_schedule_events_on, keyed by the slot, never merges two
\* occurrences into one event and never loses money that is due.
THEOREM SlotsInjective ==
    ASSUME NEW f \in Frequencies, NEW a \in Dates, NEW n \in Nat \ {0},
           NEW d \in Dates, NEW e \in Dates, Due(f, a, d, n), Due(f, a, e, n),
           projection_slot(f, a, d) = projection_slot(f, a, e)
    PROVE  d = e
  <1>1. a \in Int /\ d \in Int /\ e \in Int
    BY DatesAreIntegers
  <1>2. CASE f = "monthly"
    BY <1>2, OneDayPerMonth DEF Due, projection_slot
  <1>3. CASE f = "semimonthly"
    <2> DEFINE half(x) == IF day(x) = MidDay THEN 0 ELSE 1
    <2>1. month(d) = month(e) /\ half(d) = half(e)
      BY <1>3 DEF projection_slot
    <2>2. day(d) = MidDay \/ d = last_of_month(month(d))
      BY <1>3 DEF Due
    <2>3. day(e) = MidDay \/ e = last_of_month(month(e))
      BY <1>3 DEF Due
    <2>4. CASE day(d) = MidDay
      <3>1. day(e) = MidDay
        BY <2>1, <2>4
      <3> QED BY <2>1, <2>4, <3>1, OneDayPerMonth, CalendarAssumption DEF IsDay
    <2>5. CASE day(d) # MidDay
      BY <2>1, <2>2, <2>3, <2>5
    <2> QED BY <2>4, <2>5
  <1>4. CASE f = "weekly"
    <2>1. (d - a) % Week = 0 /\ (e - a) % Week = 0
      BY <1>4 DEF Due
    <2>2. (d - a) \div Week = (e - a) \div Week
      BY <1>4 DEF projection_slot
    <2> QED BY <1>1, <2>1, <2>2, OneDayPerStep, CalendarAssumption
  <1>5. CASE f = "biweekly"
    <2>1. (d - a) % (2 * Week) = 0 /\ (e - a) % (2 * Week) = 0
      BY <1>5 DEF Due
    <2>2. (d - a) \div (2 * Week) = (e - a) \div (2 * Week)
      BY <1>5 DEF projection_slot
    <2>3. 2 * Week \in Nat \ {0}
      BY CalendarAssumption
    <2> QED BY <1>1, <2>1, <2>2, <2>3, OneDayPerStep
  <1>6. CASE f = "annual"
    <2>1. /\ (month(d) - month(a)) % Year = 0 /\ IsDay(d, day(a))
          /\ (month(e) - month(a)) % Year = 0 /\ IsDay(e, day(a))
      BY <1>6 DEF Due
    <2>2. year(d) = year(e)
      BY <1>6 DEF projection_slot
    <2>3. month(d) \in Int /\ month(e) \in Int /\ month(a) \in Int
      BY InItsMonth, MonthBounds
    <2>4. month(d) % Year = month(e) % Year
      BY <2>1, <2>3, SameMonthOfYear
    <2>5. /\ month(d) = Year * year(d) + (month(d) % Year)
          /\ month(e) = Year * year(e) + (month(e) % Year)
      BY <2>3, Division, CalendarAssumption DEF year
    <2>6. month(d) = month(e)
      BY <2>2, <2>4, <2>5
    <2>7. day(a) \in Nat \ {0}
      <3>1. FirstDay[month(a)] <= a /\ FirstDay[month(a)] \in Int
        BY InItsMonth, MonthBounds
      <3> QED BY <1>1, <3>1 DEF day
    <2> QED BY <2>1, <2>6, <2>7, OneDayPerMonth
  <1>7. CASE f = "one_time"
    BY <1>7 DEF Due
  <1> QED BY <1>2, <1>3, <1>4, <1>5, <1>6, <1>7 DEF Frequencies
=============================================================================
