------------------------- MODULE EstimateFeedProofs -------------------------
(***************************************************************************)
(* What EstimateFeed promises for every bill, every number of commands and *)
(* any number of days: the clean-up leaves what is still read, and a day   *)
(* pushed by updated-at is dealt with.                                     *)
(***************************************************************************)
EXTENDS EstimateFeed, FiniteSetTheorems, TLAPS

\* Where the months of a window lie.
LEMMA WindowMonths ==
  ASSUME NEW last \in Months, NEW m \in TrailingMonths(last)
  PROVE  Ordinal(m) \in (Ordinal(last) - RollingMonths + 1)..Ordinal(last)
<1> DEFINE top == last.year * MonthsPerYear + (last.month - 1)
<1>1. PICK o \in (top - RollingMonths + 1)..top :
        m = [year |-> o \div MonthsPerYear, month |-> 1 + (o % MonthsPerYear)]
  BY DEF TrailingMonths
<1>2. top \in Int /\ o \in Int /\ last.year \in Nat /\ last.month \in 1..12
  BY DEF Months, MonthsPerYear, RollingMonths
<1>3. o = (o \div 12) * 12 + (o % 12)
  BY <1>2
<1>4. Ordinal(m) = (o \div 12) * 12 + 1 + (o % 12)
  BY <1>1, <1>2 DEF Ordinal, MonthsPerYear
<1>5. Ordinal(m) = o + 1
  BY <1>2, <1>3, <1>4
<1>6. QED
  BY <1>2, <1>5 DEF Ordinal, MonthsPerYear, RollingMonths

\* And that these are all: a month between the first and the last is in it.
LEMMA MonthsOfWindow ==
  ASSUME NEW last \in Months, NEW m \in Months,
         Ordinal(m) \in (Ordinal(last) - RollingMonths + 1)..Ordinal(last)
  PROVE  m \in TrailingMonths(last)
<1> DEFINE top == last.year * MonthsPerYear + (last.month - 1)
           o == Ordinal(m) - 1
<1>1. /\ last.year \in Nat /\ last.month \in 1..12 /\ m.year \in Nat /\ m.month \in 1..12
      /\ m = [year |-> m.year, month |-> m.month]
  BY DEF Months, MonthsPerYear
<1>2. o = m.year * 12 + (m.month - 1) /\ top \in Int
  BY <1>1 DEF Ordinal, MonthsPerYear
<1>3. o \in (top - RollingMonths + 1)..top
  BY <1>1 DEF Ordinal, MonthsPerYear, RollingMonths
<1>4. o \div 12 = m.year /\ o % 12 = m.month - 1
  <2> DEFINE q == o \div 12
             r == o % 12
  <2>1. q \in Int /\ r \in 0..11 /\ o = q * 12 + r
    BY <1>1, <1>2
  <2> HIDE DEF q, r, o
  <2>2. q = m.year /\ r = m.month - 1
    BY <1>1, <1>2, <2>1
  <2>3. QED
    BY <2>2 DEF q, r
<1>5. m = [year |-> o \div MonthsPerYear, month |-> 1 + (o % MonthsPerYear)]
  BY <1>1, <1>4 DEF MonthsPerYear
<1>6. QED
  BY <1>3, <1>5 DEF TrailingMonths

\* No two months have one ordinal.
LEMMA OrdinalsDiffer ==
  ASSUME NEW m \in Months, NEW n \in Months, Ordinal(m) = Ordinal(n)
  PROVE  m = n
<1>1. /\ m.year \in Nat /\ m.month \in 1..12 /\ m = [year |-> m.year, month |-> m.month]
      /\ n.year \in Nat /\ n.month \in 1..12 /\ n = [year |-> n.year, month |-> n.month]
  BY DEF Months, MonthsPerYear
<1>2. m.year * 12 + m.month = n.year * 12 + n.month
  BY DEF Ordinal, MonthsPerYear
<1>3. m.year = n.year /\ m.month = n.month
  BY <1>1, <1>2
<1>4. QED
  BY <1>1, <1>3

\* last_month is the month before.
LEMMA MonthBefore ==
  ASSUME NEW m \in Months, m.year > 0
  PROVE  LastMonth(m) \in Months /\ Ordinal(LastMonth(m)) = Ordinal(m) - 1
<1>1. m.year \in Nat /\ m.month \in 1..12 /\ m = [year |-> m.year, month |-> m.month]
  BY DEF Months, MonthsPerYear
<1>2. CASE m.month = 1
  BY <1>1, <1>2 DEF LastMonth, Months, Ordinal, MonthsPerYear
<1>3. CASE m.month # 1
  <2>1. LastMonth(m) = [year |-> m.year, month |-> m.month - 1]
    BY <1>1, <1>3 DEF LastMonth
  <2>2. QED
    BY <1>1, <1>3, <2>1 DEF Months, Ordinal, MonthsPerYear
<1>4. QED
  BY <1>2, <1>3

\* A midnight that turns n months moves the month on by n.
LEMMA MonthsAfter ==
  ASSUME NEW m \in Months, NEW n \in Nat, m.year > 0
  PROVE  /\ After(m, n) \in Months /\ After(m, n).year > 0
         /\ Ordinal(After(m, n)) = Ordinal(m) + n
<1>1. PICK o \in Nat : o = m.month - 1 + n
  BY DEF Months, MonthsPerYear
<1>2. m.year \in Nat /\ m.month \in 1..12
  BY DEF Months, MonthsPerYear
<1>3. (o \div 12) \in Nat /\ (o % 12) \in 0..11 /\ o = (o \div 12) * 12 + (o % 12)
  BY <1>1
<1>4. After(m, n) = [year |-> m.year + (o \div 12), month |-> 1 + (o % 12)]
  BY <1>1 DEF After, MonthsPerYear
<1>5. PICK q \in Nat, r \in 0..11 :
        o = q * 12 + r /\ After(m, n) = [year |-> m.year + q, month |-> 1 + r]
  BY <1>3, <1>4
<1>6. QED
  BY <1>1, <1>2, <1>5 DEF Months, Ordinal, MonthsPerYear

-----------------------------------------------------------------------------
(***************************************************************************)
(* Sums over finite sets.  The community modules define a sum by recursion *)
(* on the set, one element taken away at a time: that there is a function  *)
(* with that recursion, and that it is an integer, is shown for a smallest *)
(* set of which it fails.                                                  *)
(***************************************************************************)
\* Of the subsets of a finite set that have some property one is smallest.
LEMMA SmallestSet ==
  ASSUME NEW S, IsFiniteSet(S), NEW F, F \subseteq SUBSET S, F # {}
  PROVE  \E T \in F : \A U \in F : U \subseteq T => U = T
<1>1. IsWellFoundedOn(StrictSubsetOrdering(S), SUBSET S)
  BY FS_StrictSubsetOrderingWellFounded, FS_FiniteSubsetsOfFinite
<1>2. PICK T \in F : \A U \in F : ~(<<U, T>> \in StrictSubsetOrdering(S))
  BY <1>1, WFMin
<1>3. QED
  BY <1>2 DEF StrictSubsetOrdering

\* The element a sum takes away first, and the recursion.
First(s) == CHOOSE c \in s : TRUE
Rest(s)  == s \ {First(s)}
Added(s, it) == IF s = {} THEN 0 ELSE Bill[First(s)].amount + it[Rest(s)]
Summed(S, it) == [s \in SUBSET S |-> IF s = {} THEN 0 ELSE Bill[First(s)].amount + it[Rest(s)]]

LEMMA AmountIsSummed ==
  ASSUME NEW S
  PROVE  Amount(S) = (CHOOSE it : it = Summed(S, it))[S]
BY DEF Amount, MapThenSumSet, MapThenFoldSet, Summed, First, Rest

LEMMA RestIsSmaller ==
  ASSUME NEW s, s # {}
  PROVE  First(s) \in s /\ Rest(s) \subseteq s /\ Rest(s) # s
BY DEF First, Rest

\* The sums of some of the subsets, with the sums they are computed from.
PartialSum(S, D, g) ==
  /\ D \subseteq SUBSET S /\ g \in [D -> Int]
  /\ \A s \in D : s # {} => Rest(s) \in D
  /\ \A s \in D : g[s] = Added(s, g)

LEMMA PartialSumsAgree ==
  ASSUME NEW S, IsFiniteSet(S), NEW D, NEW g, NEW E, NEW h,
         PartialSum(S, D, g), PartialSum(S, E, h), NEW s \in D \cap E
  PROVE  g[s] = h[s]
<1> DEFINE F == {t \in D \cap E : g[t] # h[t]}
<1> SUFFICES ASSUME F # {} PROVE FALSE
  OBVIOUS
<1>1. F \subseteq SUBSET S
  BY DEF PartialSum
<1>2. PICK T \in F : \A U \in F : U \subseteq T => U = T
  <2> HIDE DEF F
  <2>1. QED
    BY <1>1, SmallestSet
<1>3. T \in D /\ T \in E /\ g[T] = Added(T, g) /\ h[T] = Added(T, h)
  BY DEF PartialSum
<1>4. T # {}
  BY <1>3 DEF Added
<1>5. Rest(T) \in D /\ Rest(T) \in E
  BY <1>3, <1>4 DEF PartialSum
<1>6. g[Rest(T)] = h[Rest(T)]
  BY <1>2, <1>4, <1>5, RestIsSmaller
<1>7. QED
  BY <1>3, <1>4, <1>6 DEF Added

LEMMA PartialSumExists ==
  ASSUME NEW S, IsFiniteSet(S), \A c \in S : Bill[c].amount \in Int, NEW s \in SUBSET S
  PROVE  \E D, g : PartialSum(S, D, g) /\ s \in D
<1> DEFINE F == {t \in SUBSET S : ~\E D, g : PartialSum(S, D, g) /\ t \in D}
<1> SUFFICES ASSUME F # {} PROVE FALSE
  OBVIOUS
<1>1. PICK T \in F : \A U \in F : U \subseteq T => U = T
  <2>1. F \subseteq SUBSET S
    OBVIOUS
  <2> HIDE DEF F
  <2>2. QED
    BY <2>1, SmallestSet
<1>2. T # {}
  <2>1. PartialSum(S, {{}}, [t \in {{}} |-> 0])
    BY DEF PartialSum, Added
  <2>2. QED
    BY <2>1
<1>3. PICK D, g : PartialSum(S, D, g) /\ Rest(T) \in D
  <2>1. Rest(T) \in SUBSET S /\ Rest(T) \notin F
    BY <1>1, <1>2, RestIsSmaller
  <2>2. QED
    BY <2>1
<1> DEFINE v == Bill[First(T)].amount + g[Rest(T)]
           h == [t \in D \cup {T} |-> IF t = T THEN v ELSE g[t]]
<1>4. T \notin D /\ T \in SUBSET S
  BY <1>3
<1>5. v \in Int
  BY <1>2, <1>3, <1>4, RestIsSmaller DEF PartialSum
<1>6. Rest(T) # T /\ Rest(T) \in D
  BY <1>2, <1>3, RestIsSmaller
<1>7. ASSUME NEW t \in D PROVE h[t] = g[t]
  BY <1>4
<1>8. h[T] = v
  OBVIOUS
<1>9. h \in [D \cup {T} -> Int]
  BY <1>3, <1>5 DEF PartialSum
<1>10. \A t \in D \cup {T} : t # {} => Rest(t) \in D \cup {T}
  BY <1>3 DEF PartialSum
<1> HIDE DEF h
<1>11. ASSUME NEW t \in D \cup {T} PROVE h[t] = Added(t, h)
  <2>1. CASE t = T
    BY <1>2, <1>6, <1>7, <1>8, <2>1 DEF Added
  <2>2. CASE t \in D
    <3>1. h[t] = Added(t, g) /\ (t # {} => Rest(t) \in D)
      BY <1>3, <1>7, <2>2 DEF PartialSum
    <3>2. QED
      BY <1>7, <3>1 DEF Added
  <2>3. QED
    BY <2>1, <2>2
<1>12. PartialSum(S, D \cup {T}, h)
  BY <1>3, <1>4, <1>9, <1>10, <1>11 DEF PartialSum
<1>13. QED
  BY <1>12

\* The sum of integers over a finite set is one.
LEMMA AmountType ==
  ASSUME NEW S, IsFiniteSet(S), \A c \in S : Bill[c].amount \in Int
  PROVE  Amount(S) \in Int
<1> DEFINE IsSum(s, v) == \E D, g : PartialSum(S, D, g) /\ s \in D /\ v = g[s]
           total == [s \in SUBSET S |-> CHOOSE v : IsSum(s, v)]
<1>1. ASSUME NEW D, NEW g, PartialSum(S, D, g), NEW s \in D
      PROVE  total[s] = g[s]
  <2>1. IsSum(s, g[s]) /\ s \in SUBSET S
    BY <1>1 DEF PartialSum
  <2>2. IsSum(s, total[s])
    <3> HIDE DEF IsSum
    <3>1. total[s] = CHOOSE v : IsSum(s, v)
      BY <2>1
    <3>2. QED
      BY <2>1, <3>1
  <2>3. PICK E, h : PartialSum(S, E, h) /\ s \in E /\ total[s] = h[s]
    BY <2>2
  <2>4. QED
    BY <1>1, <2>3, PartialSumsAgree
<1>2. total = [s \in SUBSET S |-> total[s]]
  OBVIOUS
<1> HIDE DEF total
<1>3. ASSUME NEW s \in SUBSET S
      PROVE  total[s] \in Int /\ total[s] = Added(s, total)
  <2>1. PICK D, g : PartialSum(S, D, g) /\ s \in D
    BY PartialSumExists
  <2>2. total[s] = g[s] /\ (s # {} => Rest(s) \in D /\ total[Rest(s)] = g[Rest(s)])
    BY <1>1, <2>1 DEF PartialSum
  <2>3. QED
    BY <2>1, <2>2 DEF PartialSum, Added
<1>4. total = Summed(S, total)
  BY <1>2, <1>3 DEF Summed, Added
<1> DEFINE sum == CHOOSE it : it = Summed(S, it)
<1>5. sum = Summed(S, sum)
  BY <1>4
<1> HIDE DEF sum
<1>6. sum \in [SUBSET S -> Int]
  <2> DEFINE F == {s \in SUBSET S : sum[s] \notin Int}
  <2> SUFFICES ASSUME F # {} PROVE FALSE
    BY <1>5 DEF Summed
  <2>1. PICK T \in F : \A U \in F : U \subseteq T => U = T
    <3>1. F \subseteq SUBSET S
      OBVIOUS
    <3> HIDE DEF F
    <3>2. QED
      BY <3>1, SmallestSet
  <2>2. sum[T] = Added(T, sum)
    BY <1>5 DEF Summed, Added
  <2>3. T # {}
    BY <2>2 DEF Added
  <2>4. sum[Rest(T)] \in Int /\ First(T) \in S
    BY <2>1, <2>3, RestIsSmaller
  <2>5. QED
    BY <2>2, <2>3, <2>4 DEF Added
<1>7. Amount(S) = sum[S]
  BY AmountIsSummed DEF sum
<1>8. QED
  BY <1>6, <1>7

-----------------------------------------------------------------------------
\* A command at rest is one.
LEMMA IdleType == Idle \in WorkType
<1>1. LastMonth(Start) \in Months
  BY MonthBefore, FeedAssumption DEF FeedAssumption
<1>2. [s \in Subscriptions |-> {}] \in [Subscriptions -> SUBSET Currencies]
  OBVIOUS
<1>3. 0 \in 0..MaxDay
  BY FeedAssumption DEF FeedAssumption
<1>4. QED
  BY <1>1, <1>2, <1>3 DEF Idle, WorkType

\* What the upserts and the deletes do to the rows.
LEMMA RowsType ==
  ASSUME StateOK, NEW cs, NEW upserted, SetRows(cs, upserted)
  PROVE  /\ stored' = cs
         /\ stamp' \in [Rows -> 0..MaxDay] /\ written' \in [Rows -> 0..MaxDay]
<1>1. day \in 1..MaxDay /\ MaxDay \in Nat
      /\ stamp \in [Rows -> 0..MaxDay] /\ written \in [Rows -> 0..MaxDay]
  BY FeedAssumption DEF StateOK, FeedAssumption
<1>2. \A k \in Rows : Stamp(k, upserted) \in 0..MaxDay
  BY <1>1 DEF Stamp
<1>3. QED
  BY <1>1, <1>2 DEF SetRows

\* A command that begins, ends or fails stays one.
LEMMA BeginType ==
  ASSUME StateOK, NEW p \in Commands, NEW how \in WorkType, Begin(p, how)
  PROVE  work' \in [Commands -> WorkType]
BY DEF StateOK, Begin

LEMMA EndType ==
  ASSUME StateOK, NEW p \in Commands, End(p)
  PROVE  work' \in [Commands -> WorkType]
BY IdleType DEF StateOK, End

LEMMA FailType ==
  ASSUME StateOK, NEW p \in Commands, Fail(p)
  PROVE  /\ work' \in [Commands -> WorkType] /\ work'[p].failed
         /\ \A q \in Commands : /\ work'[q].phase = work[q].phase
                                /\ work'[q].anchor = work[q].anchor
                                /\ work'[q].ids = work[q].ids
                                /\ work'[q].updatedOn = work[q].updatedOn
                                /\ q # p => work'[q] = work[q]
<1>1. work[p] \in WorkType /\ work \in [Commands -> WorkType]
  BY DEF StateOK
<1>2. [work[p] EXCEPT !.failed = TRUE] \in WorkType
  BY <1>1 DEF WorkType
<1>3. work' = [work EXCEPT ![p] = [work[p] EXCEPT !.failed = TRUE]]
  BY DEF Fail
<1>4. work'[p] = [work[p] EXCEPT !.failed = TRUE] /\ \A q \in Commands \ {p} : work'[q] = work[q]
  BY <1>1, <1>3
<1>5. QED
  BY <1>1, <1>2, <1>3, <1>4 DEF WorkType

\* An upload that is begun is one.
LEMMA UploadIsOne ==
  ASSUME StateOK, NEW p \in Commands, NEW s \in work[p].ids
  PROVE  /\ Upload(p, s) \in UploadType
         /\ [work[p] EXCEPT !.ids = @ \ {s}] \in WorkType
<1>1. /\ work[p] \in WorkType /\ work[p].anchor \in Months
      /\ s \in Subscriptions \ Synthetic
  BY DEF StateOK, WorkType
<1>2. TrailingMonths(work[p].anchor) \cap BilledMonths \subseteq Months
  BY FeedAssumption DEF BilledMonths, FeedAssumption
<1>3. day \in 1..MaxDay
  BY DEF StateOK
<1>4. QED
  BY <1>1, <1>2, <1>3 DEF Upload, UploadType, WorkType

\* And stays one as a month is read, and when it is sent, given up or lost.
LEMMA UploadStaysOne ==
  ASSUME StateOK, NEW u \in UploadType
  PROVE  /\ [u EXCEPT !.state = "sent"] \in UploadType
         /\ [u EXCEPT !.state = "stray"] \in UploadType
         /\ [u EXCEPT !.lost = TRUE] \in UploadType
         /\ \A m : \A row \in RowsRead(u.subscription, m) : WithMonth(u, m, row) \in UploadType
<1>1. ASSUME NEW m, NEW row \in RowsRead(u.subscription, m)
      PROVE  WithMonth(u, m, row) \in UploadType
  <2>1. row \subseteq Charges
    BY DEF RowsRead, InRow, StateOK
  <2>2. BilledIn(u.subscription, m) \subseteq Charges
    BY DEF BilledIn, Of
  <2> DEFINE unread == u.unread \ {m}
             charges == u.charges \cup row
             billed == u.billed \cup BilledIn(u.subscription, m)
  <2>3. WithMonth(u, m, row) = [u EXCEPT !.unread = unread, !.charges = charges, !.billed = billed]
    BY DEF WithMonth
  <2>4. unread \in SUBSET Months /\ charges \in SUBSET Charges /\ billed \in SUBSET Charges
    BY <2>1, <2>2 DEF UploadType
  <2> HIDE DEF unread, charges, billed
  <2>5. QED
    BY <2>3, <2>4 DEF UploadType
<1>2. QED
  BY <1>1 DEF UploadType

\* What an upload that lands does.
LEMMA ShownDoes ==
  ASSUME StateOK, NEW u \in uploads, Shown(u)
  PROVE  /\ u.subscription \in Subscriptions \ Synthetic /\ u \in UploadType
         /\ uploads' = uploads \ {u}
         /\ source' \in [Subscriptions -> SourceType] /\ newest' \in [Subscriptions -> 0..MaxDay]
         /\ LET x == source'[u.subscription]
            IN /\ x.anchor = u.anchor /\ x.charges = u.charges /\ x.billed = u.billed
               /\ x.day = u.day /\ x.lost = u.lost
         /\ newest'[u.subscription] >= u.day
         /\ \A s \in Subscriptions : /\ newest'[s] >= newest[s]
                                     /\ s # u.subscription => source'[s] = source[s]
<1> DEFINE s == u.subscription
           x == [anchor |-> u.anchor, charges |-> u.charges, billed |-> u.billed,
                 day |-> u.day, lost |-> u.lost]
<1>1. u \in UploadType /\ s \in Subscriptions \ Synthetic /\ u.day \in 1..MaxDay /\ MaxDay \in Nat
  BY FeedAssumption DEF StateOK, UploadType, FeedAssumption
<1>2. source \in [Subscriptions -> SourceType] /\ newest \in [Subscriptions -> 0..MaxDay]
  BY DEF StateOK
<1>3. x \in SourceType
  BY <1>1 DEF UploadType, SourceType
<1>4. /\ source' = [source EXCEPT ![s] = x] /\ uploads' = uploads \ {u}
      /\ newest' = [newest EXCEPT ![s] = IF u.day > newest[s] THEN u.day ELSE newest[s]]
  BY DEF Shown
<1>5. source' \in [Subscriptions -> SourceType] /\ newest' \in [Subscriptions -> 0..MaxDay]
  BY <1>1, <1>2, <1>3, <1>4
<1>6. source'[s] = x /\ \A t \in Subscriptions : t # s => source'[t] = source[t]
  BY <1>1, <1>2, <1>4
<1>7. newest'[s] >= u.day /\ \A t \in Subscriptions : newest'[t] >= newest[t]
  BY <1>1, <1>2, <1>4
<1>8. QED
  BY <1>1, <1>4, <1>5, <1>6, <1>7

\* The uploads that an end without an answer leaves.
LEMMA AbandonDoes ==
  ASSUME StateOK, NEW us \in SUBSET uploads, NEW late, Abandon(us, late)
  PROVE  /\ uploads' \subseteq UploadType
         /\ uploads \ us \subseteq uploads'
         /\ \A u \in uploads' \ (uploads \ us) :
              \E v \in us : v.state = "sent" /\ u = [v EXCEPT !.state = "stray"]
<1>1. /\ late \subseteq us /\ \A v \in late : v.state = "sent"
      /\ uploads' = (uploads \ us) \cup {[v EXCEPT !.state = "stray"] : v \in late}
  BY DEF Abandon
<1>2. ASSUME NEW v \in late PROVE [v EXCEPT !.state = "stray"] \in UploadType
  <2>1. v \in UploadType
    BY <1>1 DEF StateOK
  <2>2. QED
    BY <2>1, UploadStaysOne
<1>3. QED
  BY <1>1, <1>2 DEF StateOK

\* The state stays within its types, but for the figures of the estimates.
THEOREM StateCorrect == Spec => []StateOK
<1>1. Init => StateOK
  <2> SUFFICES ASSUME Init PROVE StateOK
    OBVIOUS
  <2>1. LastMonth(Start) \in Months
    BY MonthBefore, FeedAssumption DEF FeedAssumption
  <2>2. work \in [Commands -> WorkType] /\ source \in [Subscriptions -> SourceType]
    <3>1. NeverShown \in SourceType
      BY <2>1, FeedAssumption DEF NeverShown, SourceType, FeedAssumption
    <3>2. QED
      BY <3>1, IdleType DEF Init
  <2>3. /\ stamp \in [Rows -> 0..MaxDay] /\ written \in [Rows -> 0..MaxDay]
        /\ newest \in [Subscriptions -> 0..MaxDay]
    BY FeedAssumption DEF Init, FeedAssumption
  <2>4. QED
    BY <2>2, <2>3, FeedAssumption DEF Init, StateOK, FeedAssumption
<1>2. StateOK /\ [Next]_vars => StateOK'
  <2> SUFFICES ASSUME StateOK, [Next]_vars PROVE StateOK'
    OBVIOUS
  <2> USE DEF clock, rows, platform
  <2>1. CASE UNCHANGED vars
    BY <2>1 DEF vars, StateOK
  <2>2. CASE Midnight
    <3>1. PICK n \in MonthSteps : month' = After(month, n)
      BY <2>2 DEF Midnight
    <3>2. month' \in Months /\ month'.year > 0
      BY <3>1, MonthsAfter, FeedAssumption DEF StateOK, FeedAssumption
    <3>3. QED
      BY <2>2, <3>2, FeedAssumption DEF Midnight, StateOK, FeedAssumption
  <2>3. CASE CleanUp
    <3>1. PICK date : SetRows(KeptBy(date), {})
      BY <2>3 DEF CleanUp, Prune
    <3>2. KeptBy(date) \subseteq stored
      BY DEF KeptBy
    <3>3. QED
      BY <2>3, <3>1, <3>2, RowsType DEF CleanUp, Prune, StateOK
  <2>4. CASE Delete
    <3>1. PICK s \in Subscriptions :
            /\ SetRows(stored \ Of(s), {}) /\ counted' = counted \ Of(s)
            /\ source' = [source EXCEPT ![s].lost = TRUE]
            /\ uploads' = {IF u.subscription = s THEN [u EXCEPT !.lost = TRUE] ELSE u : u \in uploads}
      BY <2>4 DEF Delete
    <3>2. [source[s] EXCEPT !.lost = TRUE] \in SourceType
      BY DEF StateOK, SourceType
    <3>3. source' \in [Subscriptions -> SourceType]
      BY <3>1, <3>2 DEF StateOK
    <3>4. uploads' \subseteq UploadType
      <4>1. ASSUME NEW u \in uploads PROVE u \in UploadType /\ [u EXCEPT !.lost = TRUE] \in UploadType
        <5>1. u \in UploadType
          BY DEF StateOK
        <5>2. QED
          BY <5>1, UploadStaysOne
      <4>2. QED
        BY <3>1, <4>1
    <3>5. QED
      BY <2>4, <3>1, <3>3, <3>4, RowsType DEF Delete, StateOK
  <2>5. ASSUME NEW p \in Commands, Run(p) PROVE StateOK'
    <3>1. PICK cs \in SUBSET Billable :
            /\ Begin(p, Persisted(cs))
            /\ SetRows(stored \cup cs, {Row(c) : c \in cs})
            /\ counted' = counted \cup cs
      BY <2>5 DEF Run
    <3>2. cs \subseteq Charges
      BY DEF Billable
    <3>3. Persisted(cs) \in WorkType
      <4>1. {Bill[c].subscription : c \in cs} \ Synthetic \subseteq Subscriptions \ Synthetic
        BY <3>2, FeedAssumption DEF FeedAssumption
      <4>2. [s \in Subscriptions |-> {Bill[c].currency : c \in cs \cap Of(s)}]
              \in [Subscriptions -> SUBSET Currencies]
        BY <3>2 DEF Currencies
      <4>3. Idle \in WorkType
        BY IdleType
      <4> DEFINE ids == {Bill[c].subscription : c \in cs} \ Synthetic
                 charged == [s \in Subscriptions |-> {Bill[c].currency : c \in cs \cap Of(s)}]
      <4>4. Persisted(cs) = [Idle EXCEPT !.phase = "persisted", !.kind = "run",
                                         !.ids = ids, !.charged = charged]
        BY DEF Persisted
      <4> HIDE DEF ids, charged
      <4>5. ids \in SUBSET (Subscriptions \ Synthetic)
        BY <4>1 DEF ids
      <4>6. charged \in [Subscriptions -> SUBSET Currencies]
        BY <4>2 DEF charged
      <4>7. QED
        BY <4>3, <4>4, <4>5, <4>6 DEF WorkType
    <3>4. work' \in [Commands -> WorkType]
      BY <3>1, <3>3, BeginType
    <3>5. QED
      BY <2>5, <3>1, <3>2, <3>4, RowsType DEF Run, StateOK
  <2>6. ASSUME NEW p \in Commands, RunPushes(p) PROVE StateOK'
    <3>1. [work[p] EXCEPT !.phase = "pushing", !.anchor = LastMonth(month)] \in WorkType
      BY MonthBefore DEF StateOK, WorkType
    <3>2. work' = [work EXCEPT ![p] =
             [work[p] EXCEPT !.phase = "pushing", !.anchor = LastMonth(month)]]
      BY <2>6 DEF RunPushes
    <3>3. QED
      BY <2>6, <3>1, <3>2 DEF RunPushes, StateOK
  <2>7. ASSUME NEW p \in Commands, NEW targets, NEW date \in 0..day, Push(p, targets, date),
               targets \subseteq Subscriptions
        PROVE  StateOK'
    <3>1. Pushing(targets, date) \in WorkType
      <4>1. (IF date = day THEN 0 ELSE date) \in 0..MaxDay
        BY FeedAssumption DEF StateOK, FeedAssumption
      <4>2. LastMonth(month) \in Months
        BY MonthBefore DEF StateOK
      <4>3. targets \ Synthetic \in SUBSET (Subscriptions \ Synthetic)
        BY <2>7
      <4>4. QED
        BY <4>1, <4>2, <4>3, IdleType DEF Pushing, WorkType
    <3>2. QED
      BY <2>7, <3>1, BeginType DEF Push, StateOK
  <2>8. ASSUME NEW p \in Commands, ById(p) PROVE StateOK'
    <3>1. 0 \in 0..day
      BY DEF StateOK
    <3>2. \A a : {Bill[c].subscription : c \in {d \in stored : Bill[d].agreement = a}}
                   \subseteq Subscriptions
      BY FeedAssumption DEF StateOK, FeedAssumption
    <3>3. QED
      BY <2>7, <2>8, <3>1, <3>2 DEF ById
  <2>9. ASSUME NEW p \in Commands, ByUpdatedAt(p) PROVE StateOK'
    <3>1. PICK date \in 1..day : Push(p, {k.subscription : k \in UpdatedOn(date)}, date)
      BY <2>9 DEF ByUpdatedAt
    <3>2. {k.subscription : k \in UpdatedOn(date)} \subseteq Subscriptions
      BY FeedAssumption DEF UpdatedOn, Rows, Row, FeedAssumption
    <3>3. date \in 0..day
      BY DEF StateOK
    <3>4. QED
      BY <2>7, <3>1, <3>2, <3>3
  <2>10. ASSUME NEW p \in Commands, NextId(p) PROVE StateOK'
    <3>1. PICK s \in work[p].ids :
            /\ work' = [work EXCEPT ![p] = [work[p] EXCEPT !.ids = @ \ {s}]]
            /\ uploads' = uploads \cup {Upload(p, s)}
      BY <2>10 DEF NextId
    <3>2. QED
      BY <2>10, <3>1, UploadIsOne DEF NextId, StateOK
  <2>11. ASSUME NEW u \in uploads PROVE u \in UploadType /\ u.by \in Commands
    BY DEF StateOK, UploadType
  <2>12. ASSUME NEW u \in uploads, ReadMonth(u) PROVE StateOK'
    <3>1. PICK m \in u.unread : \E row \in RowsRead(u.subscription, m) :
            Become(u, WithMonth(u, m, row))
      BY <2>12 DEF ReadMonth
    <3>2. PICK row \in RowsRead(u.subscription, m) : Become(u, WithMonth(u, m, row))
      BY <3>1
    <3>3. WithMonth(u, m, row) \in UploadType
      BY <2>11, UploadStaysOne
    <3>4. QED
      BY <2>12, <3>2, <3>3 DEF ReadMonth, Become, StateOK
  <2>13. ASSUME NEW u \in uploads, Refuse(u) PROVE StateOK'
    BY <2>11, <2>13, FailType DEF Refuse, StateOK
  <2>14. ASSUME NEW u \in uploads, Send(u) PROVE StateOK'
    <3>1. [u EXCEPT !.state = "sent"] \in UploadType
      BY <2>11, UploadStaysOne
    <3>2. QED
      BY <2>14, <3>1 DEF Send, Become, StateOK
  <2>15. ASSUME NEW u \in uploads, PutLands(u) \/ StrayLands(u) PROVE StateOK'
    <3>1. Shown(u) /\ UNCHANGED <<clock, rows, swept>>
      BY <2>15 DEF PutLands, StrayLands
    <3>2. work' \in [Commands -> WorkType]
      BY <2>11, <2>15, FailType DEF PutLands, StrayLands, StateOK
    <3>3. QED
      BY <3>1, <3>2, ShownDoes DEF StateOK
  <2>16. ASSUME NEW u \in uploads, PutFails(u) PROVE StateOK'
    <3>1. PICK late : Abandon({u}, late)
      BY <2>16 DEF PutFails
    <3>2. QED
      BY <2>11, <2>16, <3>1, AbandonDoes, FailType DEF PutFails, StateOK
  <2>17. ASSUME NEW p \in Commands, Break(p) PROVE StateOK'
    <3>1. PICK late : Abandon(InState(p, {"reading", "sent"}), late)
      BY <2>17 DEF Break
    <3>2. InState(p, {"reading", "sent"}) \subseteq uploads
      BY DEF InState
    <3>3. QED
      BY <2>17, <3>1, <3>2, AbandonDoes, EndType DEF Break, StateOK
  <2>18. ASSUME NEW p \in Commands, RunEnds(p) PROVE StateOK'
    <3>1. KeptBy(month) \subseteq stored
      BY DEF KeptBy
    <3>2. QED
      BY <2>18, <3>1, EndType, RowsType DEF RunEnds, Prune, StateOK
  <2>19. ASSUME NEW p \in Commands, PushEnds(p) PROVE StateOK'
    <3>1. work[p].updatedOn \in 0..MaxDay
      BY DEF StateOK, WorkType
    <3>2. work[p].updatedOn > 0 => work[p].updatedOn \in 1..MaxDay
      BY <3>1, FeedAssumption DEF FeedAssumption
    <3>3. swept' \subseteq 1..MaxDay
      BY <2>19, <3>2 DEF PushEnds, StateOK
    <3>4. QED
      BY <2>19, <3>3, EndType DEF PushEnds, StateOK
  <2>20. QED
    BY <2>1, <2>2, <2>3, <2>4, <2>5, <2>6, <2>8, <2>9, <2>10, <2>12, <2>13, <2>14, <2>15,
       <2>16, <2>17, <2>18, <2>19 DEF Next
<1>3. QED
  BY <1>1, <1>2, PTL DEF Spec

-----------------------------------------------------------------------------
(***************************************************************************)
(* What the clean-up has taken is older than what it keeps today, and no   *)
(* command at work is anchored long ago: between the two lies the window.  *)
(***************************************************************************)
Retained ==
  /\ \A c \in counted \ stored : Ordinal(Bill[c].month) < Cutoff(month)
  /\ \A p \in Commands : work[p].phase = "pushing" =>
       Ordinal(month) - Ordinal(work[p].anchor) - 1 <= MaxMonthsAtWork

\* Pruning by any date up to today takes only what is older than today's window.
LEMMA PrunedIsOld ==
  ASSUME StateOK, Retained, NEW date, date = month \/ date = LastMonth(month),
         Prune(date), month' = month
  PROVE  \A c \in counted' \ stored' : Ordinal(Bill[c].month) < Cutoff(month')
<1>1. stored' = KeptBy(date) /\ counted' = counted
  BY RowsType DEF Prune
<1>2. Ordinal(month) \in Int /\ Cutoff(month) = Ordinal(month) - 17
  BY DEF StateOK, Months, Ordinal, MonthsPerYear, Cutoff, RetentionMonths
<1>3. Cutoff(date) <= Cutoff(month) /\ Cutoff(date) \in Int
  BY <1>2, MonthBefore DEF StateOK, Cutoff, RetentionMonths
<1>4. SUFFICES ASSUME NEW c \in counted, c \in stored, c \notin KeptBy(date)
               PROVE  Ordinal(Bill[c].month) < Cutoff(month)
  BY <1>1 DEF Retained
<1>5. Ordinal(Bill[c].month) \in Int
  BY FeedAssumption DEF StateOK, FeedAssumption, Months, Ordinal, MonthsPerYear
<1>6. ~(Ordinal(Bill[c].month) >= Cutoff(date))
  BY <1>4 DEF KeptBy
<1>7. QED
  BY <1>2, <1>3, <1>5, <1>6

\* A command that begins or ends anchors no older.
LEMMA AnchorStays ==
  ASSUME StateOK, Retained, NEW p \in Commands, NEW how, month' = month,
         work' = [work EXCEPT ![p] = how],
         \/ how.phase # "pushing"
         \/ how.phase = work[p].phase /\ how.anchor = work[p].anchor
         \/ how.anchor = LastMonth(month)
  PROVE  \A q \in Commands : work'[q].phase = "pushing" =>
           Ordinal(month') - Ordinal(work'[q].anchor) - 1 <= MaxMonthsAtWork
<1>1. MaxMonthsAtWork \in Nat
  BY FeedAssumption DEF FeedAssumption, RetentionMonths, RollingMonths
<1>2. Ordinal(month) \in Int /\ Ordinal(LastMonth(month)) = Ordinal(month) - 1
  BY MonthBefore DEF StateOK, Months, Ordinal, MonthsPerYear
<1>3. Ordinal(month) - Ordinal(LastMonth(month)) - 1 <= MaxMonthsAtWork
  BY <1>1, <1>2
<1>4. QED
  BY <1>3 DEF Retained, StateOK

\* The clean-up never prunes what an estimate still sums up, whatever is billed,
\* for every number of commands and days, as long as no command works through
\* more than the months the retention keeps over the window.
THEOREM RetentionSuffices == Spec => []NothingReadIsPruned
<1>1. Init => Retained
  BY DEF Init, Retained, Idle
<1>2. StateOK /\ Retained /\ [Next]_vars => Retained'
  <2> SUFFICES ASSUME StateOK, Retained, [Next]_vars PROVE Retained'
    OBVIOUS
  <2> USE DEF clock, rows, platform
  <2>1. CASE UNCHANGED vars
    BY <2>1 DEF vars, Retained
  <2>2. CASE Midnight
    <3>1. PICK n \in MonthSteps :
            /\ month' = After(month, n)
            /\ \A p \in Commands : work[p].phase = "pushing" =>
                 Ordinal(month') - Ordinal(work[p].anchor) - 1 <= MaxMonthsAtWork
      BY <2>2 DEF Midnight
    <3>2. n \in Nat /\ Ordinal(month') = Ordinal(month) + n
      BY <3>1, MonthsAfter, FeedAssumption DEF StateOK, FeedAssumption
    <3>3. Cutoff(month) <= Cutoff(month')
          /\ Cutoff(month) \in Int /\ Cutoff(month') \in Int
      BY <3>2 DEF StateOK, Cutoff, RetentionMonths, Months, Ordinal, MonthsPerYear
    <3>4. \A c \in counted : Ordinal(Bill[c].month) \in Int
      BY FeedAssumption DEF StateOK, FeedAssumption, Months, Ordinal, MonthsPerYear
    <3>5. \A c \in counted \ stored : Ordinal(Bill[c].month) < Cutoff(month')
      BY <3>3, <3>4 DEF Retained
    <3>6. QED
      BY <2>2, <3>1, <3>5 DEF Midnight, Retained
  <2>3. CASE CleanUp
    BY <2>3, PrunedIsOld DEF CleanUp, Retained
  <2>4. CASE Delete
    <3>1. PICK s \in Subscriptions : stored' = stored \ Of(s) /\ counted' = counted \ Of(s)
      BY <2>4, RowsType DEF Delete
    <3>2. QED
      BY <2>4, <3>1 DEF Delete, Retained
  <2>5. ASSUME NEW p \in Commands, Run(p) PROVE Retained'
    <3>1. PICK cs \in SUBSET Billable :
            /\ work' = [work EXCEPT ![p] = Persisted(cs)]
            /\ stored' = stored \cup cs /\ counted' = counted \cup cs
      BY <2>5, RowsType DEF Run, Begin
    <3>2. Persisted(cs).phase # "pushing"
      BY DEF Persisted, Idle
    <3>3. month' = month
      BY <2>5 DEF Run
    <3>4. QED
      BY <3>1, <3>2, <3>3, AnchorStays DEF Retained
  <2>6. ASSUME NEW p \in Commands, RunPushes(p) PROVE Retained'
    <3> DEFINE how == [work[p] EXCEPT !.phase = "pushing", !.anchor = LastMonth(month)]
    <3>1. how.anchor = LastMonth(month) /\ work' = [work EXCEPT ![p] = how]
      BY <2>6 DEF RunPushes, StateOK, WorkType
    <3>2. QED
      BY <2>6, <3>1, AnchorStays DEF RunPushes, Retained
  <2>7. ASSUME NEW p \in Commands, NEW targets, NEW date, Push(p, targets, date)
        PROVE  Retained'
    <3>1. Pushing(targets, date).anchor = LastMonth(month)
      BY DEF Pushing, Idle
    <3>2. work' = [work EXCEPT ![p] = Pushing(targets, date)]
      BY <2>7 DEF Push, Begin
    <3>3. QED
      BY <2>7, <3>1, <3>2, AnchorStays DEF Push, Retained
  <2>8. ASSUME UNCHANGED <<clock, rows>>,
               \A p \in Commands : /\ work'[p].phase = work[p].phase
                                  /\ work'[p].anchor = work[p].anchor
        PROVE  Retained'
    BY <2>8 DEF Retained
  <2>9. ASSUME NEW p \in Commands, End(p), month' = month
        PROVE  \A q \in Commands : work'[q].phase = "pushing" =>
                 Ordinal(month') - Ordinal(work'[q].anchor) - 1 <= MaxMonthsAtWork
    <3>1. Idle.phase # "pushing"
      BY DEF Idle
    <3>2. QED
      BY <2>9, <3>1, AnchorStays DEF End
  <2>10. ASSUME NEW p \in Commands, Break(p) \/ PushEnds(p) PROVE Retained'
    BY <2>9, <2>10 DEF Break, PushEnds, Retained
  <2>11. ASSUME NEW p \in Commands, RunEnds(p) PROVE Retained'
    BY <2>9, <2>11, PrunedIsOld DEF RunEnds, Retained
  <2>12. ASSUME NEW p \in Commands, ById(p) \/ ByUpdatedAt(p) PROVE Retained'
    <3>1. PICK targets, date : Push(p, targets, date)
      BY <2>12 DEF ById, ByUpdatedAt
    <3>2. QED
      BY <2>7, <3>1
  <2>13. ASSUME NEW p \in Commands, NextId(p) PROVE Retained'
    <3>1. PICK s : work' = [work EXCEPT ![p].ids = @ \ {s}]
      BY <2>13 DEF NextId
    <3>2. \A q \in Commands : work'[q].phase = work[q].phase /\ work'[q].anchor = work[q].anchor
      BY <3>1 DEF StateOK, WorkType
    <3>3. QED
      BY <2>8, <2>13, <3>2 DEF NextId
  <2>14. ASSUME NEW u \in uploads,
                \/ ReadMonth(u) \/ Refuse(u) \/ Send(u)
                \/ PutLands(u) \/ PutFails(u) \/ StrayLands(u)
         PROVE  Retained'
    <3>1. u.by \in Commands
      BY DEF StateOK, UploadType
    <3>2. (UNCHANGED work \/ Fail(u.by)) /\ UNCHANGED <<clock, rows>>
      BY <2>14 DEF ReadMonth, Refuse, Send, PutLands, PutFails, StrayLands
    <3>3. QED
      BY <2>8, <3>1, <3>2, FailType
  <2>15. QED
    BY <2>1, <2>2, <2>3, <2>4, <2>5, <2>6, <2>10, <2>11, <2>12, <2>13, <2>14 DEF Next
<1>3. StateOK /\ Retained => NothingReadIsPruned
  <2> SUFFICES ASSUME StateOK, Retained, NEW p \in Commands, work[p].phase = "pushing",
                      NEW c \in counted, Bill[c].month \in TrailingMonths(work[p].anchor),
                      c \notin stored
               PROVE  FALSE
    BY DEF NothingReadIsPruned
  <2> DEFINE o == Ordinal(Bill[c].month)
             last == Ordinal(work[p].anchor)
             now == Ordinal(month)
  <2>1. work[p].anchor \in Months
    BY DEF StateOK, WorkType
  <2>2. last \in Int /\ now \in Int /\ MaxMonthsAtWork \in 0..5
    BY <2>1, FeedAssumption
       DEF StateOK, Months, Ordinal, MonthsPerYear, FeedAssumption, RetentionMonths, RollingMonths
  <2>3. o \in (last - 11)..last
    BY <2>1, <2>2, WindowMonths DEF RollingMonths
  <2>4. o < now - 17
    BY <2>2 DEF Retained, Cutoff, RetentionMonths
  <2>5. now - last - 1 <= MaxMonthsAtWork
    BY DEF Retained
  <2> HIDE DEF o, last, now
  <2>6. QED
    BY <2>2, <2>3, <2>4, <2>5
<1>4. QED
  BY <1>1, <1>2, <1>3, StateCorrect, PTL DEF Spec

-----------------------------------------------------------------------------
\* A figure is never negative: a sum of credits is cut off at zero.
LEMMA FigureType ==
  ASSUME NEW cs, cs \subseteq Charges
  PROVE  NonNegative(Amount(cs)) \in Nat
<1>1. IsFiniteSet(cs) /\ \A c \in cs : Bill[c].amount \in Int
  BY FeedAssumption, FS_Subset DEF FeedAssumption
<1>2. Amount(cs) \in Int
  BY <1>1, AmountType
<1>3. QED
  BY <1>2 DEF NonNegative

LEMMA EstimateType ==
  ASSUME NEW cs, cs \subseteq Charges, NEW last
  PROVE  Estimate(cs, last) \in Figures
<1>1. {c \in cs : Row(c) = Latest(cs)} \subseteq Charges
  OBVIOUS
<1>2. /\ NonNegative(Amount({c \in cs : Row(c) = Latest(cs)})) \in Nat
      /\ NonNegative(Amount(cs)) \in Nat
  BY <1>1, FigureType
<1>3. QED
  BY <1>2 DEF Estimate, Figures

\* Only an upload that lands changes what the platform shows.
LEMMA PlatformStays ==
  ASSUME [Next]_vars, ~\E u \in uploads : Shown(u)
  PROVE  UNCHANGED <<shown, newest>> /\ (UNCHANGED source \/ Delete)
BY DEF Next, vars, platform, Midnight, CleanUp, Delete, Run, RunPushes, ById, ByUpdatedAt, Push,
       NextId, ReadMonth, Refuse, Send, PutLands, PutFails, StrayLands, Break, RunEnds, PushEnds

(***************************************************************************)
(* The state stays within its types, whatever is billed: no figure of an   *)
(* estimate is negative.                                                   *)
(***************************************************************************)
THEOREM TypeCorrect == Spec => []TypeOK
<1>1. Init => shown \in [Subscriptions -> Figures]
  BY DEF Init, Figures
<1>2. StateOK /\ shown \in [Subscriptions -> Figures] /\ [Next]_vars
        => (shown \in [Subscriptions -> Figures])'
  <2> SUFFICES ASSUME StateOK, shown \in [Subscriptions -> Figures], [Next]_vars
               PROVE  shown' \in [Subscriptions -> Figures]
    OBVIOUS
  <2>1. CASE \E u \in uploads : Shown(u)
    <3>1. PICK u \in uploads : Shown(u)
      BY <2>1
    <3>2. u.charges \subseteq Charges
      BY DEF StateOK, UploadType
    <3>3. shown' = [shown EXCEPT ![u.subscription] = Estimate(u.charges, u.anchor)]
      BY <3>1 DEF Shown
    <3>4. Estimate(u.charges, u.anchor) \in Figures
      BY <3>2, EstimateType
    <3>5. QED
      BY <3>3, <3>4
  <2>2. CASE ~\E u \in uploads : Shown(u)
    BY <2>2, PlatformStays
  <2>3. QED
    BY <2>1, <2>2
<1>3. QED
  BY <1>1, <1>2, StateCorrect, PTL DEF Spec, TypeOK

-----------------------------------------------------------------------------
(***************************************************************************)
(* What an upload has read is what was billed, whatever came between two   *)
(* of its reads, and stays so while it is sent, is late and is shown.  In  *)
(* the definitions x is an upload, or what the platform shows, of s.       *)
(***************************************************************************)
\* Of each month read with charges, those of one row.
Picked(s, x, unread) ==
  /\ x.charges \subseteq x.billed
  /\ \A c \in x.billed :
       /\ c \in Of(s) /\ InWindow(Bill[c].month, x.anchor) /\ Bill[c].month \notin unread
       /\ \E d \in x.charges : Bill[d].month = Bill[c].month
  /\ \A c \in x.charges, d \in x.billed :
       Bill[c].month = Bill[d].month => (d \in x.charges <=> Row(d) = Row(c))

\* A row that has not been written since its month was read is in it.
Complete(s, x, unread) ==
  \A k \in Rows :
    /\ k.subscription = s /\ 0 < written[k] /\ written[k] < x.day
    /\ InWindow(k.month, x.anchor) /\ k.month \notin unread
    => \/ InRow(k) \subseteq x.charges
       \/ \E c \in x.charges : Bill[c].month = k.month /\ Row(c) # k

\* Unless rows were deleted, what it was computed from is still billed, and a
\* charge that it lacks is in a row that was written since.
Fresh(s, x, unread) ==
  ~x.lost =>
    /\ x.billed \subseteq counted
    /\ \A c \in stored \cap Of(s) :
         InWindow(Bill[c].month, x.anchor) /\ Bill[c].month \notin unread /\ c \notin x.billed
           => stamp[Row(c)] >= x.day

Faithful(s, x, unread) ==
  x.day <= day /\ Picked(s, x, unread) /\ Complete(s, x, unread) /\ Fresh(s, x, unread)

\* A command reads for the month it is anchored on, and is at work until it has
\* read.
Reading(u) ==
  /\ u.unread \subseteq TrailingMonths(u.anchor)
  /\ u.state # "reading" => u.unread = {}
  /\ u.state = "reading" => work[u.by].phase = "pushing" /\ work[u.by].anchor = u.anchor

UploadsOK == \A u \in uploads : Reading(u) /\ Faithful(u.subscription, u, u.unread)
ShownOK ==
  \A s \in Subscriptions : source[s].day > 0 =>
    /\ s \notin Synthetic
    /\ Faithful(s, source[s], {})
    /\ shown[s] = Estimate(source[s].charges, source[s].anchor)

\* Rows written or taken away leave it so; y is what is known of x then.
LEMMA RowsKeepFaithful ==
  ASSUME StateOK, NEW cs, NEW upserted, SetRows(cs, upserted),
         cs \subseteq Charges, \A c \in cs \ stored : Row(c) \in upserted, day' = day,
         NEW s, NEW x, NEW y, NEW unread, x.day \in Nat, Faithful(s, x, unread),
         y.anchor = x.anchor, y.charges = x.charges, y.billed = x.billed, y.day = x.day,
         ~y.lost => ~x.lost /\ x.billed \cap counted \subseteq counted'
  PROVE  Faithful(s, y, unread)'
<1>1. /\ day \in Nat /\ stored' = cs
      /\ \A k \in Rows : written[k] \in Nat /\ stamp[k] \in Nat
      /\ \A k \in Rows :
           /\ stamp'[k] = IF \E c \in cs : Row(c) = k THEN Stamp(k, upserted) ELSE 0
           /\ written'[k] = IF ~\E c \in cs : Row(c) = k THEN 0
                            ELSE IF k \in upserted THEN day ELSE written[k]
  BY RowsType, FeedAssumption DEF StateOK, SetRows, FeedAssumption
<1>2. Picked(s, y, unread)'
  BY DEF Faithful, Picked
<1>3. Complete(s, y, unread)'
  <2> SUFFICES ASSUME NEW k \in Rows, k.subscription = s, 0 < written'[k], written'[k] < x.day,
                      InWindow(k.month, x.anchor), k.month \notin unread
               PROVE  \/ InRow(k)' \subseteq x.charges
                      \/ \E c \in x.charges : Bill[c].month = k.month /\ Row(c) # k
    BY DEF Complete
  <2>1. k \notin upserted /\ written'[k] = written[k]
    BY <1>1 DEF Faithful
  <2>2. InRow(k)' \subseteq InRow(k)
    BY <1>1, <2>1 DEF InRow
  <2>3. QED
    BY <2>1, <2>2 DEF Faithful, Complete
<1>4. Fresh(s, y, unread)'
  <2> SUFFICES ASSUME ~y.lost
               PROVE  /\ x.billed \subseteq counted'
                      /\ \A c \in cs \cap Of(s) :
                           /\ InWindow(Bill[c].month, x.anchor) /\ Bill[c].month \notin unread
                           /\ c \notin x.billed
                           => stamp'[Row(c)] >= x.day
    BY <1>1 DEF Fresh, Of
  <2>1. x.billed \subseteq counted'
    BY DEF Faithful, Fresh
  <2>2. ASSUME NEW c \in cs \cap Of(s), InWindow(Bill[c].month, x.anchor),
               Bill[c].month \notin unread, c \notin x.billed
        PROVE  stamp'[Row(c)] >= x.day
    <3>1. Row(c) \in Rows
      BY DEF Rows
    <3>2. stamp'[Row(c)] = IF Row(c) \in upserted THEN day ELSE stamp[Row(c)]
      BY <1>1, <3>1 DEF Stamp
    <3>3. CASE Row(c) \in upserted
      BY <1>1, <3>2, <3>3 DEF Faithful
    <3>4. CASE Row(c) \notin upserted
      BY <2>2, <3>2, <3>4 DEF Faithful, Fresh
    <3>5. QED
      BY <3>3, <3>4
  <2>3. QED
    BY <2>1, <2>2
<1>5. QED
  BY <1>2, <1>3, <1>4 DEF Faithful

\* A month is read: all that was billed of it is stored, and one row of it comes.
LEMMA MonthIsRead ==
  ASSUME StateOK, NothingReadIsPruned, NEW u \in uploads, u.state = "reading",
         Reading(u), Faithful(u.subscription, u, u.unread),
         NEW m \in u.unread, NEW row \in RowsRead(u.subscription, m)
  PROVE  LET v == WithMonth(u, m, row)
         IN Reading(v) /\ Faithful(v.subscription, v, v.unread)
<1> DEFINE s == u.subscription
           v == WithMonth(u, m, row)
           new == BilledIn(s, m)
<1>1. u \in UploadType /\ u.by \in Commands /\ u.anchor \in Months
  BY DEF StateOK, UploadType
<1>2. /\ v.by = u.by /\ v.subscription = s /\ v.anchor = u.anchor /\ v.state = u.state
      /\ v.day = u.day /\ v.lost = u.lost
      /\ v.unread = u.unread \ {m} /\ v.charges = u.charges \cup row /\ v.billed = u.billed \cup new
  BY <1>1 DEF WithMonth, UploadType
<1>3. /\ m \in TrailingMonths(u.anchor) /\ work[u.by].phase = "pushing"
      /\ work[u.by].anchor = u.anchor
  BY DEF Reading
<1>4. InWindow(m, u.anchor)
  BY <1>1, <1>3, WindowMonths DEF InWindow
<1>5. new = {c \in stored \cap Of(s) : Bill[c].month = m}
  BY <1>1, <1>3 DEF BilledIn, NothingReadIsPruned, StateOK
<1>6. \/ new = {} /\ row = {}
      \/ \E c \in new : row = {d \in new : Row(d) = Row(c)}
  <2> DEFINE found == {k \in RowsOf(s) : k.month = m}
  <2>1. \A k : k \in found <=> \E c \in new : k = Row(c)
    BY <1>5 DEF RowsOf, Row, Of, StateOK
  <2>2. CASE found = {}
    <3>1. row = {}
      BY <2>2 DEF RowsRead
    <3>2. QED
      BY <2>1, <2>2, <3>1
  <2>3. CASE found # {}
    <3>1. PICK k \in found : row = InRow(k)
      BY <2>3 DEF RowsRead
    <3>2. PICK c \in new : k = Row(c)
      BY <2>1
    <3>3. ASSUME NEW d \in stored, Row(d) = Row(c) PROVE d \in new
      <4>1. Bill[d].subscription = Bill[c].subscription /\ Bill[d].month = Bill[c].month
        BY <3>3 DEF Row
      <4>2. QED
        BY <1>5, <4>1 DEF Of, StateOK
    <3>4. row = {d \in new : Row(d) = Row(c)}
      BY <1>5, <3>1, <3>2, <3>3 DEF InRow
    <3>5. QED
      BY <3>4
  <2>4. QED
    BY <2>2, <2>3
<1> HIDE DEF v, new
<1>7. \A c \in new : c \in Of(s) /\ Bill[c].month = m /\ c \in counted
  BY <1>5 DEF StateOK
<1>8. \A c \in u.billed : Bill[c].month # m
  BY DEF Faithful, Picked
<1>9. row \subseteq new /\ (\A c \in new : \E d \in row : Bill[d].month = m)
      /\ \A c \in row, d \in new : d \in row <=> Row(d) = Row(c)
  BY <1>6, <1>7
<1>10. Picked(s, v, v.unread)
  <2>1. v.charges \subseteq v.billed
    BY <1>2, <1>9 DEF Faithful, Picked
  <2>2. ASSUME NEW c \in v.billed
        PROVE  /\ c \in Of(s) /\ InWindow(Bill[c].month, v.anchor) /\ Bill[c].month \notin v.unread
               /\ \E d \in v.charges : Bill[d].month = Bill[c].month
    <3>1. CASE c \in u.billed
      BY <1>2, <3>1 DEF Faithful, Picked
    <3>2. CASE c \in new
      BY <1>2, <1>4, <1>7, <1>9, <3>2
    <3>3. QED
      BY <1>2, <3>1, <3>2
  <2>3. ASSUME NEW c \in v.charges, NEW d \in v.billed, Bill[c].month = Bill[d].month
        PROVE  d \in v.charges <=> Row(d) = Row(c)
    <3>1. CASE c \in u.charges
      <4>1. d \in u.billed /\ d \notin row
        BY <1>2, <1>7, <1>8, <1>9, <2>3, <3>1 DEF Faithful, Picked
      <4>2. d \in u.charges <=> Row(d) = Row(c)
        BY <2>3, <3>1, <4>1 DEF Faithful, Picked
      <4>3. QED
        BY <1>2, <4>1, <4>2
    <3>2. CASE c \in row
      <4>1. d \in new /\ d \notin u.charges
        BY <1>2, <1>7, <1>8, <1>9, <2>3, <3>2 DEF Faithful, Picked
      <4>2. QED
        BY <1>2, <1>9, <3>2, <4>1
    <3>3. QED
      BY <1>2, <3>1, <3>2
  <2>4. QED
    BY <2>1, <2>2, <2>3 DEF Picked
<1>11. Complete(s, v, v.unread)
  <2> SUFFICES ASSUME NEW k \in Rows, k.subscription = s, 0 < written[k], written[k] < u.day,
                      InWindow(k.month, u.anchor), k.month \notin v.unread
               PROVE  \/ InRow(k) \subseteq v.charges
                      \/ \E c \in v.charges : Bill[c].month = k.month /\ Row(c) # k
    BY <1>2 DEF Complete
  <2>1. CASE k.month # m
    BY <1>2, <2>1 DEF Faithful, Complete
  <2>2. CASE k.month = m
    <3>1. \A c \in InRow(k) : c \in new /\ Row(c) = k
      BY <1>5, <2>2 DEF InRow, Row, Of, StateOK
    <3>2. CASE new = {}
      BY <3>1, <3>2
    <3>3. CASE new # {}
      <4>1. PICK c \in row : Bill[c].month = m
        BY <1>9, <3>3
      <4>2. QED
        BY <1>2, <1>9, <2>2, <3>1, <4>1
    <3>4. QED
      BY <3>2, <3>3
  <2>3. QED
    BY <2>1, <2>2
<1>12. Fresh(s, v, v.unread)
  BY <1>2, <1>5, <1>7 DEF Faithful, Fresh
<1>13. Reading(v)
  BY <1>2 DEF Reading
<1>14. QED
  BY <1>2, <1>10, <1>11, <1>12, <1>13 DEF Faithful, v

\* Steps that leave the rows alone leave it so, on the next day too.
LEMMA FaithfulStays ==
  ASSUME StateOK, UNCHANGED rows, day' \in Nat, day' >= day,
         NEW s, NEW x, NEW y, NEW unread, x.day \in Nat, Faithful(s, x, unread),
         y.anchor = x.anchor, y.charges = x.charges, y.billed = x.billed, y.day = x.day,
         ~y.lost => ~x.lost
  PROVE  Faithful(s, y, unread)'
<1>1. day \in Nat
  BY DEF StateOK
<1>2. Picked(s, y, unread)'
  BY DEF Faithful, Picked
<1>3. Complete(s, y, unread)'
  BY DEF Faithful, Complete, rows, InRow
<1>4. Fresh(s, y, unread)'
  BY DEF Faithful, Fresh, rows, Of
<1>5. QED
  BY <1>1, <1>2, <1>3, <1>4 DEF Faithful

\* An upload that has begun has read nothing yet.
LEMMA BegunFaithful ==
  ASSUME StateOK, NEW p \in Commands, work[p].phase = "pushing", NEW s \in work[p].ids
  PROVE  Reading(Upload(p, s)) /\ Faithful(s, Upload(p, s), Upload(p, s).unread)
<1> DEFINE u == Upload(p, s)
<1>1. /\ u.by = p /\ u.subscription = s /\ u.anchor = work[p].anchor /\ u.state = "reading"
      /\ u.unread = TrailingMonths(u.anchor) \cap BilledMonths
      /\ u.charges = {} /\ u.billed = {} /\ u.day = day
  BY DEF Upload
<1> HIDE DEF u
<1>2. u.anchor \in Months /\ day \in Nat
  BY <1>1 DEF StateOK, WorkType
<1>3. ASSUME NEW c \in Charges, InWindow(Bill[c].month, u.anchor), Bill[c].month \notin u.unread
      PROVE  FALSE
  <2>1. Bill[c].month \in Months /\ Bill[c].month \in BilledMonths
    BY FeedAssumption DEF FeedAssumption, BilledMonths
  <2>2. QED
    BY <1>1, <1>2, <1>3, <2>1, MonthsOfWindow DEF InWindow
<1>4. Picked(s, u, u.unread)
  BY <1>1 DEF Picked
<1>5. Complete(s, u, u.unread)
  BY <1>3 DEF Complete, Rows, Row
<1>6. Fresh(s, u, u.unread)
  BY <1>1, <1>3 DEF Fresh, StateOK
<1>7. Reading(u)
  BY <1>1 DEF Reading
<1>8. QED
  BY <1>1, <1>2, <1>4, <1>5, <1>6, <1>7 DEF Faithful, u

\* The uploads that a step leaves, with what it leaves of the commands.
LEMMA ReadingStays ==
  ASSUME NEW u, Reading(u),
         u.state = "reading" =>
           work'[u.by].phase = work[u.by].phase /\ work'[u.by].anchor = work[u.by].anchor
  PROVE  Reading(u)'
BY DEF Reading

LEMMA RowsKeepUploads ==
  ASSUME StateOK, UploadsOK, NEW cs, NEW upserted, SetRows(cs, upserted),
         cs \subseteq Charges, \A c \in cs \ stored : Row(c) \in upserted, day' = day,
         counted \subseteq counted', uploads' = uploads,
         \A u \in uploads : u.state = "reading" => work'[u.by] = work[u.by]
  PROVE  UploadsOK'
<1> SUFFICES ASSUME NEW u \in uploads PROVE (Reading(u) /\ Faithful(u.subscription, u, u.unread))'
  BY DEF UploadsOK
<1>1. Reading(u) /\ Faithful(u.subscription, u, u.unread) /\ u.day \in Nat
  BY DEF UploadsOK, StateOK, UploadType
<1>2. Reading(u)'
  BY <1>1, ReadingStays
<1>3. Faithful(u.subscription, u, u.unread)'
  <2> DEFINE s == u.subscription
             unread == u.unread
  <2> HIDE DEF s, unread
  <2>1. Faithful(s, u, unread)
    BY <1>1 DEF s, unread
  <2>2. Faithful(s, u, unread)'
    BY <1>1, <2>1, RowsKeepFaithful
  <2>3. QED
    BY <2>2 DEF s, unread
<1>4. QED
  BY <1>2, <1>3

LEMMA UploadsStay ==
  ASSUME StateOK, UploadsOK, UNCHANGED rows, day' \in Nat, day' >= day,
         NEW u \in uploads, NEW v,
         v.by = u.by, v.subscription = u.subscription, v.unread = u.unread, v.anchor = u.anchor,
         v.charges = u.charges, v.billed = u.billed, v.day = u.day, v.lost = u.lost,
         \/ /\ v.state = u.state
            /\ u.state = "reading" =>
                 work'[u.by].phase = work[u.by].phase /\ work'[u.by].anchor = work[u.by].anchor
         \/ v.state # "reading" /\ u.unread = {}
  PROVE  Reading(v)' /\ Faithful(v.subscription, v, v.unread)'
<1>1. Reading(u) /\ Faithful(u.subscription, u, u.unread) /\ u.day \in Nat
  BY DEF UploadsOK, StateOK, UploadType
<1>2. Reading(v)'
  BY <1>1 DEF Reading
<1> DEFINE s == v.subscription
           unread == v.unread
<1> HIDE DEF s, unread
<1>3. Faithful(s, u, unread)
  BY <1>1 DEF s, unread
<1>4. Faithful(s, v, unread)'
  BY <1>1, <1>3, FaithfulStays
<1>5. QED
  BY <1>2, <1>4 DEF s, unread

\* What the platform shows, while nothing lands.
LEMMA RowsKeepShown ==
  ASSUME StateOK, ShownOK, NEW cs, NEW upserted, SetRows(cs, upserted),
         cs \subseteq Charges, \A c \in cs \ stored : Row(c) \in upserted, day' = day,
         shown' = shown,
         \A s \in Subscriptions :
           \/ source'[s] = source[s] /\ counted \cap Of(s) \subseteq counted'
           \/ source'[s] = [source[s] EXCEPT !.lost = TRUE]
  PROVE  ShownOK'
<1> SUFFICES ASSUME NEW s \in Subscriptions, source'[s].day > 0
             PROVE  /\ s \notin Synthetic /\ Faithful(s, source[s], {})'
                    /\ shown'[s] = Estimate(source'[s].charges, source'[s].anchor)
  BY DEF ShownOK
<1>1. PICK x, y : x = source[s] /\ y = source'[s]
  OBVIOUS
<1>2. x \in SourceType
  BY <1>1 DEF StateOK
<1>3. /\ y.anchor = x.anchor /\ y.charges = x.charges /\ y.billed = x.billed /\ y.day = x.day
      /\ ~y.lost => ~x.lost /\ counted \cap Of(s) \subseteq counted'
  BY <1>1, <1>2 DEF SourceType
<1>4. /\ s \notin Synthetic /\ Faithful(s, x, {}) /\ x.day \in Nat
      /\ shown[s] = Estimate(x.charges, x.anchor)
  BY <1>1, <1>2, <1>3 DEF ShownOK, SourceType
<1>5. ~y.lost => ~x.lost /\ x.billed \cap counted \subseteq counted'
  BY <1>3, <1>4 DEF Faithful, Picked
<1>6. Faithful(s, y, {})'
  BY <1>3, <1>4, <1>5, RowsKeepFaithful
<1>7. Faithful(s, source[s], {})'
  BY <1>1, <1>6 DEF Faithful, Picked, Complete, Fresh
<1>8. QED
  BY <1>1, <1>3, <1>4, <1>7

LEMMA ShownStays ==
  ASSUME StateOK, ShownOK, UNCHANGED rows, day' \in Nat, day' >= day,
         UNCHANGED <<shown, source>>
  PROVE  ShownOK'
<1> SUFFICES ASSUME NEW s \in Subscriptions, source'[s].day > 0
             PROVE  /\ s \notin Synthetic /\ Faithful(s, source[s], {})'
                    /\ shown'[s] = Estimate(source'[s].charges, source'[s].anchor)
  BY DEF ShownOK
<1>1. PICK x : x = source[s] /\ x = source'[s]
  OBVIOUS
<1>2. s \notin Synthetic /\ Faithful(s, x, {}) /\ x.day \in Nat
      /\ shown[s] = Estimate(x.charges, x.anchor)
  BY <1>1 DEF ShownOK, StateOK, SourceType
<1>3. Faithful(s, x, {})'
  BY <1>2, FaithfulStays
<1>4. Faithful(s, source[s], {})'
  BY <1>1, <1>3 DEF Faithful, Picked, Complete, Fresh
<1>5. QED
  BY <1>1, <1>2, <1>4

\* And when an upload lands.
LEMMA ShownLands ==
  ASSUME TypeOK, UploadsOK, ShownOK, UNCHANGED <<day, rows>>,
         NEW u \in uploads, u.state # "reading", Shown(u)
  PROVE  ShownOK'
<1> SUFFICES ASSUME NEW s \in Subscriptions, source'[s].day > 0
             PROVE  /\ s \notin Synthetic /\ Faithful(s, source[s], {})'
                    /\ shown'[s] = Estimate(source'[s].charges, source'[s].anchor)
  BY DEF ShownOK
<1>1. PICK x, y : x = (IF s = u.subscription THEN u ELSE source[s]) /\ y = source'[s]
  OBVIOUS
<1>2. /\ y.anchor = x.anchor /\ y.charges = x.charges /\ y.billed = x.billed /\ y.day = x.day
      /\ y.lost = x.lost
  BY <1>1, ShownDoes DEF TypeOK
<1>3. s \notin Synthetic /\ Faithful(s, x, {}) /\ x.day \in Nat
  <2>1. CASE s = u.subscription
    <3>1. u.unread = {} /\ Faithful(s, u, u.unread)
      BY <2>1 DEF UploadsOK, Reading
    <3>2. QED
      BY <1>1, <2>1, <3>1 DEF TypeOK, StateOK, UploadType
  <2>2. CASE s # u.subscription
    BY <1>1, <1>2, <2>2 DEF ShownOK, TypeOK, StateOK, SourceType
  <2>3. QED
    BY <2>1, <2>2
<1>4. Faithful(s, y, {})'
  <2>1. day' \in Nat /\ day' >= day
    BY DEF TypeOK, StateOK
  <2>2. QED
    BY <1>2, <1>3, <2>1, FaithfulStays DEF TypeOK
<1>5. Faithful(s, source[s], {})'
  BY <1>1, <1>4 DEF Faithful, Picked, Complete, Fresh
<1>6. shown'[s] = Estimate(y.charges, y.anchor)
  <2>1. shown' = [shown EXCEPT ![u.subscription] = Estimate(u.charges, u.anchor)]
    BY DEF Shown
  <2>2. CASE s = u.subscription
    BY <1>1, <1>2, <2>1, <2>2 DEF TypeOK
  <2>3. CASE s # u.subscription
    BY <1>1, <1>2, <2>1, <2>3 DEF TypeOK, ShownOK
  <2>4. QED
    BY <2>2, <2>3
<1>7. QED
  BY <1>1, <1>3, <1>5, <1>6

(***************************************************************************)
(* Every upload has read what was billed, and so has what is shown.        *)
(***************************************************************************)
LEMMA FeedInvariant == Spec => [](UploadsOK /\ ShownOK)
<1>1. Init => UploadsOK /\ ShownOK
  BY DEF Init, UploadsOK, ShownOK, NeverShown
<1>2. TypeOK /\ NothingReadIsPruned /\ UploadsOK /\ ShownOK /\ [Next]_vars
        => (UploadsOK /\ ShownOK)'
  <2> SUFFICES ASSUME TypeOK, NothingReadIsPruned, UploadsOK, ShownOK, [Next]_vars
               PROVE  UploadsOK' /\ ShownOK'
    OBVIOUS
  <2> USE DEF clock, platform
  <2>1. /\ StateOK /\ day \in Nat /\ work \in [Commands -> WorkType]
        /\ stored \subseteq counted /\ counted \subseteq Charges
        /\ \A u \in uploads : u \in UploadType /\ u.by \in Commands /\ u.day \in Nat
    BY FeedAssumption DEF TypeOK, StateOK, UploadType, FeedAssumption
  <2>2. ASSUME NEW u \in uploads, u.state = "reading"
        PROVE  work[u.by].phase = "pushing" /\ work[u.by].anchor = u.anchor
    BY <2>2 DEF UploadsOK, Reading
  <2>3. ASSUME UNCHANGED <<rows, shown, source, uploads>>, day' \in Nat, day' >= day,
               \A u \in uploads : u.state = "reading" => work'[u.by] = work[u.by]
        PROVE  UploadsOK' /\ ShownOK'
    BY <2>1, <2>3, UploadsStay, ShownStays DEF UploadsOK
  <2>4. CASE UNCHANGED vars
    BY <2>1, <2>3, <2>4 DEF vars
  <2>5. CASE Midnight
    BY <2>1, <2>3, <2>5 DEF Midnight
  <2>6. ASSUME NEW date, Prune(date), UNCHANGED <<day, platform, uploads>>,
               \A u \in uploads : u.state = "reading" => work'[u.by] = work[u.by]
        PROVE  UploadsOK' /\ ShownOK'
    <3>1. /\ KeptBy(date) \subseteq stored /\ SetRows(KeptBy(date), {}) /\ counted' = counted
          /\ \A c \in KeptBy(date) \ stored : Row(c) \in {}
      BY <2>6 DEF KeptBy, Prune
    <3>2. UploadsOK'
      BY <2>1, <2>6, <3>1, RowsKeepUploads
    <3>3. ShownOK'
      BY <2>1, <2>6, <3>1, RowsKeepShown
    <3>4. QED
      BY <3>2, <3>3
  <2>7. CASE CleanUp
    BY <2>6, <2>7 DEF CleanUp
  <2>8. CASE Delete
    <3>1. PICK s \in Subscriptions :
            /\ SetRows(stored \ Of(s), {}) /\ counted' = counted \ Of(s)
            /\ source' = [source EXCEPT ![s].lost = TRUE]
            /\ uploads' = {IF u.subscription = s THEN [u EXCEPT !.lost = TRUE] ELSE u : u \in uploads}
            /\ UNCHANGED <<day, shown, work>>
      BY <2>8 DEF Delete
    <3>2. /\ stored \ Of(s) \subseteq Charges
          /\ \A c \in (stored \ Of(s)) \ stored : Row(c) \in {}
      BY <2>1
    <3>3. \A t \in Subscriptions : t # s => counted \cap Of(t) \subseteq counted'
      BY <3>1 DEF Of
    <3>4. ShownOK'
      <4>1. \A t \in Subscriptions :
              \/ source'[t] = source[t] /\ counted \cap Of(t) \subseteq counted'
              \/ source'[t] = [source[t] EXCEPT !.lost = TRUE]
        BY <3>1, <3>3 DEF TypeOK, StateOK
      <4>2. QED
        BY <2>1, <3>1, <3>2, <4>1, RowsKeepShown
    <3>5. ASSUME NEW v \in uploads'
          PROVE  Reading(v)' /\ Faithful(v.subscription, v, v.unread)'
      <4>1. PICK u \in uploads : v = IF u.subscription = s THEN [u EXCEPT !.lost = TRUE] ELSE u
        BY <3>1
      <4>2. u \in UploadType /\ Reading(u) /\ Faithful(u.subscription, u, u.unread)
        BY <2>1 DEF UploadsOK
      <4>3. /\ v.by = u.by /\ v.subscription = u.subscription /\ v.unread = u.unread
            /\ v.anchor = u.anchor /\ v.charges = u.charges /\ v.billed = u.billed
            /\ v.day = u.day /\ v.state = u.state
            /\ ~v.lost => ~u.lost /\ u.subscription # s
        BY <4>1, <4>2 DEF UploadType
      <4>4. ~v.lost => ~u.lost /\ u.billed \cap counted \subseteq counted'
        BY <3>3, <4>2, <4>3 DEF Faithful, Picked, UploadType
      <4> DEFINE t == v.subscription
                 unread == v.unread
      <4> HIDE DEF t, unread
      <4>5. Faithful(t, u, unread)
        BY <4>2, <4>3 DEF t, unread
      <4>6. Faithful(t, v, unread)'
        BY <2>1, <3>1, <3>2, <4>3, <4>4, <4>5, RowsKeepFaithful
      <4>7. Reading(v)'
        BY <3>1, <4>2, <4>3 DEF Reading
      <4>8. QED
        BY <4>6, <4>7 DEF t, unread
    <3>6. QED
      BY <3>4, <3>5 DEF UploadsOK
  <2>9. ASSUME NEW p \in Commands, Run(p) PROVE UploadsOK' /\ ShownOK'
    <3>1. PICK cs \in SUBSET Billable :
            /\ Begin(p, Persisted(cs))
            /\ SetRows(stored \cup cs, {Row(c) : c \in cs})
            /\ counted' = counted \cup cs
            /\ UNCHANGED <<day, shown, source, uploads>>
      BY <2>9 DEF Run
    <3>2. /\ stored \cup cs \subseteq Charges
          /\ \A c \in (stored \cup cs) \ stored : Row(c) \in {Row(d) : d \in cs}
      BY <2>1 DEF Billable
    <3>3. \A u \in uploads : u.state = "reading" => work'[u.by] = work[u.by]
      BY <2>1, <2>2, <3>1 DEF Begin, Working
    <3>4. UploadsOK'
      BY <2>1, <3>1, <3>2, <3>3, RowsKeepUploads
    <3>5. ShownOK'
      BY <2>1, <3>1, <3>2, RowsKeepShown
    <3>6. QED
      BY <3>4, <3>5
  <2>10. ASSUME NEW p \in Commands, RunPushes(p) PROVE UploadsOK' /\ ShownOK'
    <3>1. \A u \in uploads : u.state = "reading" => work'[u.by] = work[u.by]
      BY <2>1, <2>2, <2>10 DEF RunPushes
    <3>2. QED
      BY <2>1, <2>3, <2>10, <3>1 DEF RunPushes
  <2>11. ASSUME NEW p \in Commands, ById(p) \/ ByUpdatedAt(p) PROVE UploadsOK' /\ ShownOK'
    <3>1. PICK targets, date : Push(p, targets, date)
      BY <2>11 DEF ById, ByUpdatedAt
    <3>2. \A u \in uploads : u.state = "reading" => work'[u.by] = work[u.by]
      BY <2>1, <2>2, <3>1 DEF Push, Begin, Working
    <3>3. QED
      BY <2>1, <2>3, <3>1, <3>2 DEF Push
  <2>12. ASSUME NEW p \in Commands, NextId(p) PROVE UploadsOK' /\ ShownOK'
    <3>1. PICK s \in work[p].ids :
            /\ work' = [work EXCEPT ![p].ids = @ \ {s}]
            /\ uploads' = uploads \cup {Upload(p, s)}
      BY <2>12 DEF NextId
    <3>2. work[p].phase = "pushing" /\ UNCHANGED <<day, rows, shown, source>>
      BY <2>12 DEF NextId
    <3>3. \A q \in Commands : work'[q].phase = work[q].phase /\ work'[q].anchor = work[q].anchor
      BY <2>1, <3>1 DEF WorkType
    <3>4. ASSUME NEW v \in uploads' PROVE Reading(v)' /\ Faithful(v.subscription, v, v.unread)'
      <4>1. CASE v \in uploads
        BY <2>1, <3>2, <3>3, <4>1, UploadsStay
      <4>2. CASE v = Upload(p, s)
        <5> DEFINE t == v.subscription
                   unread == v.unread
        <5>1. v.by = p /\ t = s /\ v.day = day
          BY <4>2 DEF Upload
        <5>2. Reading(v) /\ Faithful(t, v, unread)
          BY <2>1, <3>2, <4>2, <5>1, BegunFaithful
        <5>3. Reading(v)'
          BY <3>3, <5>1, <5>2 DEF Reading
        <5> HIDE DEF t, unread
        <5>4. Faithful(t, v, unread)'
          BY <2>1, <3>2, <5>1, <5>2, FaithfulStays
        <5>5. QED
          BY <5>3, <5>4 DEF t, unread
      <4>3. QED
        BY <3>1, <4>1, <4>2
    <3>5. ShownOK'
      BY <2>1, <3>2, ShownStays
    <3>6. QED
      BY <3>4, <3>5 DEF UploadsOK
  <2>13. ASSUME NEW u \in uploads, ReadMonth(u) PROVE UploadsOK' /\ ShownOK'
    <3>1. /\ u.state = "reading" /\ UNCHANGED <<day, rows, shown, source, work>>
          /\ \E m \in u.unread : \E row \in RowsRead(u.subscription, m) :
               Become(u, WithMonth(u, m, row))
      BY <2>13 DEF ReadMonth
    <3>2. PICK m \in u.unread : \E row \in RowsRead(u.subscription, m) :
               Become(u, WithMonth(u, m, row))
      BY <3>1
    <3>3. PICK row \in RowsRead(u.subscription, m) : Become(u, WithMonth(u, m, row))
      BY <3>2
    <3>4. ASSUME NEW v \in uploads' PROVE Reading(v)' /\ Faithful(v.subscription, v, v.unread)'
      <4>1. CASE v \in uploads
        BY <2>1, <3>1, <4>1, UploadsStay
      <4>2. CASE v = WithMonth(u, m, row)
        <5> DEFINE t == v.subscription
                   unread == v.unread
        <5>1. v.day \in Nat
          BY <2>1, <4>2 DEF WithMonth, UploadType
        <5>2. Reading(v) /\ Faithful(t, v, unread)
          BY <2>1, <3>1, <4>2, MonthIsRead DEF UploadsOK
        <5>3. Reading(v)'
          BY <3>1, <5>2 DEF Reading
        <5> HIDE DEF t, unread
        <5>4. Faithful(t, v, unread)'
          BY <2>1, <3>1, <5>1, <5>2, FaithfulStays
        <5>5. QED
          BY <5>3, <5>4 DEF t, unread
      <4>3. QED
        BY <3>3, <4>1, <4>2 DEF Become
    <3>5. ShownOK'
      BY <2>1, <3>1, ShownStays
    <3>6. QED
      BY <3>4, <3>5 DEF UploadsOK
  <2>14. ASSUME NEW u \in uploads, Refuse(u) \/ Send(u) PROVE UploadsOK' /\ ShownOK'
    <3>1. /\ u.unread = {} /\ UNCHANGED <<day, rows, shown, source>>
          /\ UNCHANGED work \/ Fail(u.by)
          /\ uploads' \subseteq uploads \cup {[u EXCEPT !.state = "sent"]}
      BY <2>14 DEF Refuse, Send, Become
    <3>2. \A q \in Commands : work'[q].phase = work[q].phase /\ work'[q].anchor = work[q].anchor
      BY <2>1, <3>1, FailType
    <3>3. ASSUME NEW v \in uploads' PROVE Reading(v)' /\ Faithful(v.subscription, v, v.unread)'
      <4>1. CASE v \in uploads
        BY <2>1, <3>1, <3>2, <4>1, UploadsStay
      <4>2. CASE v = [u EXCEPT !.state = "sent"]
        <5>1. /\ v.state = "sent" /\ v.by = u.by /\ v.subscription = u.subscription
              /\ v.unread = u.unread /\ v.anchor = u.anchor /\ v.charges = u.charges
              /\ v.billed = u.billed /\ v.day = u.day /\ v.lost = u.lost
          BY <2>1, <4>2 DEF UploadType
        <5>2. v.state # "reading" /\ u.unread = {} /\ day' \in Nat /\ day' >= day
          BY <2>1, <3>1, <5>1
        <5>3. QED
          BY <2>1, <3>1, <5>1, <5>2, UploadsStay
      <4>3. QED
        BY <3>1, <4>1, <4>2
    <3>4. ShownOK'
      BY <2>1, <3>1, ShownStays
    <3>5. QED
      BY <3>3, <3>4 DEF UploadsOK
  <2>15. ASSUME NEW u \in uploads, PutLands(u) \/ StrayLands(u) PROVE UploadsOK' /\ ShownOK'
    <3>1. /\ Shown(u) /\ u.state # "reading" /\ UNCHANGED <<day, rows>>
          /\ UNCHANGED work \/ Fail(u.by)
      BY <2>15 DEF PutLands, StrayLands
    <3>2. \A q \in Commands : work'[q].phase = work[q].phase /\ work'[q].anchor = work[q].anchor
      BY <2>1, <3>1, FailType
    <3>3. \A v \in uploads' : Reading(v)' /\ Faithful(v.subscription, v, v.unread)'
      BY <2>1, <3>1, <3>2, UploadsStay DEF Shown
    <3>4. ShownOK'
      BY <3>1, ShownLands
    <3>5. QED
      BY <3>3, <3>4 DEF UploadsOK
  <2>16. ASSUME NEW us \in SUBSET uploads, NEW late, Abandon(us, late),
                UNCHANGED <<day, rows, shown, source>>,
                \A u \in uploads \ us : u.state = "reading" =>
                  work'[u.by].phase = work[u.by].phase /\ work'[u.by].anchor = work[u.by].anchor
         PROVE  UploadsOK' /\ ShownOK'
    <3>1. ASSUME NEW v \in uploads' PROVE Reading(v)' /\ Faithful(v.subscription, v, v.unread)'
      <4>1. CASE v \in uploads \ us
        BY <2>1, <2>16, <4>1, UploadsStay
      <4>2. CASE v \notin uploads \ us
        <5>1. PICK u \in us : u.state = "sent" /\ v = [u EXCEPT !.state = "stray"]
          BY <2>1, <2>16, <4>2, AbandonDoes
        <5>2. u.unread = {}
          BY <5>1 DEF UploadsOK, Reading
        <5>3. /\ v.state = "stray" /\ v.by = u.by /\ v.subscription = u.subscription
              /\ v.unread = u.unread /\ v.anchor = u.anchor /\ v.charges = u.charges
              /\ v.billed = u.billed /\ v.day = u.day /\ v.lost = u.lost
          BY <2>1, <5>1 DEF UploadType
        <5>4. u \in uploads /\ v.state # "reading" /\ day' \in Nat /\ day' >= day
          BY <2>1, <2>16, <5>3
        <5>5. QED
          BY <2>1, <2>16, <5>2, <5>3, <5>4, UploadsStay
      <4>3. QED
        BY <4>1, <4>2
    <3>2. ShownOK'
      BY <2>1, <2>16, ShownStays
    <3>3. QED
      BY <3>1, <3>2 DEF UploadsOK
  <2>17. ASSUME NEW u \in uploads, PutFails(u) PROVE UploadsOK' /\ ShownOK'
    <3>1. PICK late : Abandon({u}, late)
      BY <2>17 DEF PutFails
    <3>2. Fail(u.by) /\ UNCHANGED <<day, rows, shown, source>>
      BY <2>17 DEF PutFails
    <3>3. \A q \in Commands : work'[q].phase = work[q].phase /\ work'[q].anchor = work[q].anchor
      BY <2>1, <3>2, FailType
    <3>4. QED
      BY <2>1, <2>16, <3>1, <3>2, <3>3
  <2>18. ASSUME NEW p \in Commands, Break(p) PROVE UploadsOK' /\ ShownOK'
    <3>1. PICK late : Abandon(InState(p, {"reading", "sent"}), late)
      BY <2>18 DEF Break
    <3>2. End(p) /\ UNCHANGED <<day, rows, shown, source>>
      BY <2>18 DEF Break
    <3>3. \A u \in uploads \ InState(p, {"reading", "sent"}) : u.state = "reading" =>
            work'[u.by].phase = work[u.by].phase /\ work'[u.by].anchor = work[u.by].anchor
      BY <2>1, <3>2 DEF InState, End
    <3>4. InState(p, {"reading", "sent"}) \in SUBSET uploads
      BY DEF InState
    <3>5. QED
      BY <2>16, <3>1, <3>2, <3>3, <3>4
  <2>19. ASSUME NEW p \in Commands, RunEnds(p) \/ PushEnds(p) PROVE UploadsOK' /\ ShownOK'
    <3>1. End(p) /\ InState(p, {"reading", "sent"}) = {}
      BY <2>19 DEF RunEnds, PushEnds, Done
    <3>2. \A u \in uploads : u.state = "reading" => work'[u.by] = work[u.by]
      BY <2>1, <3>1 DEF InState, End
    <3>3. CASE RunEnds(p)
      BY <2>6, <3>2, <3>3 DEF RunEnds
    <3>4. CASE PushEnds(p)
      BY <2>1, <2>3, <3>2, <3>4 DEF PushEnds
    <3>5. QED
      BY <2>19, <3>3, <3>4
  <2>20. QED
    BY <2>4, <2>5, <2>7, <2>8, <2>9, <2>10, <2>11, <2>12, <2>13, <2>14, <2>15, <2>17, <2>18,
       <2>19 DEF Next
<1>3. QED
  BY <1>1, <1>2, TypeCorrect, RetentionSuffices, PTL DEF Spec

-----------------------------------------------------------------------------
\* Of the charges read one is of the latest month.
LEMMA Newest ==
  ASSUME NEW T, IsFiniteSet(T), T # {}, NEW ord \in [T -> Int]
  PROVE  \E k \in T : \A j \in T : ord[j] <= ord[k]
<1> DEFINE later == [k \in T |-> {j \in T : ord[j] > ord[k]}]
           F == {later[k] : k \in T}
<1>1. F \subseteq SUBSET T /\ F # {}
  OBVIOUS
<1>2. PICK L \in F : \A U \in F : U \subseteq L => U = L
  <2> HIDE DEF F
  <2>1. QED
    BY <1>1, SmallestSet
<1>3. PICK k \in T : L = later[k]
  OBVIOUS
<1>4. ASSUME NEW j \in T, ~(ord[j] <= ord[k]) PROVE FALSE
  <2>1. j \in later[k] /\ j \notin later[j]
    BY <1>4
  <2>2. later[j] \subseteq later[k]
    BY <1>4
  <2>3. QED
    BY <1>2, <1>3, <2>1, <2>2
<1>5. QED
  BY <1>4

\* The estimate computed from what is read is that of what was billed of the
\* subscription: both figures are sums over the same charges.
LEMMA EstimateIsABalance ==
  ASSUME NEW s, NEW x, Picked(s, x, {}), x.charges \subseteq Charges, x.billed \subseteq Charges
  PROVE  Estimate(x.charges, x.anchor) \in Balances(x.billed, x.anchor)
<1> DEFINE read == x.charges
           due == Due(x.billed, x.anchor)
           months == {Bill[c].month : c \in due}
           of(m) == CHOOSE c \in read : Bill[c].month = m
           pick == [m \in months |-> Bill[of(m)].agreement]
           part == {c \in due : Bill[c].agreement = pick[Bill[c].month]}
<1>1. /\ due = x.billed /\ read \subseteq due /\ due \subseteq Charges
      /\ \A c \in due : c \in Of(s) /\ \E d \in read : Bill[d].month = Bill[c].month
      /\ \A c \in read, d \in due :
           Bill[c].month = Bill[d].month => (d \in read <=> Row(d) = Row(c))
  BY DEF Picked, Due
<1> HIDE DEF due, read
<1>2. ASSUME NEW m \in months
      PROVE  of(m) \in read /\ Bill[of(m)].month = m /\ pick[m] = Bill[of(m)].agreement
  <2>1. \E c \in read : Bill[c].month = m
    BY <1>1
  <2>2. QED
    BY <2>1
<1> HIDE DEF of, pick
<1>3. ASSUME NEW c \in due PROVE c \in read <=> Bill[c].agreement = pick[Bill[c].month]
  <2> DEFINE e == of(Bill[c].month)
  <2>1. e \in read /\ Bill[e].month = Bill[c].month /\ pick[Bill[c].month] = Bill[e].agreement
    BY <1>2
  <2> HIDE DEF e
  <2>2. c \in read <=> Row(c) = Row(e)
    BY <1>1, <2>1
  <2>3. Bill[c].subscription = s /\ Bill[e].subscription = s
    BY <1>1, <2>1 DEF Of
  <2>4. QED
    BY <2>1, <2>2, <2>3 DEF Row
<1>4. part = read
  BY <1>1, <1>3
<1>5. /\ pick \in [months -> Agreements]
      /\ \A m \in months : \E c \in due : Bill[c].month = m /\ Bill[c].agreement = pick[m]
  <2>1. pick = [m \in months |-> pick[m]]
    BY DEF pick
  <2>2. ASSUME NEW m \in months
        PROVE  \E c \in due : Bill[c].month = m /\ Bill[c].agreement = pick[m]
    BY <1>1, <1>2
  <2>3. \A m \in months : pick[m] \in Agreements
    BY <1>1, <2>2 DEF Agreements
  <2>4. QED
    BY <2>1, <2>2, <2>3
<1>6. Estimate(read, x.anchor) = Balance(read)
  <2>1. CASE read = {}
    BY <2>1 DEF Estimate, Balance
  <2>2. CASE read # {}
    <3> DEFINE latest == Latest(read)
               last == CHOOSE c \in read : \A d \in read :
                         Ordinal(Bill[d].month) <= Ordinal(Bill[c].month)
    <3>1. /\ read \subseteq Charges
          /\ \A c \in Charges : Bill[c].month \in Months /\ Ordinal(Bill[c].month) \in Int
      BY <1>1, FeedAssumption DEF FeedAssumption, Months, Ordinal, MonthsPerYear
    <3>2. last \in read /\ \A d \in read : Ordinal(Bill[d].month) <= Ordinal(Bill[last].month)
      <4> DEFINE ord == [c \in read |-> Ordinal(Bill[c].month)]
      <4>1. IsFiniteSet(read) /\ ord \in [read -> Int]
        BY <3>1, FeedAssumption, FS_Subset DEF FeedAssumption
      <4>2. PICK c \in read : \A d \in read : ord[d] <= ord[c]
        <5> HIDE DEF ord
        <5>1. QED
          BY <2>2, <4>1, Newest
      <4>3. \A d \in read : Ordinal(Bill[d].month) <= Ordinal(Bill[c].month)
        BY <4>2
      <4>4. QED
        BY <4>3
    <3> HIDE DEF last
    <3>3. PICK e \in read :
            /\ latest = Row(e)
            /\ \A d \in read : Ordinal(Bill[d].month) <= Ordinal(Bill[e].month)
      <4>1. Row(last) \in {Row(c) : c \in read} /\ Row(last).month = Bill[last].month
        BY <3>2 DEF Row
      <4>2. /\ latest \in {Row(c) : c \in read}
            /\ \A d \in read : Ordinal(Bill[d].month) <= Ordinal(latest.month)
        BY <3>2, <4>1 DEF Latest
      <4>3. \A c \in read : Row(c).month = Bill[c].month
        BY DEF Row
      <4> HIDE DEF latest
      <4>4. QED
        BY <4>2, <4>3
    <3> HIDE DEF latest
    <3>4. Bill[e].month = Bill[last].month
      <4>1. /\ Bill[e].month \in Months /\ Bill[last].month \in Months
            /\ Ordinal(Bill[e].month) \in Int /\ Ordinal(Bill[last].month) \in Int
        BY <3>1, <3>2
      <4>2. Ordinal(Bill[e].month) = Ordinal(Bill[last].month)
        BY <3>2, <3>3, <4>1
      <4>3. QED
        BY <4>1, <4>2, OrdinalsDiffer
    <3>5. ASSUME NEW c \in read PROVE Row(c) = latest <=> Bill[c].month = Bill[last].month
      <4>1. CASE Row(c) = latest
        BY <3>3, <3>4, <4>1 DEF Row
      <4>2. CASE Bill[c].month = Bill[last].month
        BY <1>1, <3>3, <3>4, <4>2
      <4>3. QED
        BY <4>1, <4>2
    <3>6. {c \in read : Row(c) = latest} = {c \in read : Bill[c].month = Bill[last].month}
      BY <3>5
    <3>7. Estimate(read, x.anchor) =
            <<NonNegative(Amount({c \in read : Row(c) = latest})), NonNegative(Amount(read))>>
      BY <2>2 DEF Estimate, latest
    <3>8. Balance(read) =
            <<NonNegative(Amount({c \in read : Bill[c].month = Bill[last].month})),
              NonNegative(Amount(read))>>
      BY <2>2 DEF Balance, last
    <3>9. QED
      BY <3>6, <3>7, <3>8
  <2>3. QED
    BY <2>1, <2>2
<1>7. Balance(part) \in Balances(x.billed, x.anchor)
  BY <1>5 DEF Balances, due
<1>8. QED
  BY <1>4, <1>6, <1>7 DEF read

(***************************************************************************)
(* An estimate the platform shows, however late it landed, is that of all  *)
(* that was billed of the subscription and not deleted, each month as it   *)
(* was when read: that nothing it sums up has been pruned is               *)
(* RetentionSuffices.                                                      *)
(***************************************************************************)
THEOREM EstimatesAreBalances == Spec => []ShowsABalance
<1>1. StateOK /\ ShownOK => ShowsABalance
  <2> SUFFICES ASSUME StateOK, ShownOK, NEW s \in Subscriptions, source[s].day > 0
               PROVE  shown[s] \in Balances(source[s].billed, source[s].anchor)
    BY DEF ShowsABalance
  <2>1. source[s].charges \subseteq Charges /\ source[s].billed \subseteq Charges
    BY DEF StateOK, SourceType
  <2>2. Picked(s, source[s], {}) /\ shown[s] = Estimate(source[s].charges, source[s].anchor)
    BY DEF ShownOK, Faithful
  <2>3. QED
    BY <2>1, <2>2, EstimateIsABalance
<1>2. QED
  BY <1>1, StateCorrect, FeedInvariant, PTL

-----------------------------------------------------------------------------
(***************************************************************************)
(* An estimate that is no longer that of what was billed is found by the   *)
(* days the rows were written on, unless a row it lacks is gone.           *)
(***************************************************************************)
THEOREM StaleEstimatesAreFound == Spec => []StaleIsTraceable
<1>1. StateOK /\ ShownOK /\ ShowsABalance => StaleIsTraceable
  <2> SUFFICES ASSUME StateOK, ShownOK, ShowsABalance, NEW s \in Subscriptions,
                      source[s].day > 0, ~source[s].lost,
                      Due(counted \cap Of(s), source[s].anchor) \subseteq stored \cup source[s].billed
               PROVE  \/ shown[s] \in Balances(Due(counted \cap Of(s), source[s].anchor),
                                               source[s].anchor)
                      \/ \E k \in RowsOf(s) : /\ InWindow(k.month, source[s].anchor)
                                              /\ stamp[k] >= source[s].day
    BY DEF StaleIsTraceable
  <2> DEFINE due == Due(counted \cap Of(s), source[s].anchor)
             billed == source[s].billed
  <2>1. Picked(s, source[s], {}) /\ Fresh(s, source[s], {})
    BY DEF ShownOK, Faithful
  <2>2. billed \subseteq due
    BY <2>1 DEF Picked, Fresh, Due
  <2>3. CASE due \subseteq billed
    <3>1. due = billed
      BY <2>2, <2>3
    <3>2. QED
      BY <3>1 DEF ShowsABalance
  <2>4. CASE ~(due \subseteq billed)
    <3>1. PICK c \in due : c \notin billed
      BY <2>4
    <3>2. c \in stored \cap Of(s) /\ InWindow(Bill[c].month, source[s].anchor)
      BY <3>1 DEF Due
    <3>3. stamp[Row(c)] >= source[s].day
      BY <2>1, <3>1, <3>2 DEF Fresh
    <3>4. Row(c) \in RowsOf(s) /\ Row(c).month = Bill[c].month
      BY <3>2 DEF RowsOf, Row, Of
    <3>5. QED
      BY <3>2, <3>3, <3>4
  <2>5. QED
    BY <2>3, <2>4
<1>2. QED
  BY <1>1, StateCorrect, FeedInvariant, EstimatesAreBalances, PTL

-----------------------------------------------------------------------------
(***************************************************************************)
(* A push of a past day: no row can come to be of that day any more, so    *)
(* those it found at the start are all there are, and each is of an id     *)
(* still to be read, of an upload on its way, or shown by an estimate read *)
(* later than that day, and not given up for another one read before.      *)
(***************************************************************************)
Pending(p, s, d) ==
  \/ s \in work[p].ids
  \/ \E u \in InState(p, {"reading", "sent"}) : u.subscription = s /\ u.day > d
  \/ newest[s] > d

Traced ==
  /\ written = stamp
  /\ \A d \in swept : d < day
  /\ \A p \in Commands : work[p].updatedOn < day
  /\ \A p \in Commands : work[p].updatedOn > 0 /\ ~work[p].failed =>
       \A k \in Rows : written[k] = work[p].updatedOn /\ k.subscription \notin Synthetic =>
         Pending(p, k.subscription, work[p].updatedOn)
  /\ \A k \in Rows : written[k] \in swept /\ k.subscription \notin Synthetic =>
       newest[k.subscription] > written[k]

\* What a step has to leave of a command, of its rows and of its uploads.
GoesOn(p) ==
  \/ work'[p].updatedOn = 0
  \/ /\ work'[p].updatedOn = work[p].updatedOn
     /\ ~work'[p].failed =>
          /\ ~work[p].failed
          /\ \A s \in Subscriptions, d \in Nat :
               d < day /\ Pending(p, s, d) => Pending(p, s, d)'
  \/ /\ work'[p].updatedOn < day
     /\ \A k \in Rows : written[k] = work'[p].updatedOn /\ k.subscription \notin Synthetic =>
          k.subscription \in work'[p].ids

LEMMA TracedStays ==
  ASSUME StateOK, Traced, StateOK', written' = stamp', swept' = swept, day' >= day,
         \A k \in Rows : written'[k] \in {written[k], 0, day},
         \A s \in Subscriptions : newest'[s] >= newest[s],
         \A p \in Commands : GoesOn(p)
  PROVE  Traced'
<1>1. /\ day \in Nat /\ day' \in Nat /\ day >= 1
      /\ \A p \in Commands : work[p].updatedOn \in Nat /\ work'[p].updatedOn \in Nat
      /\ \A k \in Rows : written[k] \in Nat /\ written'[k] \in Nat /\ k.subscription \in Subscriptions
      /\ \A s \in Subscriptions : newest[s] \in Nat /\ newest'[s] \in Nat
      /\ \A d \in swept : d \in 1..MaxDay
  BY FeedAssumption DEF StateOK, WorkType, FeedAssumption, Rows, Row
<1>2. \A d \in swept' : d < day'
  BY <1>1 DEF Traced, StateOK
<1>3. \A p \in Commands : work'[p].updatedOn < day'
  BY <1>1 DEF Traced, GoesOn
<1>4. ASSUME NEW p \in Commands, work'[p].updatedOn > 0, ~work'[p].failed,
             NEW k \in Rows, written'[k] = work'[p].updatedOn, k.subscription \notin Synthetic
      PROVE  Pending(p, k.subscription, work[p].updatedOn)'
  <2>1. PICK d \in Nat, s \in Subscriptions : d = work'[p].updatedOn /\ s = k.subscription
    BY <1>1
  <2>2. d < day /\ d > 0
    BY <1>1, <1>4, <2>1 DEF Traced, GoesOn
  <2>3. written[k] = d
    BY <1>1, <1>4, <2>1, <2>2
  <2>4. Pending(p, s, d)'
    <3>1. CASE s \in work'[p].ids
      BY <3>1 DEF Pending
    <3>2. CASE /\ work'[p].updatedOn = work[p].updatedOn /\ ~work[p].failed
               /\ Pending(p, s, d) => Pending(p, s, d)'
      BY <1>4, <2>1, <2>2, <2>3, <3>2 DEF Traced
    <3>3. QED
      BY <1>4, <2>1, <2>2, <2>3, <3>1, <3>2 DEF GoesOn
  <2>5. QED
    BY <2>1, <2>4 DEF Pending, InState
<1>5. ASSUME NEW k \in Rows, written'[k] \in swept', k.subscription \notin Synthetic
      PROVE  newest'[k.subscription] > written'[k]
  <2>1. written'[k] = written[k]
    BY <1>1, <1>5 DEF Traced
  <2>2. newest[k.subscription] > written[k]
    BY <1>5, <2>1 DEF Traced
  <2>3. QED
    BY <1>1, <2>1, <2>2
<1>6. QED
  BY <1>2, <1>3, <1>4, <1>5 DEF Traced

\* A command goes on as long as its ids and its uploads do, or what they uploaded
\* has landed.
LEMMA PendingStays ==
  ASSUME StateOK, StateOK', NEW p \in Commands, work'[p].ids = work[p].ids,
         \A s \in Subscriptions : newest'[s] >= newest[s],
         \A u \in InState(p, {"reading", "sent"}) :
           \/ newest'[u.subscription] >= u.day
           \/ \E v \in uploads' : /\ v.by = p /\ v.state \in {"reading", "sent"}
                                  /\ v.subscription = u.subscription /\ v.day = u.day
  PROVE  \A s \in Subscriptions, d \in Nat : Pending(p, s, d) => Pending(p, s, d)'
<1> SUFFICES ASSUME NEW s \in Subscriptions, NEW d \in Nat, Pending(p, s, d)
             PROVE  Pending(p, s, d)'
  OBVIOUS
<1>1. newest[s] \in Nat /\ newest'[s] \in Nat
  BY FeedAssumption DEF StateOK, FeedAssumption
<1>2. CASE s \in work[p].ids
  BY <1>2 DEF Pending
<1>3. CASE newest[s] > d
  BY <1>1, <1>3 DEF Pending
<1>4. ASSUME NEW u \in InState(p, {"reading", "sent"}), u.subscription = s, u.day > d
      PROVE  Pending(p, s, d)'
  <2>1. u.day \in Nat
    BY DEF InState, StateOK, UploadType
  <2>2. CASE newest'[s] >= u.day
    BY <1>1, <1>4, <2>1, <2>2 DEF Pending
  <2>3. ASSUME NEW v \in uploads', v.by = p, v.state \in {"reading", "sent"},
               v.subscription = s, v.day = u.day
        PROVE  Pending(p, s, d)'
    BY <1>4, <2>3 DEF Pending, InState
  <2>4. QED
    BY <1>4, <2>2, <2>3
<1>5. QED
  BY <1>2, <1>3, <1>4 DEF Pending

(***************************************************************************)
(* A past day once pushed by updated-at without a failure is dealt with,   *)
(* but for a late PUT read before: the rows last written on it are summed  *)
(* in an estimate read after it, and that is a complete one.               *)
(***************************************************************************)
THEOREM SweptDaysStayShown == Spec => []SweptDaysAreShown
<1>1. Init => Traced
  BY DEF Init, Traced, Idle
<1>2. StateOK /\ StateOK' /\ Traced /\ [Next]_vars => Traced'
  <2> SUFFICES ASSUME StateOK, StateOK', Traced, [Next]_vars PROVE Traced'
    OBVIOUS
  <2> USE DEF clock, platform
  <2>1. /\ day \in Nat /\ day' \in Nat /\ MaxDay \in Nat /\ work \in [Commands -> WorkType]
        /\ \A p \in Commands : work[p].updatedOn \in Nat
        /\ \A s \in Subscriptions : newest[s] \in Nat
        /\ \A u \in uploads : u \in UploadType /\ u.by \in Commands
        /\ written = stamp
    BY FeedAssumption DEF StateOK, WorkType, UploadType, FeedAssumption, Traced
  <2>2. ASSUME NEW p \in Commands,
               \/ work'[p].updatedOn = 0
               \/ /\ work'[p].updatedOn = work[p].updatedOn
                  /\ work'[p].ids = work[p].ids
                  /\ ~work'[p].failed =>
                       /\ ~work[p].failed
                       /\ \A u \in InState(p, {"reading", "sent"}) :
                            \/ newest'[u.subscription] >= u.day
                            \/ \E v \in uploads' :
                                 /\ v.by = p /\ v.state \in {"reading", "sent"}
                                 /\ v.subscription = u.subscription /\ v.day = u.day,
               \A s \in Subscriptions : newest'[s] >= newest[s]
        PROVE  GoesOn(p)
    BY <2>2, PendingStays DEF GoesOn
  <2>3. ASSUME NEW p \in Commands, work'[p] = work[p], newest' = newest,
               \A u \in InState(p, {"reading", "sent"}) :
                 \E v \in uploads' : /\ v.by = p /\ v.state \in {"reading", "sent"}
                                     /\ v.subscription = u.subscription /\ v.day = u.day
        PROVE  GoesOn(p)
    BY <2>1, <2>2, <2>3
  <2>4. CASE UNCHANGED <<rows, work, uploads, newest, swept>> /\ day' >= day
    <3>1. \A p \in Commands : GoesOn(p)
      BY <2>3, <2>4 DEF InState
    <3>2. QED
      BY <2>1, <2>4, <3>1, TracedStays DEF rows
  <2>5. CASE UNCHANGED vars
    BY <2>1, <2>4, <2>5 DEF vars
  <2>6. CASE Midnight
    BY <2>1, <2>4, <2>6 DEF Midnight
  <2>7. ASSUME NEW cs, NEW upserted, SetRows(cs, upserted)
        PROVE  written' = stamp' /\ \A k \in Rows : written'[k] \in {written[k], 0, day}
    BY <2>1, <2>7 DEF SetRows, Stamp
  <2>8. ASSUME NEW cs, NEW upserted, SetRows(cs, upserted),
               UNCHANGED <<day, newest, uploads, swept>>,
               \A p \in Commands : work'[p] = work[p] \/ work'[p].updatedOn = 0
        PROVE  Traced'
    <3>1. \A p \in Commands : GoesOn(p)
      BY <2>1, <2>2, <2>3, <2>8 DEF InState
    <3>2. QED
      BY <2>1, <2>7, <2>8, <3>1, TracedStays
  <2>9. CASE CleanUp
    BY <2>8, <2>9 DEF CleanUp, Prune
  <2>10. CASE Delete
    <3>1. PICK s \in Subscriptions :
            /\ SetRows(stored \ Of(s), {})
            /\ uploads' = {IF u.subscription = s THEN [u EXCEPT !.lost = TRUE] ELSE u : u \in uploads}
            /\ UNCHANGED <<day, work, newest, swept>>
      BY <2>10 DEF Delete
    <3>2. ASSUME NEW u \in uploads
          PROVE  \E v \in uploads' : /\ v.by = u.by /\ v.state = u.state
                                     /\ v.subscription = u.subscription /\ v.day = u.day
      <4>1. [u EXCEPT !.lost = TRUE] \in uploads' \/ u \in uploads'
        BY <3>1
      <4>2. QED
        BY <2>1, <4>1 DEF UploadType
    <3>3. \A p \in Commands : GoesOn(p)
      <4> SUFFICES ASSUME NEW p \in Commands, NEW u \in InState(p, {"reading", "sent"})
                   PROVE  \E v \in uploads' : /\ v.by = p /\ v.state \in {"reading", "sent"}
                                              /\ v.subscription = u.subscription /\ v.day = u.day
        BY <2>3, <3>1
      <4>1. QED
        BY <3>2 DEF InState
    <3>4. QED
      BY <2>1, <2>7, <3>1, <3>3, TracedStays
  <2>11. ASSUME NEW p \in Commands, Run(p) PROVE Traced'
    <3>1. PICK cs \in SUBSET Billable :
            /\ work' = [work EXCEPT ![p] = Persisted(cs)]
            /\ SetRows(stored \cup cs, {Row(c) : c \in cs})
            /\ UNCHANGED <<day, newest, uploads, swept>>
      BY <2>11 DEF Run, Begin
    <3>2. Persisted(cs).updatedOn = 0
      BY DEF Persisted, Idle
    <3>3. \A q \in Commands : work'[q] = work[q] \/ work'[q].updatedOn = 0
      BY <2>1, <3>1, <3>2
    <3>4. QED
      BY <2>8, <3>1, <3>3
  <2>12. ASSUME NEW p \in Commands, RunPushes(p) PROVE Traced'
    <3>1. /\ \A q \in Commands : /\ work'[q].updatedOn = work[q].updatedOn
                                 /\ work'[q].failed = work[q].failed
                                 /\ work'[q].ids = work[q].ids
          /\ UNCHANGED <<day, rows, uploads, newest, swept>>
      BY <2>1, <2>12 DEF RunPushes, WorkType
    <3>2. \A q \in Commands : GoesOn(q)
      BY <2>1, <2>2, <3>1 DEF InState
    <3>3. QED
      BY <2>1, <3>1, <3>2, TracedStays DEF rows
  <2>13. ASSUME NEW p \in Commands, NEW targets, NEW date \in 0..day, Push(p, targets, date),
                \A k \in Rows : date > 0 /\ stamp[k] = date => k.subscription \in targets
         PROVE  Traced'
    <3>1. /\ work' = [work EXCEPT ![p] = Pushing(targets, date)]
          /\ UNCHANGED <<day, rows, uploads, newest, swept>>
      BY <2>13 DEF Push, Begin
    <3>2. /\ Pushing(targets, date).updatedOn = (IF date = day THEN 0 ELSE date)
          /\ Pushing(targets, date).ids = targets \ Synthetic
      BY DEF Pushing, Idle
    <3>3. work'[p] = Pushing(targets, date) /\ \A q \in Commands \ {p} : work'[q] = work[q]
      BY <2>1, <3>1
    <3>4. GoesOn(p)
      BY <2>1, <2>13, <3>2, <3>3 DEF GoesOn
    <3>5. \A q \in Commands \ {p} : GoesOn(q)
      BY <2>3, <3>1, <3>3 DEF InState
    <3>6. QED
      BY <2>1, <3>1, <3>4, <3>5, TracedStays DEF rows
  <2>14. ASSUME NEW p \in Commands, ById(p) PROVE Traced'
    <3>1. PICK targets : Push(p, targets, 0)
      BY <2>14 DEF ById
    <3>2. QED
      BY <2>1, <2>13, <3>1
  <2>15. ASSUME NEW p \in Commands, ByUpdatedAt(p) PROVE Traced'
    <3>1. PICK date \in 1..day : Push(p, {k.subscription : k \in UpdatedOn(date)}, date)
      BY <2>15 DEF ByUpdatedAt
    <3>2. \A k \in Rows : stamp[k] = date =>
            k.subscription \in {j.subscription : j \in UpdatedOn(date)}
      BY DEF UpdatedOn
    <3>3. date \in 0..day
      BY <2>1
    <3>4. QED
      BY <2>13, <3>1, <3>2, <3>3
  <2>16. ASSUME NEW p \in Commands, NextId(p) PROVE Traced'
    <3>1. PICK s \in work[p].ids :
            /\ work' = [work EXCEPT ![p].ids = @ \ {s}]
            /\ uploads' = uploads \cup {Upload(p, s)}
            /\ UNCHANGED <<day, rows, newest, swept>>
      BY <2>16 DEF NextId
    <3>2. /\ work'[p].updatedOn = work[p].updatedOn /\ work'[p].failed = work[p].failed
          /\ work'[p].ids = work[p].ids \ {s}
          /\ \A q \in Commands \ {p} : work'[q] = work[q]
      BY <2>1, <3>1 DEF WorkType
    <3>3. \A t \in Subscriptions, d \in Nat : d < day /\ Pending(p, t, d) => Pending(p, t, d)'
      <4> SUFFICES ASSUME NEW t \in Subscriptions, NEW d \in Nat, d < day, Pending(p, t, d)
                   PROVE  Pending(p, t, d)'
        OBVIOUS
      <4>1. CASE t = s
        <5>1. /\ Upload(p, s) \in uploads' /\ Upload(p, s).by = p /\ Upload(p, s).state = "reading"
              /\ Upload(p, s).subscription = t /\ Upload(p, s).day = day
          BY <3>1, <4>1 DEF Upload
        <5>2. QED
          BY <5>1 DEF Pending, InState
      <4>2. CASE t # s
        BY <3>1, <3>2, <4>2 DEF Pending, InState
      <4>3. QED
        BY <4>1, <4>2
    <3>4. GoesOn(p)
      BY <3>2, <3>3 DEF GoesOn
    <3>5. \A q \in Commands \ {p} : GoesOn(q)
      BY <2>3, <3>1, <3>2 DEF InState
    <3>6. QED
      BY <2>1, <3>1, <3>4, <3>5, TracedStays DEF rows
  <2>17. ASSUME NEW u \in uploads, NEW v, Become(u, v),
                v.by = u.by, v.subscription = u.subscription, v.day = u.day,
                v.state \in {"reading", "sent"},
                UNCHANGED <<day, rows, work, newest, swept>>
         PROVE  Traced'
    <3>1. \A p \in Commands : GoesOn(p)
      BY <2>3, <2>17 DEF InState, Become
    <3>2. QED
      BY <2>1, <2>17, <3>1, TracedStays DEF rows
  <2>18. ASSUME NEW u \in uploads, ReadMonth(u) PROVE Traced'
    <3>1. PICK m \in u.unread : \E row : Become(u, WithMonth(u, m, row))
      BY <2>18 DEF ReadMonth
    <3>2. PICK row : Become(u, WithMonth(u, m, row))
      BY <3>1
    <3>3. /\ WithMonth(u, m, row).by = u.by /\ WithMonth(u, m, row).subscription = u.subscription
          /\ WithMonth(u, m, row).day = u.day /\ WithMonth(u, m, row).state = u.state
      BY <2>1 DEF WithMonth, UploadType
    <3>4. u.state = "reading" /\ UNCHANGED <<day, rows, work, newest, swept>>
      BY <2>18 DEF ReadMonth
    <3>5. QED
      BY <2>17, <3>2, <3>3, <3>4
  <2>19. ASSUME NEW u \in uploads, Send(u) PROVE Traced'
    <3> DEFINE v == [u EXCEPT !.state = "sent"]
    <3>1. v.by = u.by /\ v.subscription = u.subscription /\ v.day = u.day /\ v.state = "sent"
      BY <2>1 DEF UploadType
    <3>2. Become(u, v) /\ UNCHANGED <<day, rows, work, newest, swept>>
      BY <2>19 DEF Send
    <3> HIDE DEF v
    <3>3. QED
      BY <2>17, <3>1, <3>2
  <2>20. ASSUME NEW p \in Commands, Fail(p), UNCHANGED <<day, rows, newest, swept>>,
                \A u \in uploads : u.by # p => u \in uploads'
         PROVE  Traced'
    <3>1. \A q \in Commands : GoesOn(q)
      BY <2>1, <2>2, <2>3, <2>20, FailType DEF InState
    <3>2. QED
      BY <2>1, <2>20, <3>1, TracedStays DEF rows
  <2>21. ASSUME NEW u \in uploads, Refuse(u) PROVE Traced'
    BY <2>1, <2>20, <2>21 DEF Refuse
  <2>22. ASSUME NEW u \in uploads, PutFails(u) PROVE Traced'
    BY <2>1, <2>20, <2>22 DEF PutFails, Abandon
  <2>23. ASSUME NEW u \in uploads, PutLands(u) \/ StrayLands(u) PROVE Traced'
    <3>1. /\ Shown(u) /\ UNCHANGED <<day, rows, swept>>
          /\ UNCHANGED work \/ Fail(u.by)
      BY <2>23 DEF PutLands, StrayLands
    <3>2. /\ uploads' = uploads \ {u} /\ newest'[u.subscription] >= u.day
          /\ \A s \in Subscriptions : newest'[s] >= newest[s]
      BY <3>1, ShownDoes
    <3>3. /\ \A q \in Commands : work'[q].updatedOn = work[q].updatedOn /\ work'[q].ids = work[q].ids
          /\ \A q \in Commands : ~work'[q].failed => ~work[q].failed
      BY <2>1, <3>1, FailType DEF WorkType
    <3>4. ASSUME NEW q \in Commands PROVE GoesOn(q)
      <4>1. \A v \in InState(q, {"reading", "sent"}) :
              \/ newest'[v.subscription] >= v.day
              \/ v \in uploads' /\ v.by = q /\ v.state \in {"reading", "sent"}
        BY <3>2 DEF InState
      <4>2. QED
        BY <2>2, <3>2, <3>3, <4>1
    <3>5. QED
      BY <2>1, <3>1, <3>2, <3>4, TracedStays DEF rows
  <2>24. ASSUME NEW p \in Commands, End(p)
         PROVE  work'[p].updatedOn = 0 /\ \A q \in Commands \ {p} : work'[q] = work[q]
    BY <2>1, <2>24 DEF End, Idle
  <2>25. ASSUME NEW p \in Commands, Break(p) PROVE Traced'
    <3>1. PICK late : Abandon(InState(p, {"reading", "sent"}), late)
      BY <2>25 DEF Break
    <3>2. End(p) /\ UNCHANGED <<day, rows, newest, swept>>
      BY <2>25 DEF Break
    <3>3. \A u \in uploads : u.by # p => u \in uploads'
      BY <3>1 DEF Abandon, InState
    <3>4. \A q \in Commands : GoesOn(q)
      BY <2>1, <2>2, <2>3, <2>24, <3>2, <3>3 DEF InState
    <3>5. QED
      BY <2>1, <3>2, <3>4, TracedStays DEF rows
  <2>26. ASSUME NEW p \in Commands, RunEnds(p) PROVE Traced'
    BY <2>8, <2>24, <2>26 DEF RunEnds, Prune
  <2>27. ASSUME NEW p \in Commands, PushEnds(p) PROVE Traced'
    <3>1. /\ End(p) /\ work[p].ids = {} /\ InState(p, {"reading", "sent"}) = {}
          /\ UNCHANGED <<day, rows, uploads, newest>>
      BY <2>27 DEF PushEnds, Done
    <3>2. \A q \in Commands : GoesOn(q)
      BY <2>1, <2>2, <2>3, <2>24, <3>1 DEF InState
    <3>3. CASE swept' = swept
      BY <2>1, <3>1, <3>2, <3>3, TracedStays DEF rows
    <3>4. CASE /\ ~work[p].failed /\ work[p].updatedOn > 0
               /\ swept' = swept \cup {work[p].updatedOn}
      <4>1. \A k \in Rows : written[k] = work[p].updatedOn /\ k.subscription \notin Synthetic =>
              newest[k.subscription] > written[k]
        BY <3>1, <3>4 DEF Traced, Pending
      <4>2. /\ written' = stamp' /\ \A d \in swept' : d < day'
            /\ \A k \in Rows : written'[k] \in swept' /\ k.subscription \notin Synthetic =>
                 newest'[k.subscription] > written'[k]
        BY <2>1, <3>1, <3>4, <4>1 DEF rows, Traced
      <4>3. /\ \A q \in Commands : work'[q].updatedOn < day'
            /\ \A q \in Commands : work'[q].updatedOn > 0 /\ ~work'[q].failed =>
                 \A k \in Rows : written'[k] = work'[q].updatedOn /\ k.subscription \notin Synthetic =>
                   Pending(q, k.subscription, work[q].updatedOn)'
        BY <2>1, <2>24, <3>1 DEF rows, Traced, Pending, InState, StateOK
      <4>4. QED
        BY <4>2, <4>3 DEF Traced
    <3>5. QED
      BY <2>27, <3>3, <3>4 DEF PushEnds
  <2>28. QED
    BY <2>5, <2>6, <2>9, <2>10, <2>11, <2>12, <2>14, <2>15, <2>16, <2>18, <2>19, <2>21, <2>22,
       <2>23, <2>25, <2>26, <2>27 DEF Next
<1>3. StateOK /\ Traced /\ ShownOK => SweptDaysAreShown
  <2> SUFFICES ASSUME StateOK, Traced, ShownOK, NEW k \in Rows,
                      written[k] \in swept, k.subscription \notin Synthetic,
                      InWindow(k.month, source[k.subscription].anchor),
                      source[k.subscription].day = newest[k.subscription]
               PROVE  \/ InRow(k) \subseteq source[k.subscription].charges
                      \/ \E c \in source[k.subscription].charges :
                           Bill[c].month = k.month /\ Row(c) # k
    BY DEF SweptDaysAreShown
  <2> DEFINE s == k.subscription
  <2>1. /\ s \in Subscriptions /\ written[k] \in Nat /\ written[k] > 0
        /\ source[s].day > written[k] /\ source[s].day \in Nat
    BY FeedAssumption DEF StateOK, SourceType, FeedAssumption, Rows, Row, Traced
  <2>2. Complete(s, source[s], {})
    BY <2>1 DEF ShownOK, Faithful
  <2>3. QED
    BY <2>1, <2>2 DEF Complete
<1>4. QED
  BY <1>1, <1>2, <1>3, StateCorrect, FeedInvariant, PTL DEF Spec
=============================================================================
