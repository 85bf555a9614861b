---------------------- MODULE StatementSelectionProofs ----------------------
(***************************************************************************)
(* What the runs of successive days count, for any statements, runners and *)
(* number of days.                                                         *)
(***************************************************************************)
EXTENDS StatementSelection, FiniteSetTheorems, TLAPS

\* A statement has a date for the status it has, and had.
DatesOK ==
  \A st \in Statements, pass \in Passes :
    /\ status[st] = pass => date[st][pass] \in 1..today
    /\ date[st][pass] # None => status[st] \in {pass, "Cancelled"}

\* What a pass has returned: statements dated in the window, and among them all
\* that have had their status since before the command began.
PassOK(r, pass) ==
  /\ phase[r] = "idle" => selected[r][pass] = None
  /\ selected[r][pass] # None =>
       /\ \A st \in selected[r][pass] :
            date[st][pass] \in Days /\ Within(date[st][pass], window[r])
       /\ \A st \in Statements :
            /\ status[st] = pass
            /\ date[st][pass] \in over[r]
            /\ Within(date[st][pass], window[r])
            => st \in selected[r][pass]

PassesOK == \A r \in Runners, pass \in Passes : PassOK(r, pass)

\* The windows at work share no day with each other nor with those counted, and
\* a full recalculate is alone.
WindowsOK ==
  /\ settled \subseteq 0..today - 1
  /\ \A r \in Busy :
       /\ over[r] \subseteq 0..today - 1
       /\ window[r] # Unbounded => DaysOf(window[r]) \cap ran = {}
       /\ window[r] = Unbounded => settled \subseteq over[r]
       /\ \A other \in Busy \ {r} :
            window[r] # Unbounded /\ DaysOf(window[r]) \cap DaysOf(window[other]) = {}

IInv == TypeOK /\ DatesOK /\ PassesOK /\ WindowsOK

-----------------------------------------------------------------------------
\* The window of a run is not empty and lies within the days there are.
LEMMA WindowOfRun ==
  ASSUME TypeOK, NEW options \in Options, Accepted(options), FinalDay(options) <= today
  PROVE  /\ ResolveWindow(options) \in Windows
         /\ ResolveWindow(options) # Unbounded
         /\ DaysOf(ResolveWindow(options)) \subseteq 0..LastDay
         /\ DaysOf(ResolveWindow(options)) \cap DaysOf(Unbounded) # {}
<1>1. today \in 1..LastDay /\ LastDay \in Nat
  BY SelectionAssumption DEF TypeOK, Days, SelectionAssumption
<1>2. FirstDay(options) \in 0..LastDay /\ FinalDay(options) \in 0..LastDay
  BY <1>1 DEF Options, Days, FirstDay, FinalDay
<1>3. FirstDay(options) <= FinalDay(options)
  BY DEF Accepted
<1>4. ResolveWindow(options) \in Windows
  BY <1>1, <1>2 DEF ResolveWindow, Windows
<1>5. ResolveWindow(options) # Unbounded
  BY <1>4, SelectionAssumption DEF Unbounded, SelectionAssumption
<1>6. DaysOf(ResolveWindow(options)) = FirstDay(options)..FinalDay(options)
  BY <1>2, <1>5 DEF DaysOf, ResolveWindow
<1>7. FirstDay(options) \in DaysOf(ResolveWindow(options)) \cap DaysOf(Unbounded)
  <2>1. DaysOf(Unbounded) = 0..LastDay
    BY DEF DaysOf
  <2>2. FirstDay(options) \in FirstDay(options)..FinalDay(options)
    BY <1>2, <1>3
  <2>3. QED
    BY <1>2, <1>6, <2>1, <2>2
<1>8. DaysOf(ResolveWindow(options)) \subseteq 0..LastDay
  BY <1>1, <1>2, <1>6
<1>9. QED
  BY <1>4, <1>5, <1>7, <1>8

LEMMA IInvInit == Init => IInv
<1> SUFFICES ASSUME Init PROVE IInv
  OBVIOUS
<1>1. TypeOK
  <2>1. today \in Days
    BY SelectionAssumption DEF Init, Days, SelectionAssumption
  <2>2. counted \in [Statements -> Nat]
    BY DEF Init
  <2>3. QED
    BY <2>1, <2>2 DEF Init, TypeOK
<1>2. DatesOK /\ PassesOK /\ WindowsOK
  BY SelectionAssumption DEF Init, DatesOK, PassesOK, PassOK, WindowsOK, Passes, Busy, SelectionAssumption
<1>3. QED
  BY <1>1, <1>2 DEF IInv

LEMMA MidnightStep == IInv /\ Midnight => IInv'
<1> SUFFICES ASSUME IInv, Midnight PROVE IInv'
  OBVIOUS
<1> USE DEF IInv
<1>1. today \in 1..LastDay /\ today' = today + 1 /\ today < LastDay /\ LastDay \in Nat
  BY SelectionAssumption DEF Midnight, TypeOK, Days, SelectionAssumption
<1>2. UNCHANGED <<status, date, phase, window, selected, counted, rebuilt, ran, over, settled>>
  BY DEF Midnight, runners, ghosts
<1>3. TypeOK'
  BY <1>1, <1>2 DEF TypeOK, Days
<1>4. DatesOK'
  BY <1>1, <1>2 DEF DatesOK
<1>5. PassesOK'
  BY <1>2 DEF PassesOK, PassOK, Within
<1>6. 0..today - 1 \subseteq 0..today' - 1
  BY <1>1
<1>7. WindowsOK'
  BY <1>2, <1>6 DEF WindowsOK, Busy, DaysOf
<1>8. QED
  BY <1>3, <1>4, <1>5, <1>7

\* A statement is issued or cancelled: today, a day that is not over.
LEMMA StatementStep ==
  ASSUME IInv, NEW st \in Statements, Issue(st) \/ Cancel(st)
  PROVE  IInv'
<1> USE DEF IInv
<1>1. PICK pass \in Passes :
        /\ status' = [status EXCEPT ![st] = pass]
        /\ date' = [date EXCEPT ![st][pass] = today]
        /\ pass = "Issued" => status[st] = "Draft"
        /\ pass = "Cancelled" => status[st] = "Issued"
  BY DEF Issue, Cancel, Passes
<1>2. UNCHANGED <<today, phase, window, selected, counted, rebuilt, ran, over, settled>>
  BY DEF Issue, Cancel, runners, ghosts
<1>3. today \in 1..LastDay /\ today # None /\ LastDay \in Nat
  BY SelectionAssumption DEF TypeOK, Days, SelectionAssumption
<1>4. date[st][pass] = None
  BY <1>1 DEF DatesOK, Passes
<1>5. \A x \in Statements, p \in Passes :
        /\ status'[x] = IF x = st THEN pass ELSE status[x]
        /\ date'[x][p] = IF x = st /\ p = pass THEN today ELSE date[x][p]
  BY <1>1 DEF TypeOK
<1>6. TypeOK'
  BY <1>1, <1>2 DEF TypeOK
<1>7. DatesOK'
  BY <1>1, <1>2, <1>3, <1>4, <1>5 DEF DatesOK, Passes
<1>8. PassesOK'
  <2> SUFFICES ASSUME NEW r \in Runners, NEW p \in Passes, selected[r][p] # None
               PROVE  /\ \A x \in selected[r][p] :
                           date'[x][p] \in Days /\ Within(date'[x][p], window[r])
                      /\ \A x \in Statements :
                           /\ status'[x] = p
                           /\ date'[x][p] \in over[r]
                           /\ Within(date'[x][p], window[r])
                           => x \in selected[r][p]
    BY <1>2 DEF PassesOK, PassOK
  <2>1. selected[r][p] \subseteq Statements /\ None \notin Days /\ r \in Busy
    BY SelectionAssumption DEF TypeOK, PassesOK, PassOK, Days, Busy, SelectionAssumption
  <2>2. ASSUME NEW x \in selected[r][p]
        PROVE  date'[x][p] \in Days /\ Within(date'[x][p], window[r])
    BY <1>4, <1>5, <2>1 DEF PassesOK, PassOK
  <2>3. ASSUME NEW x \in Statements, status'[x] = p, date'[x][p] \in over[r],
               Within(date'[x][p], window[r])
        PROVE  x \in selected[r][p]
    <3>1. today \notin over[r]
      BY <1>3, <2>1 DEF WindowsOK
    <3>2. x # st
      BY <1>5, <2>3, <3>1
    <3>3. QED
      BY <1>5, <2>3, <3>2 DEF PassesOK, PassOK
  <2>4. QED
    BY <2>2, <2>3
<1>9. WindowsOK'
  BY <1>2 DEF WindowsOK, Busy, DaysOf
<1>10. QED
  BY <1>6, <1>7, <1>8, <1>9

LEMMA RunStep ==
  ASSUME IInv, NEW r \in Runners, Run(r) \/ Rebuild(r)
  PROVE  IInv'
<1> USE DEF IInv
<1>1. PICK w \in Windows \cup {Unbounded} :
        /\ Select(r, w)
        /\ w # Unbounded => DaysOf(w) \cap ran = {} /\ DaysOf(w) \cap DaysOf(Unbounded) # {}
        /\ w = Unbounded => Busy = {}
        /\ w # Unbounded => \A other \in Busy : DaysOf(w) \cap DaysOf(window[other]) = {}
  <2>1. CASE Run(r)
    <3>1. PICK options \in Options :
            /\ Accepted(options) /\ FinalDay(options) <= today
            /\ DaysOf(ResolveWindow(options)) \cap ran = {}
            /\ \A other \in Busy : DaysOf(ResolveWindow(options)) \cap DaysOf(window[other]) = {}
            /\ Select(r, ResolveWindow(options))
      BY <2>1 DEF Run
    <3>2. QED
      BY <3>1, WindowOfRun
  <2>2. CASE Rebuild(r)
    BY <2>2 DEF Rebuild
  <2>3. QED
    BY <2>1, <2>2
<1>2. /\ phase[r] = "idle" /\ phase' = [phase EXCEPT ![r] = "selecting"]
      /\ window' = [window EXCEPT ![r] = w]
      /\ over' = [over EXCEPT ![r] = 0..today - 1]
      /\ UNCHANGED <<today, status, date, selected, counted, rebuilt, ran, settled>>
  BY <1>1 DEF Select, platform
<1>3. today \in 1..LastDay /\ LastDay \in Nat
  BY SelectionAssumption DEF TypeOK, Days, SelectionAssumption
<1>4. 0..today - 1 \subseteq 0..LastDay
  BY <1>3
<1>5. TypeOK'
  BY <1>1, <1>2, <1>4 DEF TypeOK
<1>6. DatesOK'
  BY <1>2 DEF DatesOK
<1>7. PassesOK'
  BY <1>2 DEF PassesOK, PassOK, TypeOK, Within
<1>8. WindowsOK'
  <2>1. Busy' = Busy \cup {r} /\ r \notin Busy
    BY <1>2 DEF Busy, TypeOK
  <2>2. /\ window'[r] = w /\ over'[r] = 0..today - 1
        /\ \A other \in Busy : window'[other] = window[other] /\ over'[other] = over[other]
    BY <1>2, <2>1 DEF TypeOK, Busy
  <2>3. \A other \in Busy : window[other] # Unbounded /\ w # Unbounded
    BY <1>1
  <2>4. /\ settled' \subseteq 0..today' - 1
        /\ over'[r] \subseteq 0..today' - 1
        /\ window'[r] # Unbounded => DaysOf(window'[r]) \cap ran' = {}
        /\ window'[r] = Unbounded => settled' \subseteq over'[r]
    BY <1>1, <1>2, <2>2 DEF WindowsOK
  <2>5. ASSUME NEW other \in Busy
        PROVE  /\ over'[other] \subseteq 0..today' - 1
               /\ window'[other] # Unbounded => DaysOf(window'[other]) \cap ran' = {}
               /\ window'[other] = Unbounded => settled' \subseteq over'[other]
               /\ window'[r] # Unbounded /\ window'[other] # Unbounded
               /\ DaysOf(window'[r]) \cap DaysOf(window'[other]) = {}
    BY <1>1, <1>2, <2>2, <2>3 DEF WindowsOK
  <2>6. ASSUME NEW x \in Busy, NEW y \in Busy \ {x}
        PROVE  window'[x] # Unbounded /\ DaysOf(window'[x]) \cap DaysOf(window'[y]) = {}
    BY <2>2 DEF WindowsOK
  <2>7. \A w1, w2 : DaysOf(w1)' = DaysOf(w1) /\ DaysOf(w1) \cap DaysOf(w2) = DaysOf(w2) \cap DaysOf(w1)
    BY DEF DaysOf
  <2>8. QED
    BY <2>1, <2>4, <2>5, <2>6 DEF WindowsOK, DaysOf
<1>9. QED
  BY <1>5, <1>6, <1>7, <1>8

LEMMA PassStep ==
  ASSUME IInv, NEW r \in Runners, NEW pass \in Passes, Pass(r, pass)
  PROVE  IInv'
<1> USE DEF IInv
<1> DEFINE S == {st \in Statements : InPass(st, pass, window[r])}
<1>1. /\ phase[r] = "selecting" /\ selected' = [selected EXCEPT ![r][pass] = S]
      /\ UNCHANGED <<today, status, date, phase, window, counted, rebuilt, ran, over, settled>>
  BY DEF Pass, platform, ghosts
<1>2. TypeOK'
  BY <1>1 DEF TypeOK
<1>3. DatesOK' /\ WindowsOK'
  BY <1>1 DEF DatesOK, WindowsOK, Busy, DaysOf
<1>4. \A st \in S : date[st][pass] \in Days
  BY SelectionAssumption DEF InPass, DatesOK, TypeOK, Days, SelectionAssumption
<1>5. PassesOK'
  <2> SUFFICES ASSUME NEW x \in Runners, NEW p \in Passes
               PROVE  PassOK(x, p)'
    BY DEF PassesOK
  <2>1. CASE x = r /\ p = pass
    <3>1. selected'[x][p] = S
      BY <1>1, <2>1 DEF TypeOK
    <3>2. QED
      BY <1>1, <1>4, <2>1, <3>1 DEF InPass, PassOK
  <2>2. CASE ~(x = r /\ p = pass)
    <3>1. selected'[x][p] = selected[x][p]
      BY <1>1, <2>2 DEF TypeOK
    <3>2. QED
      BY <1>1, <3>1 DEF PassesOK, PassOK
  <2>3. QED
    BY <2>1, <2>2
<1>6. QED
  BY <1>2, <1>3, <1>5

\* A command ends, whatever it has counted.
LEMMA EndStep ==
  ASSUME IInv, NEW r \in Runners, SelectionFails(r) \/ CountRun(r) \/ CountRebuild(r)
  PROVE  IInv'
<1> USE DEF IInv
<1>1. /\ phase[r] = "selecting" /\ phase' = [phase EXCEPT ![r] = "idle"]
      /\ window' = [window EXCEPT ![r] = Unbounded]
      /\ selected' = [selected EXCEPT ![r] = [pass \in Passes |-> None]]
      /\ over' = [over EXCEPT ![r] = {}]
      /\ UNCHANGED <<today, status, date>>
  BY DEF SelectionFails, CountRun, CountRebuild, Ready, Ends, platform
<1>2. /\ counted' \in [Statements -> Nat] /\ rebuilt' \in BOOLEAN
      /\ ran' \subseteq ran \cup DaysOf(window[r])
      /\ settled' \subseteq settled \cup over[r]
      /\ settled' # settled => window[r] # Unbounded
  <2>1. CASE SelectionFails(r)
    BY <2>1 DEF SelectionFails, TypeOK
  <2>2. CASE CountRun(r)
    BY <2>2 DEF CountRun, TypeOK
  <2>3. CASE CountRebuild(r)
    BY <2>3 DEF CountRebuild, TypeOK
  <2>4. QED
    BY <2>1, <2>2, <2>3
<1>3. r \in Busy /\ Busy' = Busy \ {r}
  BY <1>1 DEF Busy, TypeOK
<1>4. DaysOf(window[r]) \subseteq 0..LastDay
  <2>1. CASE window[r] = Unbounded
    BY <2>1 DEF DaysOf
  <2>2. CASE window[r] # Unbounded
    BY <2>2, SelectionAssumption DEF DaysOf, TypeOK, Windows, SelectionAssumption
  <2>3. QED
    BY <2>1, <2>2
<1>5. TypeOK'
  BY <1>1, <1>2, <1>4 DEF TypeOK
<1>6. DatesOK'
  BY <1>1 DEF DatesOK
<1>7. PassesOK'
  BY <1>1 DEF PassesOK, PassOK, TypeOK, Within
<1>8. WindowsOK'
  <2>1. \A other \in Busy \ {r} :
          /\ window'[other] = window[other] /\ over'[other] = over[other]
          /\ window[other] # Unbounded /\ window[r] # Unbounded
          /\ DaysOf(window[other]) \cap DaysOf(window[r]) = {}
    BY <1>1, <1>3 DEF WindowsOK, TypeOK, Busy
  <2>2. settled' \subseteq 0..today - 1
    BY <1>2, <1>3 DEF WindowsOK
  <2>3. QED
    BY <1>1, <1>2, <1>3, <2>1, <2>2 DEF WindowsOK, DaysOf
<1>9. QED
  BY <1>5, <1>6, <1>7, <1>8

LEMMA IInvNext == IInv /\ [Next]_vars => IInv'
<1> SUFFICES ASSUME IInv, [Next]_vars PROVE IInv'
  OBVIOUS
<1>1. CASE Next
  BY <1>1, MidnightStep, StatementStep, RunStep, PassStep, EndStep DEF Next
<1>2. CASE UNCHANGED vars
  BY <1>2 DEF vars, platform, runners, ghosts, IInv, TypeOK, DatesOK, PassesOK, PassOK, WindowsOK,
              Busy, DaysOf, Within
<1>3. QED
  BY <1>1, <1>2

LEMMA Inductive == Spec => []IInv
BY IInvInit, IInvNext, PTL DEF Spec

(***************************************************************************)
(* Every state of the selection is of its type.                            *)
(***************************************************************************)
THEOREM TypeCorrect == Spec => []TypeOK
<1>1. IInv => TypeOK
  BY DEF IInv
<1>2. QED
  BY <1>1, Inductive, PTL

-----------------------------------------------------------------------------
\* The days of a statement that are among some days.
DaysIn(st, days) == {date[st][pass] : pass \in Passes} \cap days

LEMMA PairFinite == \A a, b : IsFiniteSet({a, b})
<1> TAKE a, b
<1>1. {a, b} = {a} \cup {b}
  OBVIOUS
<1>2. IsFiniteSet({a}) /\ IsFiniteSet({b})
  BY FS_Singleton
<1>3. QED
  BY <1>1, <1>2, FS_Union

LEMMA DaysInFinite ==
  ASSUME NEW st, NEW days
  PROVE  /\ IsFiniteSet(DaysIn(st, days))
         /\ Cardinality(DaysIn(st, days)) \in Nat
<1>1. DaysIn(st, days) \subseteq {date[st]["Issued"], date[st]["Cancelled"]}
  BY DEF DaysIn, Passes
<1>2. QED
  BY <1>1, PairFinite, FS_Subset, FS_CardinalityType

\* A date once given stays.
LEMMA DatesStay ==
  ASSUME IInv, [Next]_vars, NEW st \in Statements, NEW pass \in Passes, date[st][pass] # None
  PROVE  date'[st][pass] = date[st][pass]
<1>1. CASE \E x \in Statements : Issue(x)
  <2>1. PICK x \in Statements : Issue(x)
    BY <1>1
  <2>2. x # st
    BY <2>1 DEF Issue, IInv, DatesOK, Passes
  <2>3. QED
    BY <2>1, <2>2 DEF Issue, IInv, TypeOK
<1>2. CASE \E x \in Statements : Cancel(x)
  <2>1. PICK x \in Statements : Cancel(x)
    BY <1>2
  <2>2. x # st \/ pass # "Cancelled"
    BY <2>1 DEF Cancel, IInv, DatesOK, Passes
  <2>3. QED
    BY <2>1, <2>2 DEF Cancel, IInv, TypeOK
<1>3. CASE ~\E x \in Statements : Issue(x) \/ Cancel(x)
  <2>1. date' = date
    BY <1>3 DEF Next, vars, Midnight, Run, Rebuild, Select, Pass, SelectionFails, CountRun,
                CountRebuild, Ready, Ends, platform
  <2>2. QED
    BY <2>1
<1>4. QED
  BY <1>1, <1>2, <1>3

(***************************************************************************)
(* No day counts a statement twice.                                        *)
(***************************************************************************)
THEOREM CountedOncePerDay == Spec => []OncePerDay
<1>1. Init => OncePerDay
  <2> SUFFICES ASSUME Init, NEW st \in Statements
               PROVE  counted[st] <= Cardinality(DaysIn(st, ran)) + (IF rebuilt THEN 1 ELSE 0)
    BY DEF OncePerDay, DaysIn
  <2>1. counted[st] = 0
    BY DEF Init
  <2>2. Cardinality(DaysIn(st, ran)) \in Nat
    BY DaysInFinite
  <2>3. QED
    BY <2>1, <2>2
<1>2. IInv /\ OncePerDay /\ [Next]_vars => OncePerDay'
  <2> SUFFICES ASSUME IInv, OncePerDay, [Next]_vars, NEW st \in Statements
               PROVE  counted'[st] <= Cardinality(DaysIn(st, ran)') + (IF rebuilt' THEN 1 ELSE 0)
    BY DEF OncePerDay, DaysIn
  <2>1. /\ counted[st] <= Cardinality(DaysIn(st, ran)) + (IF rebuilt THEN 1 ELSE 0)
        /\ counted[st] \in Nat
    BY DEF OncePerDay, DaysIn, IInv, TypeOK
  <2>2. Cardinality(DaysIn(st, ran)) \in Nat
    BY DaysInFinite
  <2>3. IsFiniteSet(DaysIn(st, ran)') /\ Cardinality(DaysIn(st, ran)') \in Nat
    <3>1. DaysIn(st, ran)' \subseteq {date'[st]["Issued"], date'[st]["Cancelled"]}
      BY DEF DaysIn, Passes
    <3>2. QED
      BY <3>1, PairFinite, FS_Subset, FS_CardinalityType
  <2>4. CASE ran \subseteq ran' /\ counted' = counted /\ rebuilt' = rebuilt
    <3>1. DaysIn(st, ran) \subseteq DaysIn(st, ran)'
      <4> SUFFICES ASSUME NEW pass \in Passes, date[st][pass] \in ran
                   PROVE  date'[st][pass] = date[st][pass]
        BY <2>4 DEF DaysIn
      <4>1. ran \subseteq 0..LastDay
        BY DEF IInv, TypeOK
      <4>2. date[st][pass] # None
        <5>1. 0..LastDay \subseteq 0..LastDay + 1 /\ None \notin 0..LastDay + 1
          BY SelectionAssumption DEF SelectionAssumption
        <5>2. QED
          BY <4>1, <5>1
      <4>3. QED
        BY <4>2, DatesStay
    <3>2. Cardinality(DaysIn(st, ran)) <= Cardinality(DaysIn(st, ran)')
      BY <2>3, <3>1, FS_Subset
    <3>3. QED
      BY <2>1, <2>2, <2>3, <2>4, <3>2
  <2>5. ASSUME NEW r \in Runners, CountRun(r)
        PROVE  counted'[st] <= Cardinality(DaysIn(st, ran)') + (IF rebuilt' THEN 1 ELSE 0)
    <3>1. /\ counted'[st] = counted[st] + (IF st \in Merged(r) THEN 1 ELSE 0)
          /\ ran' = ran \cup DaysOf(window[r]) /\ rebuilt' = rebuilt /\ date' = date
          /\ window[r] # Unbounded
      BY <2>5 DEF CountRun, Ready, Ends, platform
    <3>2. DaysIn(st, ran)' = DaysIn(st, ran')
      BY <3>1 DEF DaysIn
    <3>3. CASE st \notin Merged(r)
      <4>1. DaysIn(st, ran) \subseteq DaysIn(st, ran')
        BY <3>1 DEF DaysIn
      <4>2. Cardinality(DaysIn(st, ran)) <= Cardinality(DaysIn(st, ran)')
        BY <2>3, <3>2, <4>1, FS_Subset
      <4>3. QED
        BY <2>1, <2>2, <2>3, <3>1, <3>3, <4>2
    <3>4. CASE st \in Merged(r)
      <4>1. PICK pass \in Passes : st \in selected[r][pass]
        BY <3>4 DEF Merged
      <4>2. selected[r][pass] # None
        BY <2>5 DEF CountRun, Ready
      <4>3. date[st][pass] \in Days /\ Within(date[st][pass], window[r])
        BY <4>1, <4>2 DEF IInv, PassesOK, PassOK
      <4>4. date[st][pass] \in DaysOf(window[r])
        BY <3>1, <4>3 DEF Within, DaysOf, Days, IInv, TypeOK, Windows
      <4>5. date[st][pass] \notin ran
        BY <2>5, <3>1, <4>4 DEF IInv, WindowsOK, Busy, CountRun, Ready, Ends
      <4>6. DaysIn(st, ran) \cup {date[st][pass]} \subseteq DaysIn(st, ran)'
        BY <3>1, <3>2, <4>4 DEF DaysIn
      <4>7. Cardinality(DaysIn(st, ran) \cup {date[st][pass]}) = Cardinality(DaysIn(st, ran)) + 1
        <5>1. date[st][pass] \notin DaysIn(st, ran) /\ IsFiniteSet(DaysIn(st, ran))
          BY <4>5, DaysInFinite DEF DaysIn
        <5>2. QED
          BY <5>1, FS_AddElement
      <4>8. Cardinality(DaysIn(st, ran)) + 1 <= Cardinality(DaysIn(st, ran)')
        BY <2>3, <4>6, <4>7, FS_Subset
      <4>9. QED
        BY <2>1, <2>2, <2>3, <3>1, <3>4, <4>8
    <3>5. QED
      BY <3>3, <3>4
  <2>6. ASSUME NEW r \in Runners, CountRebuild(r)
        PROVE  counted'[st] <= Cardinality(DaysIn(st, ran)') + (IF rebuilt' THEN 1 ELSE 0)
    BY <2>3, <2>6 DEF CountRebuild
  <2>7. \/ ran \subseteq ran' /\ counted' = counted /\ rebuilt' = rebuilt
        \/ \E r \in Runners : CountRun(r) \/ CountRebuild(r)
    BY DEF Next, vars, Midnight, Issue, Cancel, Run, Rebuild, Select, Pass, SelectionFails, ghosts
  <2>8. QED
    BY <2>4, <2>5, <2>6, <2>7
<1>3. QED
  BY <1>1, <1>2, Inductive, PTL DEF Spec

(***************************************************************************)
(* Between them the runs of all days skip no statement.                    *)
(***************************************************************************)
THEOREM NoneIsSkipped == Spec => []NothingSkipped
<1>1. Init => NothingSkipped
  BY DEF Init, NothingSkipped
<1>2. IInv /\ NothingSkipped /\ [Next]_vars => NothingSkipped'
  <2> SUFFICES ASSUME IInv, NothingSkipped, [Next]_vars, NEW st \in Statements,
                      status'[st] # "Draft", date'[st][status'[st]] \in settled'
               PROVE  counted'[st] >= 1
    BY DEF NothingSkipped
  <2> DEFINE Seen == status[st] # "Draft" /\ date[st][status[st]] \in settled
  <2>1. counted[st] \in Nat /\ (Seen => counted[st] >= 1)
    BY DEF NothingSkipped, IInv, TypeOK
  <2>2. ASSUME NEW x \in Statements, Issue(x) \/ Cancel(x)
        PROVE  counted'[st] >= 1
    <3>1. counted' = counted /\ settled' = settled
      BY <2>2 DEF Issue, Cancel, ghosts
    <3>2. today \notin settled
      BY SelectionAssumption DEF IInv, WindowsOK, TypeOK, Days, SelectionAssumption
    <3>3. x # st
      BY <2>2, <3>1, <3>2 DEF Issue, Cancel, IInv, TypeOK, Passes
    <3>4. Seen
      BY <2>2, <3>1, <3>3 DEF Issue, Cancel, IInv, TypeOK
    <3>5. QED
      BY <2>1, <3>1, <3>4
  <2>3. ASSUME NEW r \in Runners, CountRun(r) \/ CountRebuild(r),
               date[st][status[st]] \in over[r], Within(date[st][status[st]], window[r])
        PROVE  st \in Merged(r)
    <3>1. status'[st] = status[st] /\ \A pass \in Passes : selected[r][pass] # None
      BY <2>3 DEF CountRun, CountRebuild, Ready, Ends, platform
    <3>2. status[st] \in Passes
      BY <3>1 DEF IInv, TypeOK
    <3>3. st \in selected[r][status[st]]
      BY <2>3, <3>1, <3>2 DEF IInv, PassesOK, PassOK
    <3>4. QED
      BY <3>2, <3>3 DEF Merged
  <2>4. ASSUME NEW r \in Runners, CountRun(r)
        PROVE  counted'[st] >= 1
    <3>1. /\ counted'[st] = counted[st] + (IF st \in Merged(r) THEN 1 ELSE 0)
          /\ settled' = settled \cup (DaysOf(window[r]) \cap over[r])
          /\ status' = status /\ date' = date /\ window[r] # Unbounded
      BY <2>4 DEF CountRun, Ready, Ends, platform
    <3>2. CASE Seen
      BY <2>1, <3>1, <3>2
    <3>3. CASE ~Seen
      <4>1. date[st][status[st]] \in DaysOf(window[r]) \cap over[r]
        BY <3>1, <3>3
      <4>2. Within(date[st][status[st]], window[r])
        BY <3>1, <4>1 DEF DaysOf, Within, IInv, TypeOK, Windows
      <4>3. QED
        BY <2>1, <2>3, <2>4, <3>1, <4>1, <4>2
    <3>4. QED
      BY <3>2, <3>3
  <2>5. ASSUME NEW r \in Runners, CountRebuild(r)
        PROVE  counted'[st] >= 1
    <3>1. /\ counted'[st] = IF st \in Merged(r) THEN 1 ELSE 0
          /\ settled' = settled /\ status' = status /\ date' = date
          /\ window[r] = Unbounded /\ r \in Busy
      BY <2>5 DEF CountRebuild, Ready, Ends, platform, Busy
    <3>2. date[st][status[st]] \in over[r]
      BY <3>1 DEF IInv, WindowsOK
    <3>3. st \in Merged(r)
      BY <2>3, <2>5, <3>1, <3>2 DEF Within
    <3>4. QED
      BY <3>1, <3>3
  <2>6. \/ UNCHANGED <<status, date, counted, settled>>
        \/ \E x \in Statements : Issue(x) \/ Cancel(x)
        \/ \E r \in Runners : CountRun(r) \/ CountRebuild(r)
    BY DEF Next, vars, Midnight, Run, Rebuild, Select, Pass, SelectionFails, Ends, platform, ghosts
  <2>7. QED
    BY <2>1, <2>2, <2>4, <2>5, <2>6
<1>3. QED
  BY <1>1, <1>2, Inductive, PTL DEF Spec
=============================================================================
