-------------------------- MODULE StatementSelection --------------------------
(***************************************************************************)
(* Which statements the runs of successive days take: the window of a run  *)
(* (resolve_window, window.py) and the two passes over the platform's      *)
(* statements (StatementSelector.select, services/statements.py), while    *)
(* statements are issued and cancelled and days go by.                     *)
(*                                                                         *)
(* A day is the unit of time: a statement's dates, the bounds of a window. *)
(* What a run does with its statements is one step here (UsagePipeline has *)
(* the steps): it counts them once more, if it does not fail, and a full   *)
(* recalculate counts exactly those it took.                               *)
(***************************************************************************)
EXTENDS Integers, FiniteSets

CONSTANTS
  Statements,
  Runners,    \* the processes that select
  LastDay,    \* bound: the days are 1..LastDay
  None        \* an option not given, a date the statement does not have

Days == 1..LastDay

\* The options of `run`: --date, --from-date and --till-date.
Options == [date : Days \cup {None}, from : Days \cup {None}, till : Days \cup {None}]

\* The days start..end-1 of a RunWindow.
Windows == [start : 0..LastDay, end : 1..LastDay + 1]

ASSUME SelectionAssumption ==
  /\ LastDay \in Nat \ {0}
  /\ None \notin 0..LastDay + 1 /\ None \notin Windows

\* A full recalculate has no window.
Unbounded == None

Passes == {"Issued", "Cancelled"}

VARIABLES
  today,
  status,     \* statement |-> "Draft", "Issued" or "Cancelled"
  date,       \* statement |-> status |-> the day its audit gives for it
  phase,      \* of each runner: "idle" or "selecting"
  window,     \* the one its command was started with
  selected    \* runner |-> pass |-> what the pass returned; None while it has not

\* What the properties compare with.
VARIABLES
  counted,    \* statement |-> how often the tables count it
  rebuilt,    \* a full recalculate has ended
  ran,        \* the days that runs have counted since
  over,       \* runner |-> the days that were over when its command began
  settled     \* the days that a run counted that began when they were over

platform == <<today, status, date>>
runners  == <<phase, window, selected>>
ghosts   == <<counted, rebuilt, ran, over, settled>>
vars     == <<platform, runners, ghosts>>

-----------------------------------------------------------------------------
\* _resolve_days: one day; a range whose one bound stands for both; or yesterday.
FirstDay(options) ==
  IF options.date # None THEN options.date
  ELSE IF options.from # None THEN options.from
  ELSE IF options.till # None THEN options.till
  ELSE today - 1

FinalDay(options) ==
  IF options.date # None THEN options.date
  ELSE IF options.till # None THEN options.till
  ELSE IF options.from # None THEN options.from
  ELSE today - 1

Accepted(options) ==
  /\ options.date # None => options.from = None /\ options.till = None
  /\ FirstDay(options) <= FinalDay(options)

ResolveWindow(options) == [start |-> FirstDay(options), end |-> FinalDay(options) + 1]

\* [start, end)
ClosedWindow(day, w) == w = Unbounded \/ (w.start <= day /\ day <= w.end)
OpenWindow(day, w)   == w = Unbounded \/ (w.start < day /\ day < w.end)
Within(day, w) == w = Unbounded \/ (w.start <= day /\ day < w.end)

\* The statements of one pass: by their present status, dated in the window.
InPass(st, pass, w) == status[st] = pass /\ Within(date[st][pass], w)

\* Merged by their id.
Merged(r) == UNION {selected[r][pass] : pass \in Passes}

-----------------------------------------------------------------------------
Init ==
  /\ today = 1
  /\ status = [st \in Statements |-> "Draft"]
  /\ date = [st \in Statements |-> [pass \in Passes |-> None]]
  /\ phase = [r \in Runners |-> "idle"]
  /\ window = [r \in Runners |-> Unbounded]
  /\ selected = [r \in Runners |-> [pass \in Passes |-> None]]
  /\ counted = [st \in Statements |-> 0]
  /\ rebuilt = FALSE
  /\ ran = {}
  /\ over = [r \in Runners |-> {}]
  /\ settled = {}

Midnight ==
  /\ today < LastDay
  /\ today' = today + 1
  /\ UNCHANGED <<status, date, runners, ghosts>>

Issue(st) ==
  /\ status[st] = "Draft"
  /\ status' = [status EXCEPT ![st] = "Issued"]
  /\ date' = [date EXCEPT ![st]["Issued"] = today]
  /\ UNCHANGED <<today, runners, ghosts>>

Cancel(st) ==
  /\ status[st] = "Issued"
  /\ status' = [status EXCEPT ![st] = "Cancelled"]
  /\ date' = [date EXCEPT ![st]["Cancelled"] = today]
  /\ UNCHANGED <<today, runners, ghosts>>

-----------------------------------------------------------------------------
\* The days an operator takes a window for.
DaysOf(w) == IF w = Unbounded THEN 0..LastDay ELSE w.start..(w.end - 1)
Busy == {r \in Runners : phase[r] = "selecting"}

Select(r, w) ==
  /\ phase[r] = "idle"
  /\ phase' = [phase EXCEPT ![r] = "selecting"]
  /\ window' = [window EXCEPT ![r] = w]
  /\ over' = [over EXCEPT ![r] = 0..today - 1]
  /\ UNCHANGED <<platform, selected, counted, rebuilt, ran, settled>>

\* The runs are the operator's: he counts no day twice, and none to come.
Run(r) ==
  \E options \in Options :
    /\ Accepted(options)
    /\ FinalDay(options) <= today
    /\ LET w == ResolveWindow(options)
       IN /\ DaysOf(w) \cap ran = {}
          /\ DaysOf(w) \cap settled = {}
          /\ \A other \in Busy : DaysOf(w) \cap DaysOf(window[other]) = {}
          /\ Select(r, w)

\* A full recalculate, "outside the daily run's schedule".
Rebuild(r) == Busy = {} /\ Select(r, Unbounded)

\* The passes run side by side, each with the window the command began with.
Pass(r, pass) ==
  /\ phase[r] = "selecting"
  /\ selected[r][pass] = None
  /\ selected' = [selected EXCEPT ![r][pass] = {st \in Statements : InPass(st, pass, window[r])}]
  /\ UNCHANGED <<platform, phase, window, ghosts>>

\* The command ends, and what it held is gone.
Ends(r) ==
  /\ phase[r] = "selecting"
  /\ phase' = [phase EXCEPT ![r] = "idle"]
  /\ window' = [window EXCEPT ![r] = Unbounded]
  /\ selected' = [selected EXCEPT ![r] = [pass \in Passes |-> None]]
  /\ over' = [over EXCEPT ![r] = {}]
  /\ UNCHANGED platform

\* UpstreamStatementError, or whatever fails later: nothing is counted.
SelectionFails(r) == Ends(r) /\ UNCHANGED <<counted, rebuilt, ran, settled>>

Ready(r) == Ends(r) /\ \A pass \in Passes : selected[r][pass] # None

CountRun(r) ==
  /\ Ready(r)
  /\ window[r] # Unbounded
  /\ counted' = [st \in Statements |-> counted[st] + (IF st \in Merged(r) THEN 1 ELSE 0)]
  /\ ran' = ran \cup DaysOf(window[r])
  /\ settled' = settled \cup (DaysOf(window[r]) \cap over[r])
  /\ UNCHANGED rebuilt

CountRebuild(r) ==
  /\ Ready(r)
  /\ window[r] = Unbounded
  /\ counted' = [st \in Statements |-> IF st \in Merged(r) THEN 1 ELSE 0]
  /\ rebuilt' = TRUE
  /\ ran' = {}
  /\ UNCHANGED settled

Next ==
  \/ Midnight
  \/ \E st \in Statements : Issue(st) \/ Cancel(st)
  \/ \E r \in Runners :
       \/ Run(r) \/ Rebuild(r)
       \/ \E pass \in Passes : Pass(r, pass)
       \/ SelectionFails(r) \/ CountRun(r) \/ CountRebuild(r)

Spec == Init /\ [][Next]_vars

-----------------------------------------------------------------------------
TypeOK ==
  /\ today \in Days
  /\ status \in [Statements -> {"Draft"} \cup Passes]
  /\ date \in [Statements -> [Passes -> Days \cup {None}]]
  /\ phase \in [Runners -> {"idle", "selecting"}]
  /\ window \in [Runners -> Windows \cup {Unbounded}]
  /\ selected \in [Runners -> [Passes -> (SUBSET Statements) \cup {None}]]
  /\ counted \in [Statements -> Nat]
  /\ rebuilt \in BOOLEAN
  /\ ran \in SUBSET (0..LastDay)
  /\ over \in [Runners -> SUBSET (0..LastDay)]
  /\ settled \in SUBSET (0..LastDay)

(***************************************************************************)
(* No day counts a statement twice, however its passes and the statement's *)
(* cancellation fall: at most one count for each day that issued or        *)
(* cancelled it, and one for a full recalculate before them.               *)
(***************************************************************************)
OncePerDay ==
  \A st \in Statements :
    counted[st] <= Cardinality({date[st][pass] : pass \in Passes} \cap ran)
                   + (IF rebuilt THEN 1 ELSE 0)

(***************************************************************************)
(* Between them the runs skip nothing: once the day of a statement's       *)
(* present status was counted by a run that began after it, the statement  *)
(* counts, also if it was cancelled under the passes of an earlier run, or *)
(* under those of a full recalculate.                                      *)
(***************************************************************************)
NothingSkipped ==
  \A st \in Statements :
    status[st] # "Draft" /\ date[st][status[st]] \in settled => counted[st] >= 1
==============================================================================
