---------------------------- MODULE TomatoProofs ----------------------------
(***************************************************************************)
(* For every range of the sliders and every number of periods between two  *)
(* long breaks: the progress bar never divides by zero nor passes its end, *)
(* and a period that was paused is resumed as itself while no slider       *)
(* moves.                                                                  *)
(*                                                                         *)
(* tomato_start knows a paused period only by its length.  That is enough  *)
(* because the length is the one its phase is configured with (LengthIs)   *)
(* and because a slider that moves is noted at once.                       *)
(***************************************************************************)
EXTENDS TomatoTimer, TLAPS

\* The configured length of a period; an idle display shows that of the next.
LengthOf(s) ==
  IF s = "short" THEN config.short ELSE IF s = "long" THEN config.long ELSE config.work

\* A period that no slider has touched has the length of its phase.
LengthIs == ~moved => total = LengthOf(phase)

\* Between two periods nothing is paused.
IdleIs == state = "idle" <=> phase = "idle"

IInv == TypeOK /\ LengthIs /\ IdleIs
-----------------------------------------------------------------------------
\* The lengths that can be configured.
LEMMA Lengths ==
  ASSUME config \in Configs
  PROVE  /\ config.work \in Nat \ {0} /\ config.short \in Nat \ {0} /\ config.long \in Nat \ {0}
         /\ config.work \in WorkTimes /\ config.short \in ShortTimes /\ config.long \in LongTimes
BY TomatoAssumption DEF Configs

LEMMA InitIInv == ASSUME Init PROVE IInv
<1>1. config.work \in Nat \ {0}
  BY Lengths DEF Init
<1>2. ticking \in BOOLEAN /\ moved \in BOOLEAN
  BY Zenon DEF Init
<1>3. state \in States /\ phase \in States \ {"paused"} /\ config \in Configs
  BY DEF Init, States, Counting
<1>4. tomatoes \in Nat /\ total \in Nat \ {0} /\ remaining \in 0 .. total
  BY <1>1 DEF Init
<1>5. TypeOK
  BY <1>2, <1>3, <1>4 DEF TypeOK
<1> QED BY <1>5 DEF Init, IInv, LengthIs, LengthOf, IdleIs

\* The start of a period whose length is the configured one.
LEMMA BeginIInv ==
  ASSUME IInv, NEW s \in Counting \cup {"idle"}, Begin(s, LengthOf(s)),
         config' = config, tomatoes' \in Nat, ticking' \in BOOLEAN
  PROVE  IInv'
<1>1. LengthOf(s) \in Nat \ {0}
  BY Lengths DEF LengthOf, IInv, TypeOK
<1>2. moved' \in BOOLEAN
  BY Zenon DEF Begin
<1>3. state' \in States /\ phase' \in States \ {"paused"} /\ config' \in Configs
  BY DEF Begin, IInv, TypeOK, States, Counting
<1>4. total' \in Nat \ {0} /\ remaining' \in 0 .. total'
  BY <1>1 DEF Begin
<1>5. TypeOK'
  BY <1>2, <1>3, <1>4 DEF TypeOK
<1>6. LengthIs' /\ IdleIs'
  BY DEF Begin, LengthIs, LengthOf, IdleIs
<1> QED BY <1>5, <1>6 DEF IInv

\* The timer callback (CountDown, Expire).
LEMMA TimerIInv == ASSUME IInv, Timer PROVE IInv'
<1>1. CASE CountDown
  <2>1. remaining' \in 0 .. total
    BY <1>1 DEF CountDown, IInv, TypeOK
  <2> QED BY <1>1, <2>1 DEF CountDown, IInv, TypeOK, LengthIs, LengthOf, IdleIs
<1>2. CASE Expire
  <2>1. tomatoes \in Nat /\ ticking \in BOOLEAN
    BY DEF IInv, TypeOK
  <2>2. CASE state = "working"
    <3>1. tomatoes' \in Nat /\ UNCHANGED <<config, ticking>>
      BY <1>2, <2>1, <2>2 DEF Expire
    <3>2. PICK s \in {"long", "short"} : Begin(s, LengthOf(s))
      BY <1>2, <2>2 DEF Expire, LengthOf
    <3> QED BY <2>1, <3>1, <3>2, BeginIInv DEF Counting
  <2>3. CASE state # "working"
    <3>1. Begin("idle", LengthOf("idle")) /\ UNCHANGED <<tomatoes, config, ticking>>
      BY <1>2, <2>3 DEF Expire, LengthOf
    <3> QED BY <2>1, <3>1, BeginIInv
  <2> QED BY <2>2, <2>3
<1> QED BY <1>1, <1>2 DEF Timer

\* The two buttons.
LEMMA ButtonIInv == ASSUME IInv, StartButton \/ ResetButton PROVE IInv'
<1>0. tomatoes \in Nat /\ ticking \in BOOLEAN
  BY DEF IInv, TypeOK
<1>1. CASE ResetButton
  <2>1. Begin("idle", LengthOf("idle")) /\ UNCHANGED <<tomatoes, config, ticking>>
    BY <1>1 DEF ResetButton, LengthOf
  <2> QED BY <1>0, <2>1, BeginIInv
<1>2. CASE StartButton /\ state = "idle"
  <2>1. /\ Begin("working", LengthOf("working")) /\ ticking' = TRUE
        /\ UNCHANGED <<tomatoes, config>>
    BY <1>2 DEF StartButton, LengthOf, Counting
  <2> QED BY <1>0, <2>1, BeginIInv DEF Counting
<1>3. CASE StartButton /\ state # "idle"
  <2>1. /\ state' \in Counting \cup {"paused"} /\ ticking' \in BOOLEAN
        /\ UNCHANGED <<remaining, total, phase, moved, tomatoes, config>>
    BY <1>0, <1>3 DEF StartButton, PausedPeriod, Counting
  <2>2. TypeOK'
    BY <2>1 DEF IInv, TypeOK, States
  <2>3. LengthIs' /\ IdleIs'
    BY <1>3, <2>1 DEF IInv, LengthIs, LengthOf, IdleIs, Counting
  <2> QED BY <2>2, <2>3 DEF IInv
<1> QED BY <1>1, <1>2, <1>3

\* A slider notes that it has moved; the work slider resizes an idle display.
LEMMA SliderIInv ==
  ASSUME IInv,
         \/ \E t \in WorkTimes : WorkSlider(t)
         \/ \E t \in ShortTimes : BreakSlider("short", t)
         \/ \E t \in LongTimes : BreakSlider("long", t)
  PROVE  IInv'
<1>1. moved' = TRUE /\ UNCHANGED <<state, tomatoes, ticking, phase>>
  BY DEF WorkSlider, BreakSlider
<1>2. config' \in Configs
  BY DEF WorkSlider, BreakSlider, IInv, TypeOK, Configs
<1>3. total' \in Nat \ {0} /\ remaining' \in 0 .. total'
  BY TomatoAssumption DEF WorkSlider, BreakSlider, IInv, TypeOK
<1>4. TypeOK'
  BY <1>1, <1>2, <1>3 DEF IInv, TypeOK
<1> QED BY <1>1, <1>4 DEF IInv, LengthIs, IdleIs

\* The invariant holds in every state.
LEMMA Inductive == Spec => []IInv
<1>1. IInv /\ [Next]_vars => IInv'
  <2> SUFFICES ASSUME IInv, [Next]_vars PROVE IInv'
    OBVIOUS
  <2>1. CASE Next
    BY <2>1, TimerIInv, ButtonIInv, SliderIInv DEF Next
  <2>2. CASE UNCHANGED vars
    BY <2>2 DEF vars, IInv, TypeOK, LengthIs, LengthOf, IdleIs
  <2> QED BY <2>1, <2>2
<1> QED BY <1>1, InitIInv, PTL DEF Spec
-----------------------------------------------------------------------------
\* Types; the progress bar divides by a length that is not zero and is never
\* less than the time that is left, whatever the sliders do (tomato_timer.c).
THEOREM TypeOKAlways == Spec => []TypeOK
<1>1. IInv => TypeOK
  BY DEF IInv
<1> QED BY <1>1, Inductive, PTL

\* What tomato_start resumes is the period that was paused, if the three
\* lengths differ and no slider has moved since it began.
THEOREM ResumeIsRestore == Spec => ResumeRestores
<1> DEFINE Restored == state = "paused" /\ state' \in Counting /\ Untouched => state' = phase
<1>1. IInv /\ [Next]_vars => [Restored]_vars
  <2> SUFFICES ASSUME IInv, Next, state = "paused", state' \in Counting, Untouched
               PROVE  state' = phase
    OBVIOUS
  <2>1. state' = PausedPeriod
    BY DEF Next, Timer, CountDown, Expire, StartButton, ResetButton, WorkSlider, BreakSlider,
           Begin, Counting
  <2>2. total = LengthOf(phase) /\ phase \in Counting
    BY DEF Untouched, IInv, LengthIs, IdleIs, TypeOK, States
  <2> QED BY <2>1, <2>2 DEF PausedPeriod, LengthOf, Untouched, Counting
<1> QED BY <1>1, Inductive, PTL DEF Spec, ResumeRestores
-----------------------------------------------------------------------------
(* Why a period ends. *)

\* A period that counts has the LVGL timer, which start_btn_event_cb makes once
\* and nothing deletes, and the time that is left never grows while the period
\* lasts: each run of the timer takes of it or ends the period.
TimerRuns == state \in Counting => ticking
TimeRunsOut ==
  [][(state \in Counting /\ state' = state) =>
       remaining' <= remaining /\ (Timer => remaining' < remaining)]_vars

\* The safety core of PeriodEnds: no slider, button or restart gives time back
\* to a period, for every range of the sliders (tomato_timer_cb).
THEOREM PeriodsRunOut == Spec => []TimerRuns /\ TimeRunsOut
<1> DEFINE RunsOut ==
      state \in Counting /\ state' = state =>
        remaining' <= remaining /\ (Timer => remaining' < remaining)
<1>1. Init => TimerRuns
  BY DEF Init, TimerRuns, Counting
<1>2. IInv /\ TimerRuns /\ [Next]_vars => TimerRuns'
  BY DEF TimerRuns, Next, Timer, CountDown, Expire, StartButton, ResetButton, WorkSlider,
         BreakSlider, Begin, Counting, vars
<1>3. ASSUME IInv, Next, state \in Counting, state' = state
      PROVE  remaining' <= remaining /\ (Timer => remaining' < remaining)
  <2>1. remaining \in Nat /\ state # "idle"
    BY <1>3 DEF IInv, TypeOK, Counting
  <2>2. ~Expire /\ ~StartButton /\ ~ResetButton
    BY <1>3 DEF Expire, StartButton, ResetButton, Begin, Counting
  <2>3. CASE CountDown
    BY <2>1, <2>3 DEF CountDown
  <2>4. CASE UNCHANGED remaining /\ ~Timer
    BY <2>1, <2>4
  <2>5. ASSUME UNCHANGED remaining PROVE ~CountDown
    BY <2>1, <2>5 DEF CountDown
  <2> QED BY <1>3, <2>1, <2>2, <2>3, <2>4, <2>5 DEF Next, Timer, WorkSlider, BreakSlider
<1>4. IInv /\ [Next]_vars => [RunsOut]_vars
  BY <1>3
<1> QED BY <1>1, <1>2, <1>4, Inductive, PTL DEF Spec, TimeRunsOut
=============================================================================
