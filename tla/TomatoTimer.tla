---------------------------- MODULE TomatoTimer ----------------------------
(***************************************************************************)
(* The pomodoro timer of the LVGL application (tomato_timer.c): a one-     *)
(* second LVGL timer, the start/pause and reset buttons and the three      *)
(* settings sliders, all run by the UI thread one callback at a time.      *)
(* Times are whole ticks; the sets of slider values stand for the ranges   *)
(* of the sliders, which overlap.                                          *)
(***************************************************************************)
EXTENDS Naturals

CONSTANTS
  WorkTimes, ShortTimes, LongTimes,   \* what each slider can be set to
  Interval,                           \* long_break_interval
  MaxTomatoes                         \* bound: work periods that are started

ASSUME TomatoAssumption ==
  /\ WorkTimes \subseteq Nat \ {0} /\ WorkTimes # {}
  /\ ShortTimes \subseteq Nat \ {0} /\ ShortTimes # {}
  /\ LongTimes \subseteq Nat \ {0} /\ LongTimes # {}
  /\ Interval \in Nat \ {0}
  /\ MaxTomatoes \in Nat

VARIABLES
  state,      \* g_tomato_data.state
  remaining,  \* remaining_time
  total,      \* total_time
  tomatoes,   \* tomato_count
  config,     \* g_tomato_config: work, short and long times
  ticking,    \* g_tomato_timer has been created
  phase,      \* history: the period that was begun, whatever it is resumed as
  moved       \* history: has a slider moved since then?

vars == <<state, remaining, total, tomatoes, config, ticking, phase, moved>>

Counting == {"working", "short", "long"}
States == Counting \cup {"idle", "paused"}
Configs == [work : WorkTimes, short : ShortTimes, long : LongTimes]

Init ==
  /\ config \in Configs
  /\ state = "idle" /\ phase = "idle"
  /\ remaining = config.work /\ total = config.work
  /\ tomatoes = 0 /\ ticking = FALSE /\ moved = FALSE

\* A period begins: its state and its length.
Begin(s, time) ==
  /\ state' = s /\ phase' = s /\ moved' = FALSE
  /\ remaining' = time /\ total' = time

CountDownForever ==               \* mutant: the period is started again
  /\ ticking /\ state \in Counting /\ remaining > 0
  /\ remaining' = IF remaining = 1 THEN total ELSE remaining - 1
  /\ UNCHANGED <<state, total, tomatoes, config, ticking, phase, moved>>
\* tomato_timer_cb while time is left.
CountDown ==
  /\ ticking /\ state \in Counting /\ remaining > 0
  /\ remaining' = remaining - 1
  /\ UNCHANGED <<state, total, tomatoes, config, ticking, phase, moved>>

\* tomato_timer_cb when the time is up.
Expire ==
  /\ ticking /\ state \in Counting /\ remaining = 0
  /\ \/ /\ state = "working"
        /\ tomatoes' = tomatoes + 1
        /\ IF tomatoes' % Interval = 0
           THEN Begin("long", config.long)
           ELSE Begin("short", config.short)
     \/ /\ state # "working"
        /\ Begin("idle", config.work)
        /\ UNCHANGED tomatoes
  /\ UNCHANGED <<config, ticking>>

\* The period tomato_start resumes: the one whose configured length the
\* paused period has.
PausedPeriodShortFirst ==         \* mutant: compares the short break first
  IF total = config.short THEN "working"
  ELSE IF total = config.work THEN "short" ELSE "long"
PausedPeriod ==
  IF total = config.work THEN "working"
  ELSE IF total = config.short THEN "short" ELSE "long"

\* start_btn_event_cb: tomato_start from idle or paused, tomato_pause else.
\* A paused period without time left stays paused.
StartButton ==
  /\ \/ /\ state = "idle" /\ tomatoes < MaxTomatoes
        /\ Begin("working", config.work)
        /\ ticking' = TRUE
     \/ /\ state = "paused"
        /\ PausedPeriod = "working" => tomatoes < MaxTomatoes
        /\ state' = IF remaining > 0 THEN PausedPeriod ELSE "paused"
        /\ ticking' = TRUE
        /\ UNCHANGED <<remaining, total, phase, moved>>
     \/ /\ state \in Counting
        /\ state' = "paused"
        /\ UNCHANGED <<remaining, total, ticking, phase, moved>>
  /\ UNCHANGED <<tomatoes, config>>

\* reset_btn_event_cb.
ResetButton ==
  /\ Begin("idle", config.work)
  /\ UNCHANGED <<tomatoes, config, ticking>>

\* The sliders of the settings panel; only an idle display follows the work
\* slider.
WorkSliderAlways(t) ==            \* mutant: not only when idle
  /\ moved' = TRUE
  /\ config' = [config EXCEPT !.work = t]
  /\ remaining' = t
  /\ UNCHANGED <<state, total, tomatoes, ticking, phase>>
WorkSlider(t) ==
  /\ moved' = TRUE
  /\ config' = [config EXCEPT !.work = t]
  /\ IF state = "idle"
     THEN remaining' = t /\ total' = t
     ELSE UNCHANGED <<remaining, total>>
  /\ UNCHANGED <<state, tomatoes, ticking, phase>>

BreakSlider(which, t) ==
  /\ moved' = TRUE
  /\ config' = [config EXCEPT ![which] = t]
  /\ UNCHANGED <<state, remaining, total, tomatoes, ticking, phase>>

Timer == CountDown \/ Expire

Next ==
  \/ Timer
  \/ StartButton
  \/ ResetButton
  \/ \E t \in WorkTimes : WorkSlider(t)
  \/ \E t \in ShortTimes : BreakSlider("short", t)
  \/ \E t \in LongTimes : BreakSlider("long", t)

Spec == Init /\ [][Next]_vars

\* LVGL calls a timer that is due; nobody has to touch the screen.
FairSpec == Spec /\ WF_vars(Timer)
-----------------------------------------------------------------------------
\* Types, and what the progress bar (remaining * 100 / total) relies on: a
\* length that is not zero and never less than the time that is left,
\* whatever the sliders do meanwhile.
TypeOK ==
  /\ state \in States /\ phase \in States \ {"paused"}
  /\ config \in Configs
  /\ tomatoes \in Nat
  /\ ticking \in BOOLEAN /\ moved \in BOOLEAN
  /\ total \in Nat \ {0}
  /\ remaining \in 0 .. total

\* The three lengths differ, as they do as shipped, and are those the period
\* was begun with.
Untouched ==
  ~moved /\ config.work \notin {config.short, config.long} /\ config.short # config.long

\* Resuming goes back to the period that was paused ("restore the state before
\* the pause", tomato_start), as long as the sliders are left alone.
ResumeRestores ==
  [][state = "paused" /\ state' \in Counting /\ Untouched => state' = phase]_vars

\* A running period ends, unless it is paused or reset.
PeriodEnds ==
  \A s \in Counting : state = s ~> state # s
=============================================================================
