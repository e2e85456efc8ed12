---------------------------- MODULE LvglScreens ----------------------------
(***************************************************************************)
(* The screens of the LVGL application and the way between them: the swipe *)
(* handler (luckfox_720.c), the four items of the menu and the idle timer  *)
(* that leaves the menu (menu.c).  One UI thread runs every callback, so a *)
(* step is a whole callback; the fade or slide to a screen is its last     *)
(* call, and the screen it shows is taken as loaded from there on.         *)
(***************************************************************************)
EXTENDS Naturals

CONSTANT IdleLimit                \* ticks of the idle timer (20 s)

ASSUME IdleAssumption == IdleLimit \in Nat \ {0}

VARIABLES
  screen,     \* lv_scr_act()
  idle        \* ticks g_menu_idle_timer has run for, NoTimer when it is NULL

screenVars == <<screen, idle>>

Screens == {"main", "sysinfo", "stock", "tomato", "menu"}
NoTimer == IdleLimit + 1

\* menu_start_idle_timer: an old timer is deleted first.
StartIdle == idle' = 0
\* menu_stop_idle_timer.
StopIdle == idle' = NoTimer

\* lv_main_ayan loads the menu and starts its timer.
ScreensInit == screen = "menu" /\ idle = 0

\* gesture_event_cb: where a swipe leads; the menu has no handler.
LeftOf == [main |-> "sysinfo", sysinfo |-> "stock"]
RightOf == [stock |-> "sysinfo", sysinfo |-> "main", main |-> "menu",
            tomato |-> "menu"]
DownOf == [tomato |-> "menu"]

SwipeForgetsTimer(way) ==         \* mutant: the menu is entered without timer
  /\ screen \in DOMAIN way
  /\ screen' = way[screen]
  /\ UNCHANGED idle
Swipe(way) ==
  /\ screen \in DOMAIN way
  /\ screen' = way[screen]
  /\ IF screen' = "menu" THEN StartIdle ELSE UNCHANGED idle

\* menu_item_clicked_cb.
ClickKeepsTimer(s) ==             \* mutant: the timer is not stopped
  /\ screen = "menu"
  /\ screen' = s
  /\ UNCHANGED idle
ClickItem(s) ==
  /\ screen = "menu"
  /\ StopIdle
  /\ screen' = s

\* menu_idle_timer_cb: the timer fires once.
IdleExpires ==
  /\ idle = IdleLimit
  /\ StopIdle
  /\ screen' = "main"

\* A tick of the LVGL clock; a timer that is due is called before the next.
ClockTick ==
  /\ idle # IdleLimit
  /\ idle' = IF idle = NoTimer THEN NoTimer ELSE idle + 1
  /\ UNCHANGED screen

User ==
  \/ Swipe(LeftOf) \/ Swipe(RightOf) \/ Swipe(DownOf)
  \/ \E s \in Screens \ {"menu"} : ClickItem(s)

ScreensNext == User \/ IdleExpires \/ ClockTick
-----------------------------------------------------------------------------
ScreensTypeOK ==
  /\ screen \in Screens
  /\ idle \in 0 .. NoTimer

\* The idle timer exists exactly while the menu is shown: it can neither pull
\* the user out of another screen nor be missing when the menu is left alone
\* (menu.c and luckfox_720.c start and stop it in five places).
TimerOnlyOnMenu == (screen = "menu") <=> (idle # NoTimer)

\* An untouched display does not stay in the menu.
MenuIsLeft == screen = "menu" ~> screen # "menu"
=============================================================================
