---------------------------- MODULE StockUpdate ----------------------------
(***************************************************************************)
(* The stock monitor (stock_info.c): the configuration file is read before *)
(* the screens come up; then the update thread, which fetches every stock  *)
(* once a round while the stock screen is shown, and the LVGL timer that   *)
(* shows the results run beside the screens.  The thread and the UI share  *)
(* g_stock_data under g_data_mutex; the lock is held within one step of    *)
(* either, so it needs no variable.  A quote is only there or not: its     *)
(* numbers are left out.                                                   *)
(***************************************************************************)
EXTENDS LvglScreens, StockConfig

VARIABLES
  valid,      \* g_stock_data[].valid
  labels,     \* what the price and change labels show
  thread,     \* the stock being fetched, Waiting between the rounds
  answered,   \* history: how the last fetch of each stock ended
  offScreen   \* history: fetches begun since the stock screen was left

stockVars == <<valid, labels, thread, answered, offScreen>>
vars == <<screenVars, configVars, stockVars>>

\* g_stock_count, which is set at the end of the file.
StockCount == IF loading THEN 0 ELSE Len(codes)
Stocks == 1 .. StockCount
Waiting == 0

Init ==
  /\ ScreensInit /\ ConfigInit
  /\ valid = <<>> /\ labels = <<>> /\ answered = <<>>
  /\ thread = Waiting
  /\ offScreen = 0

\* lv_screem_stock: the file is read, a panel is made for every stock, and
\* the thread and the timer are started.
Load ==
  /\ loading
  /\ Line /\ UNCHANGED <<screenVars, stockVars>>
ScreenInit ==
  /\ loading
  /\ EndOfFile
  /\ valid' = [s \in DOMAIN codes |-> FALSE]
  /\ labels' = [s \in DOMAIN codes |-> "---"]
  /\ answered' = [s \in DOMAIN codes |-> "never"]
  /\ UNCHANGED <<screenVars, thread, offScreen>>

\* stock_update_thread awakes: a round begins if the stock screen is shown and
\* there is a stock; otherwise the thread sleeps again.
RoundAnywhere ==                  \* mutant: the screen is not asked for
  /\ thread = Waiting /\ Stocks # {}
  /\ thread' = 1
  /\ offScreen' = IF screen = "stock" THEN 0 ELSE offScreen + 1
  /\ UNCHANGED <<screenVars, configVars, valid, labels, answered>>
Round ==
  /\ thread = Waiting /\ Stocks # {}
  /\ screen = "stock"
  /\ thread' = 1
  /\ offScreen' = 0
  /\ UNCHANGED <<screenVars, configVars, valid, labels, answered>>

\* stock_fetch_data of this stock returns; the result is stored and the next
\* fetch of the round begins, whatever screen is shown by then.
FetchKeepsOld(ok) ==              \* mutant: a failure leaves the old quote
  /\ thread # Waiting
  /\ valid' = [valid EXCEPT ![thread] = ok \/ @]
  /\ answered' = [answered EXCEPT ![thread] = IF ok THEN "quote" ELSE "failed"]
  /\ thread' = IF thread = StockCount THEN Waiting ELSE thread + 1
  /\ offScreen' = IF screen = "stock" THEN 0
                  ELSE IF thread' = Waiting THEN offScreen ELSE offScreen + 1
  /\ UNCHANGED <<screenVars, configVars, labels>>
FetchOneStock(ok) ==              \* mutant: the round ends after one stock
  /\ thread # Waiting
  /\ valid' = [valid EXCEPT ![thread] = ok]
  /\ answered' = [answered EXCEPT ![thread] = IF ok THEN "quote" ELSE "failed"]
  /\ thread' = Waiting
  /\ UNCHANGED <<screenVars, configVars, labels, offScreen>>
Fetched(ok) ==
  /\ thread # Waiting
  /\ valid' = [valid EXCEPT ![thread] = ok]
  /\ answered' = [answered EXCEPT ![thread] = IF ok THEN "quote" ELSE "failed"]
  /\ thread' = IF thread = StockCount THEN Waiting ELSE thread + 1
  /\ offScreen' = IF screen = "stock" THEN 0
                  ELSE IF thread' = Waiting THEN offScreen ELSE offScreen + 1
  /\ UNCHANGED <<screenVars, configVars, labels>>

\* stock_update_display, on every screen.
UpdateDisplay ==
  /\ labels' = [s \in Stocks |-> IF valid[s] THEN "quote" ELSE "N/A"]
  /\ UNCHANGED <<screenVars, configVars, valid, thread, answered, offScreen>>

Fetch == \E ok \in BOOLEAN : Fetched(ok)

Next ==
  \/ Load \/ ScreenInit
  \/ ~loading /\ ScreensNext /\ UNCHANGED <<configVars, stockVars>>
  \/ Round
  \/ Fetch
  \/ ~loading /\ UpdateDisplay

Spec == Init /\ [][Next]_vars

\* The file has an end; time passes and the UI loop calls its timers; the
\* thread is scheduled and a request ends (recv gives up after five seconds).
\* The user need not do anything.
FairSpec ==
  /\ Spec
  /\ WF_vars(ScreenInit)
  /\ WF_vars(~loading /\ (ClockTick \/ IdleExpires) /\ UNCHANGED <<configVars, stockVars>>)
  /\ WF_vars(Round) /\ WF_vars(Fetch) /\ WF_vars(~loading /\ UpdateDisplay)
-----------------------------------------------------------------------------
TypeOK ==
  /\ ScreensTypeOK /\ ConfigTypeOK
  /\ valid \in [Stocks -> BOOLEAN]
  /\ labels \in [Stocks -> {"---", "N/A", "quote"}]
  /\ thread \in 0 .. StockCount
  /\ answered \in [Stocks -> {"never", "failed", "quote"}]
  /\ offScreen \in Nat

\* A round outlives the screen it was begun for, by no more than its rest:
\* what leaving the stock screen can still cost in traffic.
TrafficBounded == offScreen > 0 => offScreen < StockCount

\* While the stock screen stays up every stock is fetched again and again.
RefreshedWhileShown ==
  \A s \in 1 .. MaxStocks :
    <>[](screen = "stock" /\ s \in Stocks) => []<>(thread = s)

\* A price that could not be renewed does not stay on the screen.
FailureIsShown ==
  \A s \in 1 .. MaxStocks :
    (s \in Stocks /\ answered[s] = "failed")
       ~> (s \in Stocks /\ (answered[s] # "failed" \/ labels[s] = "N/A"))
=============================================================================
