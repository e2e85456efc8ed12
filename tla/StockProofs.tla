----------------------------- MODULE StockProofs -----------------------------
(***************************************************************************)
(* For every number of stocks, every configuration file and every length   *)
(* of the idle timer: the timer of the menu exists exactly while the menu  *)
(* is shown, a stock gets the code its own section gives it, no line       *)
(* reaches another stock than the last, and a round that outlives the      *)
(* stock screen ends with the rest of its stocks.                          *)
(***************************************************************************)
EXTENDS StockUpdate, TLAPS

\* The stock that lines go to is the last one, or none.
LastOrNone == current \in {0, Len(codes)}

\* What has been read so far, while every section had its place.
ReadSoFar ==
  loading /\ ~foreign /\ Len(written) <= MaxStocks =>
    /\ codes = written
    /\ section \in {"none", "settings"} => current = 0
    /\ section = "stock" => current = Len(codes) /\ current # 0
    /\ section # "other"

\* Before the end of the file nothing is fetched.
NotYet ==
  loading => /\ thread = Waiting /\ offScreen = 0
             /\ valid = <<>> /\ labels = <<>> /\ answered = <<>>

\* What is written down of the sections read.
WrittenIs == written \in Seq(Codes \cup {Unset})

\* The fetches of a round that were begun off the screen are among those
\* before the one that is due.
RestOfRound ==
  offScreen # 0 => offScreen < IF thread = Waiting THEN StockCount ELSE thread

IInv ==
  /\ TypeOK /\ TimerOnlyOnMenu
  /\ LastOrNone /\ WrittenIs /\ ReadSoFar
  /\ NotYet /\ RestOfRound

-----------------------------------------------------------------------------
\* The codes read, and the count of the stocks.
LEMMA Codes1 ==
  ASSUME TypeOK
  PROVE  /\ codes \in Seq(Codes \cup {Unset}) /\ Len(codes) \in Nat
         /\ DOMAIN codes = 1 .. Len(codes) /\ Len(codes) <= MaxStocks
         /\ StockCount \in Nat /\ thread \in 0 .. StockCount /\ offScreen \in Nat
<1>1. codes \in Seq(Codes \cup {Unset}) /\ Len(codes) <= MaxStocks
  BY DEF TypeOK, ConfigTypeOK
<1>2. Len(codes) \in Nat /\ DOMAIN codes = 1 .. Len(codes)
  BY <1>1
<1>3. StockCount \in Nat
  BY <1>2 DEF StockCount
<1> QED BY <1>1, <1>2, <1>3 DEF TypeOK

\* A sequence with one place overwritten, or none if there is no such place.
LEMMA SetAt ==
  ASSUME NEW S, NEW s \in Seq(S), NEW c \in S, NEW k
  PROVE  /\ [s EXCEPT ![k] = c] \in Seq(S)
         /\ Len([s EXCEPT ![k] = c]) = Len(s)
         /\ \A i \in 1 .. Len(s) : i # k => [s EXCEPT ![k] = c][i] = s[i]
<1>1. DOMAIN s = 1 .. Len(s) /\ Len(s) \in Nat
  OBVIOUS
<1>2. CASE k \in 1 .. Len(s)
  BY <1>1, <1>2
<1>3. CASE k \notin 1 .. Len(s)
  <2>1. [s EXCEPT ![k] = c] = s
    <3>1. s = [i \in 1 .. Len(s) |-> s[i]]
      BY <1>1
    <3> QED BY <1>1, <1>3, <3>1
  <2> QED BY <2>1
<1> QED BY <1>2, <1>3

\* What the types of the configuration come to after a line.
LEMMA ConfigTypes ==
  ASSUME loading' \in BOOLEAN, foreign' \in BOOLEAN,
         section' \in {"none", "stock", "settings", "other"},
         codes' \in Seq(Codes \cup {Unset}), Len(codes') <= MaxStocks,
         current' \in 0 .. Len(codes'), interval' \in Nat \ {0}
  PROVE  ConfigTypeOK'
BY Zenon DEF ConfigTypeOK

LEMMA InitIInv == ASSUME Init PROVE IInv
<1>1. <<>> \in Seq(Codes \cup {Unset})
  OBVIOUS
<1>2. codes \in Seq(Codes \cup {Unset}) /\ written \in Seq(Codes \cup {Unset})
  BY <1>1, Zenon DEF Init, ConfigInit
<1>3. codes = <<>> /\ Len(codes) = 0 /\ written = codes
  BY DEF Init, ConfigInit
<1>4. ScreensTypeOK /\ TimerOnlyOnMenu
  BY IdleAssumption DEF Init, ScreensInit, ScreensTypeOK, Screens, TimerOnlyOnMenu, NoTimer
<1>5. ConfigTypeOK
  <2>1. Len(codes) <= MaxStocks /\ current \in 0 .. Len(codes) /\ interval \in Nat \ {0}
    BY <1>3, ConfigAssumption DEF Init, ConfigInit
  <2>2. loading \in BOOLEAN /\ foreign \in BOOLEAN /\ section = "none"
    BY DEF Init, ConfigInit
  <2> QED BY <1>2, <2>1, <2>2, Zenon DEF ConfigTypeOK
<1>6. Stocks = {} /\ StockCount = 0
  BY DEF Init, ConfigInit, Stocks, StockCount
<1>7. /\ valid \in [Stocks -> BOOLEAN] /\ labels \in [Stocks -> {"---", "N/A", "quote"}]
      /\ answered \in [Stocks -> {"never", "failed", "quote"}]
  BY <1>6 DEF Init
<1>8. TypeOK
  BY <1>4, <1>5, <1>6, <1>7 DEF Init, TypeOK, Waiting
<1> QED BY <1>2, <1>3, <1>4, <1>8
  DEF Init, ConfigInit, IInv, LastOrNone, WrittenIs, ReadSoFar, NotYet, RestOfRound
-----------------------------------------------------------------------------
\* A line of the file.
LEMMA LineIInv ==
  ASSUME IInv, Load
  PROVE  IInv' /\ \A i \in 1 .. Len(codes) : codes'[i] # codes[i] => i = Len(codes)
<1> USE ConfigAssumption
<1>0. /\ loading /\ loading' = loading /\ UNCHANGED <<screen, idle, valid, labels, thread, answered, offScreen>>
      /\ TypeOK /\ ConfigTypeOK /\ LastOrNone /\ WrittenIs /\ ReadSoFar
  <2>1. loading /\ loading' = loading
    BY DEF Load, Line, StockSection, SettingsSection, OtherSection, CodeLine,
       IntervalLine
  <2> QED BY <2>1 DEF Load, screenVars, stockVars, IInv, TypeOK
<1>t. /\ loading \in BOOLEAN /\ foreign \in BOOLEAN /\ interval \in Nat \ {0}
      /\ section \in {"none", "stock", "settings", "other"}
      /\ current \in 0 .. Len(codes)
  BY <1>0, Zenon DEF ConfigTypeOK
<1>1. /\ codes \in Seq(Codes \cup {Unset}) /\ Len(codes) \in Nat
      /\ DOMAIN codes = 1 .. Len(codes) /\ Len(codes) <= MaxStocks
  BY <1>0, Codes1
<1>2. /\ written \in Seq(Codes \cup {Unset}) /\ Len(written) \in Nat
      /\ DOMAIN written = 1 .. Len(written)
  <2>1. written \in Seq(Codes \cup {Unset})
    BY <1>0 DEF WrittenIs
  <2> QED BY <2>1
<1>3. SUFFICES /\ ConfigTypeOK' /\ LastOrNone' /\ WrittenIs' /\ ReadSoFar'
               /\ \A i \in 1 .. Len(codes) : codes'[i] # codes[i] => i = Len(codes)
  <2>1. UNCHANGED <<StockCount, Stocks>> /\ Stocks = {}
    BY <1>0 DEF StockCount, Stocks
  <2>2. ScreensTypeOK' /\ TimerOnlyOnMenu'
    BY <1>0 DEF IInv, TypeOK, ScreensTypeOK, TimerOnlyOnMenu
  <2>3. ConfigTypeOK' => TypeOK'
    BY <1>0, <2>1, <2>2 DEF TypeOK
  <2>4. NotYet' /\ RestOfRound'
    BY <1>0, <2>1 DEF IInv, NotYet, RestOfRound
  <2> QED BY <2>2, <2>3, <2>4 DEF IInv
<1>4. CASE StockSection
  <2>1. /\ section' = "stock" /\ written' = Append(written, Unset)
        /\ UNCHANGED <<interval, foreign>>
        /\ \/ Len(codes) < MaxStocks /\ codes' = Append(codes, Unset) /\ current' = Len(codes')
           \/ Len(codes) = MaxStocks /\ codes' = codes /\ current' = current
    <3> DEFINE n == Len(codes)
    <3>0. n \in Nat /\ MaxStocks \in Nat /\ n <= MaxStocks
      BY <1>1
    <3> HIDE DEF n
    <3>1. n < MaxStocks \/ n = MaxStocks
      BY <3>0
    <3>2. n = MaxStocks => ~(n < MaxStocks)
      BY <3>0
    <3> USE DEF n
    <3> QED BY <1>4, <3>1, <3>2, Zenon DEF StockSection
  <2>2. /\ written' \in Seq(Codes \cup {Unset}) /\ Len(written') = Len(written) + 1
    BY <1>2, <2>1
  <2>3. CASE Len(codes) < MaxStocks /\ codes' = Append(codes, Unset) /\ current' = Len(codes')
    <3>1. /\ codes' \in Seq(Codes \cup {Unset}) /\ Len(codes') = Len(codes) + 1
          /\ \A i \in 1 .. Len(codes) : codes'[i] = codes[i]
      BY <1>1, <2>3
    <3>2. ConfigTypeOK'
      <4>1. Len(codes') <= MaxStocks /\ current' \in 0 .. Len(codes')
        BY <1>1, <2>3, <3>1
      <4>2. section' \in {"none", "stock", "settings", "other"}
        BY <2>1
      <4> QED BY <1>0, <1>t, <2>1, <3>1, <4>1, <4>2, ConfigTypes, Zenon
    <3>4. LastOrNone' /\ WrittenIs'
      BY <2>1, <2>2, <2>3 DEF LastOrNone, WrittenIs
    <3>3. ReadSoFar'
      <4>1. ASSUME ~foreign', Len(written') <= MaxStocks PROVE codes = written
        BY <1>0, <1>2, <2>1, <2>2, <4>1 DEF ReadSoFar
      <4>2. current' # 0
        BY <1>1, <2>3, <3>1
      <4> QED BY <2>1, <2>3, <4>1, <4>2 DEF ReadSoFar
    <3> QED BY <3>1, <3>2, <3>3, <3>4
  <2>4. CASE Len(codes) = MaxStocks /\ codes' = codes /\ current' = current
    <3>1. ReadSoFar'
      <4>1. ASSUME ~foreign', Len(written') <= MaxStocks PROVE FALSE
        <5>1. codes = written
          BY <1>0, <1>2, <2>1, <2>2, <4>1 DEF ReadSoFar
        <5> QED BY <1>1, <1>2, <2>2, <2>4, <4>1, <5>1
      <4> QED BY <4>1 DEF ReadSoFar
    <3>2. section' \in {"none", "stock", "settings", "other"}
      BY <2>1
    <3>3. ConfigTypeOK'
      BY <1>0, <1>1, <1>t, <2>1, <2>4, <3>2, ConfigTypes
    <3> QED BY <1>0, <2>1, <2>2, <2>4, <3>1, <3>3 DEF LastOrNone, WrittenIs
  <2> QED BY <2>1, <2>3, <2>4
<1>5. CASE SettingsSection \/ OtherSection
  <2>1. UNCHANGED <<codes, interval, written>>
    BY <1>5 DEF SettingsSection, OtherSection
  <2>2. \/ section' = "settings" /\ current' = 0 /\ foreign' = foreign
        \/ section' = "other" /\ current' = current /\ foreign' = TRUE
    BY <1>5 DEF SettingsSection, OtherSection
  <2>3. ConfigTypeOK'
    <3>1. section' \in {"none", "stock", "settings", "other"} /\ foreign' \in BOOLEAN
      BY <1>t, <2>2
    <3>2. current' \in 0 .. Len(codes') /\ codes' = codes /\ interval' = interval
      BY <1>1, <1>t, <2>1, <2>2
    <3> QED BY <1>0, <1>1, <1>t, <3>1, <3>2, ConfigTypes
  <2> QED BY <1>0, <2>1, <2>2, <2>3 DEF LastOrNone, WrittenIs, ReadSoFar
<1>6. ASSUME NEW c \in Codes, CodeLine(c)
      PROVE  /\ ConfigTypeOK' /\ LastOrNone' /\ WrittenIs' /\ ReadSoFar'
             /\ \A i \in 1 .. Len(codes) : codes'[i] # codes[i] => i = Len(codes)
  <2>1. /\ section # "settings" /\ current = Len(codes) /\ Len(codes) # 0
        /\ codes' = [codes EXCEPT ![Len(codes)] = c]
        /\ written' = IF section = "stock" THEN [written EXCEPT ![Len(written)] = c]
                      ELSE written
        /\ UNCHANGED <<section, current, interval, foreign>>
    BY <1>0, <1>6 DEF CodeLine, LastOrNone
  <2>2. /\ codes' \in Seq(Codes \cup {Unset}) /\ Len(codes') = Len(codes)
        /\ \A i \in 1 .. Len(codes) : i # Len(codes) => codes'[i] = codes[i]
    <3>1. c \in Codes \cup {Unset}
      OBVIOUS
    <3> DEFINE k == Len(codes)
    <3>2. /\ [codes EXCEPT ![k] = c] \in Seq(Codes \cup {Unset})
          /\ Len([codes EXCEPT ![k] = c]) = Len(codes)
          /\ \A i \in 1 .. Len(codes) : i # k => [codes EXCEPT ![k] = c][i] = codes[i]
      <4> HIDE DEF k
      <4> QED BY <1>1, <3>1, SetAt
    <3> QED BY <2>1, <3>2
  <2>3. written' \in Seq(Codes \cup {Unset}) /\ Len(written') = Len(written)
    BY <1>2, <2>1, SetAt
  <2>4. ConfigTypeOK' /\ LastOrNone' /\ WrittenIs'
    <3>1. ConfigTypeOK'
      BY <1>0, <1>1, <1>t, <2>1, <2>2, ConfigTypes
    <3> QED BY <1>0, <2>1, <2>2, <2>3, <3>1 DEF LastOrNone, WrittenIs
  <2>5. ReadSoFar'
    <3>1. ASSUME ~foreign', Len(written') <= MaxStocks
          PROVE  codes' = written' /\ section = "stock"
      <4>1. codes = written /\ section # "other"
            /\ (section \in {"none", "settings"} => current = 0)
        BY <1>0, <2>1, <2>3, <3>1 DEF ReadSoFar
      <4>2. section = "stock"
        BY <1>0, <2>1, <4>1 DEF ConfigTypeOK
      <4> QED BY <2>1, <4>1, <4>2
    <3> QED BY <2>1, <2>2, <3>1 DEF ReadSoFar
  <2> QED BY <2>2, <2>4, <2>5
<1>7. ASSUME NEW n \in Intervals, IntervalLine(n)
      PROVE  /\ ConfigTypeOK' /\ LastOrNone' /\ WrittenIs' /\ ReadSoFar'
             /\ \A i \in 1 .. Len(codes) : codes'[i] # codes[i] => i = Len(codes)
  <2>1. UNCHANGED <<section, current, codes, written, foreign>>
        /\ interval' = IF n < 1 THEN 5 ELSE n
    BY <1>7 DEF IntervalLine
  <2>2. interval' \in Nat \ {0}
    BY <2>1
  <2>3. ConfigTypeOK'
    BY <1>0, <1>1, <1>t, <2>1, <2>2, ConfigTypes
  <2> QED BY <1>0, <2>1, <2>3 DEF LastOrNone, WrittenIs, ReadSoFar
<1> QED BY <1>4, <1>5, <1>6, <1>7 DEF Load, Line

\* The end of the file.
LEMMA LoadedIInv == ASSUME IInv, ScreenInit PROVE IInv'
<1>1. /\ codes \in Seq(Codes \cup {Unset}) /\ Len(codes) \in Nat
      /\ DOMAIN codes = 1 .. Len(codes)
  BY Codes1 DEF IInv
<1>2. /\ loading' = FALSE /\ section' = "none" /\ current' = 0 /\ foreign' = FALSE
      /\ written' = <<>> /\ UNCHANGED <<codes, interval, screen, idle, thread, offScreen>>
      /\ thread = Waiting /\ offScreen = 0
  BY DEF ScreenInit, EndOfFile, screenVars, IInv, NotYet
<1>3. StockCount' = Len(codes) /\ Stocks' = DOMAIN codes
  BY <1>1, <1>2 DEF StockCount, Stocks
<1>4. /\ valid' \in [Stocks' -> BOOLEAN] /\ labels' \in [Stocks' -> {"---", "N/A", "quote"}]
      /\ answered' \in [Stocks' -> {"never", "failed", "quote"}]
  BY <1>3 DEF ScreenInit
<1>5. ConfigTypeOK'
  <2>1. interval \in Nat \ {0} /\ Len(codes) <= MaxStocks
    BY DEF IInv, TypeOK, ConfigTypeOK
  <2>2. current' \in 0 .. Len(codes')
    BY <1>1, <1>2
  <2>3. section' \in {"none", "stock", "settings", "other"}
        /\ loading' \in BOOLEAN /\ foreign' \in BOOLEAN
    BY <1>2
  <2> QED BY <1>1, <1>2, <2>1, <2>2, <2>3, ConfigTypes
<1>6. ScreensTypeOK' /\ TimerOnlyOnMenu'
  BY <1>2 DEF IInv, TypeOK, ScreensTypeOK, TimerOnlyOnMenu
<1>7. TypeOK'
  BY <1>1, <1>2, <1>3, <1>4, <1>5, <1>6 DEF TypeOK, Waiting
<1>8. WrittenIs'
  <2>1. <<>> \in Seq(Codes \cup {Unset})
    OBVIOUS
  <2> QED BY <1>2, <2>1, Zenon DEF WrittenIs
<1> QED BY <1>2, <1>6, <1>7, <1>8
  DEF IInv, LastOrNone, ReadSoFar, NotYet, RestOfRound

\* A step of the screens.
LEMMA ScreensIInv ==
  ASSUME IInv, ScreensNext, UNCHANGED <<configVars, stockVars>>
  PROVE  IInv'
<1> USE IdleAssumption
<1>1. UNCHANGED <<loading, section, current, codes, interval, written, foreign,
                  valid, labels, thread, answered, offScreen>>
  BY DEF configVars, stockVars
<1>2. screen \in Screens /\ idle \in 0 .. NoTimer /\ (screen = "menu" <=> idle # NoTimer)
  BY DEF IInv, TypeOK, ScreensTypeOK, TimerOnlyOnMenu
<1>3. screen' \in Screens /\ idle' \in 0 .. NoTimer /\ (screen' = "menu" <=> idle' # NoTimer)
  <2>1. ASSUME NEW way \in {LeftOf, RightOf, DownOf}, Swipe(way)
        PROVE  screen' \in Screens /\ idle' \in 0 .. NoTimer /\ (screen' = "menu" <=> idle' # NoTimer)
    <3>1. screen # "menu" /\ screen' \in Screens
      BY <2>1 DEF Swipe, LeftOf, RightOf, DownOf, Screens
    <3> QED BY <1>2, <2>1, <3>1 DEF Swipe, StartIdle, NoTimer
  <2>2. ASSUME NEW s \in Screens \ {"menu"}, ClickItem(s)
        PROVE  screen' \in Screens /\ idle' \in 0 .. NoTimer /\ (screen' = "menu" <=> idle' # NoTimer)
    BY <2>2 DEF ClickItem, StopIdle, NoTimer
  <2>3. CASE IdleExpires
    BY <1>2, <2>3 DEF IdleExpires, StopIdle, NoTimer, Screens
  <2>4. CASE ClockTick
    BY <1>2, <2>4 DEF ClockTick, NoTimer
  <2> QED BY <2>1, <2>2, <2>3, <2>4 DEF ScreensNext, User
<1>4. UNCHANGED <<StockCount, Stocks>>
  BY <1>1 DEF StockCount, Stocks
<1>5. ConfigTypeOK'
  BY <1>1 DEF IInv, TypeOK, ConfigTypeOK
<1>6. TypeOK'
  BY <1>1, <1>3, <1>4, <1>5 DEF IInv, TypeOK, ScreensTypeOK
<1> QED BY <1>1, <1>3, <1>4, <1>6
  DEF IInv, TimerOnlyOnMenu, LastOrNone, WrittenIs, ReadSoFar, NotYet, RestOfRound

\* The thread and the timer that shows the results.
LEMMA ThreadIInv ==
  ASSUME IInv, Round \/ Fetch \/ (~loading /\ UpdateDisplay) PROVE IInv'
<1>1. UNCHANGED <<screen, idle, loading, section, current, codes, interval, written,
                  foreign>>
  BY DEF Round, Fetch, Fetched, UpdateDisplay, screenVars, configVars
<1>2. ~loading
  <2>1. CASE Round
    BY <2>1 DEF Round, Stocks, StockCount
  <2>2. CASE Fetch
    BY <2>2 DEF Fetch, Fetched, IInv, NotYet
  <2> QED BY <2>1, <2>2
<1>3. /\ StockCount \in Nat /\ thread \in 0 .. StockCount /\ offScreen \in Nat
      /\ Stocks = 1 .. StockCount
      /\ valid \in [Stocks -> BOOLEAN] /\ labels \in [Stocks -> {"---", "N/A", "quote"}]
      /\ answered \in [Stocks -> {"never", "failed", "quote"}]
  BY Codes1 DEF IInv, TypeOK, Stocks
<1>4. UNCHANGED <<StockCount, Stocks>>
  BY <1>1 DEF StockCount, Stocks
<1>5. ScreensTypeOK' /\ ConfigTypeOK' /\ TimerOnlyOnMenu'
  BY <1>1 DEF IInv, TypeOK, ScreensTypeOK, ConfigTypeOK, TimerOnlyOnMenu
<1>6. SUFFICES /\ valid' \in [Stocks -> BOOLEAN] /\ labels' \in [Stocks -> {"---", "N/A", "quote"}]
               /\ answered' \in [Stocks -> {"never", "failed", "quote"}]
               /\ thread' \in 0 .. StockCount /\ offScreen' \in Nat /\ RestOfRound'
  <2>1. TypeOK'
    BY <1>4, <1>5, <1>6 DEF TypeOK
  <2> QED BY <1>1, <1>2, <1>5, <1>6, <2>1
    DEF IInv, LastOrNone, WrittenIs, ReadSoFar, NotYet
<1>7. CASE Round
  <2>1. /\ thread' = 1 /\ offScreen' = 0 /\ Stocks # {}
        /\ UNCHANGED <<valid, labels, answered>>
    BY <1>7 DEF Round
  <2>2. 1 \in 0 .. StockCount
    BY <1>3, <2>1
  <2> QED BY <1>3, <2>1, <2>2 DEF RestOfRound
<1>8. CASE Fetch
  <2>1. PICK ok \in BOOLEAN : Fetched(ok)
    BY <1>8 DEF Fetch
  <2>2. /\ thread # Waiting
        /\ valid' = [valid EXCEPT ![thread] = ok]
        /\ answered' = [answered EXCEPT ![thread] = IF ok THEN "quote" ELSE "failed"]
        /\ thread' = IF thread = StockCount THEN Waiting ELSE thread + 1
        /\ offScreen' = IF screen = "stock" THEN 0
                        ELSE IF thread' = Waiting THEN offScreen ELSE offScreen + 1
        /\ labels' = labels
    BY <2>1 DEF Fetched
  <2>3. valid' \in [Stocks -> BOOLEAN] /\ answered' \in [Stocks -> {"never", "failed", "quote"}]
    BY <1>3, <2>2
  <2>4. thread' \in 0 .. StockCount /\ offScreen' \in Nat
    BY <1>3, <2>2 DEF Waiting
  <2>5. RestOfRound'
    <3>1. offScreen < thread
      BY <1>3, <2>2 DEF IInv, RestOfRound, Waiting
    <3> QED BY <1>3, <1>4, <2>2, <3>1 DEF RestOfRound, Waiting
  <2> QED BY <1>3, <2>2, <2>3, <2>4, <2>5
<1>9. CASE UpdateDisplay
  <2>1. labels' = [s \in Stocks |-> IF valid[s] THEN "quote" ELSE "N/A"]
        /\ UNCHANGED <<valid, thread, answered, offScreen>>
    BY <1>9 DEF UpdateDisplay
  <2> QED BY <1>3, <1>4, <2>1 DEF IInv, RestOfRound
<1> QED BY <1>7, <1>8, <1>9

\* The invariant holds in every state.
LEMMA NextIInv == ASSUME IInv, [Next]_vars PROVE IInv'
<1>1. CASE Next
  BY <1>1, LineIInv, LoadedIInv, ScreensIInv, ThreadIInv DEF Next
<1>2. CASE UNCHANGED vars
  <2>1. UNCHANGED <<screen, idle, loading, section, current, codes, interval, written,
                    foreign, valid, labels, thread, answered, offScreen>>
    BY <1>2 DEF vars, screenVars, configVars, stockVars
  <2>2. UNCHANGED <<StockCount, Stocks>>
    BY <2>1 DEF StockCount, Stocks
  <2>3. TypeOK'
    BY <2>1, <2>2 DEF IInv, TypeOK, ScreensTypeOK, ConfigTypeOK
  <2> QED BY <2>1, <2>2, <2>3
    DEF IInv, TimerOnlyOnMenu, LastOrNone, WrittenIs, ReadSoFar, NotYet, RestOfRound
<1> QED BY <1>1, <1>2

LEMMA Inductive == Spec => []IInv
BY InitIInv, NextIInv, PTL DEF Spec
-----------------------------------------------------------------------------
\* Types; the array of stocks keeps to MAX_STOCKS and the interval is not 0.
THEOREM TypeOKAlways == Spec => []TypeOK
<1>1. IInv => TypeOK
  BY DEF IInv
<1> QED BY Inductive, <1>1, PTL

\* The idle timer exists exactly while the menu is shown.
THEOREM TimerOnlyOnMenuAlways == Spec => []TimerOnlyOnMenu
<1>1. IInv => TimerOnlyOnMenu
  BY DEF IInv
<1> QED BY Inductive, <1>1, PTL

\* Every stock has the code that its own section gives it.
THEOREM OwnCodeAlways == Spec => []OwnCode
<1>1. IInv => OwnCode
  BY DEF IInv, ReadSoFar, OwnCode
<1> QED BY Inductive, <1>1, PTL

\* A round outlives the stock screen by no more than its rest.
THEOREM TrafficIsBounded == Spec => []TrafficBounded
<1>1. IInv => TrafficBounded
  <2>1. ASSUME IInv, offScreen > 0 PROVE offScreen < StockCount
    <3>1. StockCount \in Nat /\ thread \in 0 .. StockCount /\ offScreen \in Nat
      BY <2>1, Codes1 DEF IInv
    <3> QED BY <2>1, <3>1 DEF IInv, RestOfRound
  <2> QED BY <2>1 DEF TrafficBounded
<1> QED BY Inductive, <1>1, PTL

\* No line of the file reaches another stock than the one read last.
THEOREM OnlyTheLastStock == Spec => LastStockOnly
<1> DEFINE A == \A i \in 1 .. Len(codes) : codes'[i] # codes[i] => i = Len(codes)
<1>1. IInv /\ [Next]_vars => [A]_configVars
  <2> SUFFICES ASSUME IInv, [Next]_vars PROVE [A]_configVars
    OBVIOUS
  <2>1. CASE Load
    BY <2>1, LineIInv
  <2>2. CASE ScreenInit
    BY <2>2 DEF ScreenInit, EndOfFile
  <2>3. CASE UNCHANGED configVars
    BY <2>3
  <2> QED BY <2>1, <2>2, <2>3 DEF Next, Round, Fetch, Fetched, UpdateDisplay, vars
<1> QED BY Inductive, <1>1, PTL DEF LastStockOnly, Spec

-----------------------------------------------------------------------------
(* What the prices on the screen say. *)

\* A stock is marked valid as long as its last fetch gave a quote, and no
\* price is on the screen before the first one.
AnsweredIs ==
  \A s \in Stocks : /\ valid[s] = (answered[s] = "quote")
                    /\ labels[s] = "quote" => answered[s] # "never"

LEMMA AnsweredStep ==
  ASSUME IInv, AnsweredIs, [Next]_vars
  PROVE  AnsweredIs'
<1>1. /\ valid \in [Stocks -> BOOLEAN] /\ labels \in [Stocks -> {"---", "N/A", "quote"}]
      /\ answered \in [Stocks -> {"never", "failed", "quote"}]
      /\ Stocks = 1 .. StockCount /\ StockCount \in Nat /\ thread \in 0 .. StockCount
  BY Codes1 DEF IInv, TypeOK, Stocks
<1>2. UNCHANGED <<loading, codes>> => UNCHANGED Stocks
  BY DEF StockCount, Stocks
<1>3. CASE Load
  <2>1. loading' /\ UNCHANGED stockVars
    BY <1>3 DEF Load, Line, StockSection, SettingsSection, OtherSection, CodeLine, IntervalLine
  <2>2. Stocks' = {}
    BY <2>1 DEF Stocks, StockCount
  <2> QED BY <2>2 DEF AnsweredIs
<1>4. CASE ScreenInit
  <2>1. Stocks' = DOMAIN codes
    BY <1>4, Codes1 DEF ScreenInit, EndOfFile, Stocks, StockCount, IInv
  <2> QED BY <1>4, <2>1 DEF ScreenInit, AnsweredIs
<1>5. CASE Round \/ UNCHANGED stockVars
  <2>1. CASE loading' # loading \/ codes' # codes
    <3>1. Load \/ ScreenInit
      BY <2>1 DEF Next, Round, Fetch, Fetched, UpdateDisplay, vars, configVars
    <3> QED BY <3>1, <1>3, <1>4
  <2>2. CASE UNCHANGED <<loading, codes>>
    BY <1>2, <1>5, <2>2 DEF Round, stockVars, AnsweredIs
  <2> QED BY <2>1, <2>2
<1>6. CASE Fetch
  <2>1. PICK ok \in BOOLEAN : Fetched(ok)
    BY <1>6 DEF Fetch
  <2>2. /\ thread \in Stocks /\ UNCHANGED <<labels, Stocks>>
        /\ valid' = [valid EXCEPT ![thread] = ok]
        /\ answered' = [answered EXCEPT ![thread] = IF ok THEN "quote" ELSE "failed"]
    BY <1>1, <1>2, <2>1 DEF Fetched, Waiting, configVars
  <2>3. ASSUME NEW s \in Stocks, s # thread
        PROVE  valid'[s] = valid[s] /\ answered'[s] = answered[s]
    BY <1>1, <2>2, <2>3
  <2>4. /\ valid'[thread] = ok
        /\ answered'[thread] = IF ok THEN "quote" ELSE "failed"
    BY <1>1, <2>2
  <2>5. ASSUME NEW s \in Stocks
        PROVE  /\ valid'[s] = (answered'[s] = "quote")
               /\ labels'[s] = "quote" => answered'[s] # "never"
    BY <2>2, <2>3, <2>4 DEF AnsweredIs
  <2> QED BY <2>2, <2>5 DEF AnsweredIs
<1>7. CASE ~loading /\ UpdateDisplay
  <2>1. /\ labels' = [s \in Stocks |-> IF valid[s] THEN "quote" ELSE "N/A"]
        /\ UNCHANGED <<valid, answered, Stocks>>
    BY <1>2, <1>7 DEF UpdateDisplay, configVars
  <2> QED BY <1>1, <2>1 DEF AnsweredIs
<1> QED BY <1>3, <1>4, <1>5, <1>6, <1>7 DEF Next, vars

\* What stock_update_display writes: a price for a stock whose last fetch gave
\* a quote, and no price for any other, whatever it showed before.
PricesTell ==
  [][labels' # labels /\ ~loading =>
       \A s \in Stocks : labels'[s] = IF answered[s] = "quote" THEN "quote" ELSE "N/A"]_vars

\* A price is put on the screen, or kept there, by the last fetch of its own
\* stock only, and none is shown before the first: the safety half of
\* FailureIsShown, for every number of stocks, with rounds that outlive the
\* stock screen (stock_update_thread, stock_update_display).
THEOREM PricesTellAlways == Spec => []AnsweredIs /\ PricesTell
<1> DEFINE Tell ==
      labels' # labels /\ ~loading =>
        \A s \in Stocks : labels'[s] = IF answered[s] = "quote" THEN "quote" ELSE "N/A"
<1>1. ASSUME Init PROVE AnsweredIs
  <2>1. Stocks = {}
    BY <1>1 DEF Init, ConfigInit, Stocks, StockCount
  <2> QED BY <2>1 DEF AnsweredIs
<1>2. IInv /\ AnsweredIs /\ [Next]_vars => AnsweredIs'
  BY AnsweredStep
<1>3. ASSUME IInv, AnsweredIs, [Next]_vars, labels' # labels, ~loading
      PROVE  \A s \in Stocks : labels'[s] = IF answered[s] = "quote" THEN "quote" ELSE "N/A"
  <2>1. labels' = [s \in Stocks |-> IF valid[s] THEN "quote" ELSE "N/A"]
    BY <1>3 DEF Next, Load, ScreenInit, Round, Fetch, Fetched, UpdateDisplay, vars, stockVars
  <2> QED BY <1>3, <2>1 DEF AnsweredIs
<1>4. IInv /\ AnsweredIs /\ [Next]_vars => [Tell]_vars
  BY <1>3
<1> QED BY <1>1, <1>2, <1>4, Inductive, PTL DEF Spec, PricesTell
-----------------------------------------------------------------------------
(* Why the menu is left. *)

\* While the menu is shown its idle timer exists, runs to its limit and is not
\* put off by anything that keeps the menu up; each tick brings it on.
IdleRunsOn ==
  [][screen = "menu" /\ ~loading =>
       /\ idle \in 0 .. IdleLimit
       /\ screen' = "menu" => idle' >= idle /\ (ClockTick => idle' > idle)]_vars

\* The safety core of MenuIsLeft, for every limit: no swipe and no item starts
\* the timer again without leaving the menu (menu.c, gesture_event_cb).
THEOREM IdleTimerIsNotPutOff == Spec => IdleRunsOn
<1> DEFINE RunsOn ==
      screen = "menu" /\ ~loading =>
        /\ idle \in 0 .. IdleLimit
        /\ screen' = "menu" => idle' >= idle /\ (ClockTick => idle' > idle)
<1>1. IInv /\ screen = "menu" => idle \in 0 .. IdleLimit
  BY IdleAssumption DEF IInv, TimerOnlyOnMenu, TypeOK, ScreensTypeOK, NoTimer
<1>2. ASSUME IInv, Next, screen = "menu", screen' = "menu"
      PROVE  idle' >= idle /\ (ClockTick => idle' > idle)
  <2>1. idle \in Nat /\ idle # NoTimer
    BY <1>1, <1>2, IdleAssumption DEF NoTimer
  <2>2. CASE ClockTick
    BY <2>1, <2>2 DEF ClockTick
  <2>3. UNCHANGED idle \/ ClockTick
    BY <1>2 DEF Next, Load, ScreenInit, ScreensNext, User, Swipe, ClickItem, IdleExpires,
       Round, Fetch, Fetched, UpdateDisplay, LeftOf, RightOf, DownOf, screenVars
  <2>4. ASSUME UNCHANGED idle PROVE ~ClockTick
    BY <2>1, <2>4 DEF ClockTick
  <2> QED BY <2>1, <2>2, <2>3, <2>4
<1>3. IInv /\ [Next]_vars => [RunsOn]_vars
  BY <1>1, <1>2
<1> QED BY <1>3, Inductive, PTL DEF Spec, IdleRunsOn
=============================================================================
