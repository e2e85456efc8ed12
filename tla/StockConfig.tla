---------------------------- MODULE StockConfig ----------------------------
(***************************************************************************)
(* stock_load_config (stock_info.c): the INI file read line by line.  A    *)
(* step is a line; comments, blank lines and lines the parser passes over  *)
(* are left out, and the description is read as the code is.  A file that  *)
(* cannot be opened has the effect of an empty one.                        *)
(***************************************************************************)
EXTENDS Naturals, Sequences

CONSTANTS
  MaxStocks,        \* MAX_STOCKS
  Codes,            \* stock codes written in the file
  Intervals,        \* what atoi makes of the update_interval written there
  MaxSections       \* bound: stock sections in the file

ASSUME ConfigAssumption ==
  /\ MaxStocks \in Nat \ {0} /\ MaxSections \in Nat
  /\ Intervals \subseteq Nat

VARIABLES
  loading,      \* is the file being read?
  section,      \* the kind of section last opened
  current,      \* stock_index + 1; 0 outside the stocks
  codes,        \* the codes of g_stock_data[0 .. count - 1]
  interval,     \* g_update_interval
  written,      \* history: what each stock section says, in order
  foreign       \* history: has a section of an unknown name been opened?

configVars == <<loading, section, current, codes, interval, written, foreign>>

Unset == ""

ConfigInit ==
  /\ loading = TRUE
  /\ foreign = FALSE
  /\ section = "none" /\ current = 0
  /\ codes = <<>> /\ written = <<>>
  /\ interval = 5

StockSectionWraps ==              \* mutant: past the limit the first is reused
  /\ Len(written) < MaxSections
  /\ section' = "stock"
  /\ written' = Append(written, Unset)
  /\ IF Len(codes) < MaxStocks
     THEN codes' = Append(codes, Unset) /\ current' = Len(codes')
     ELSE current' = 1 /\ UNCHANGED codes
  /\ UNCHANGED <<loading, interval, foreign>>
\* A line "[Stock...]"; past MAX_STOCKS it leaves stock_index as it is.
StockSection ==
  /\ Len(written) < MaxSections
  /\ section' = "stock"
  /\ written' = Append(written, Unset)
  /\ IF Len(codes) < MaxStocks
     THEN codes' = Append(codes, Unset) /\ current' = Len(codes')
     ELSE UNCHANGED <<codes, current>>
  /\ UNCHANGED <<loading, interval, foreign>>

\* "[Settings]" ends the stock; any other section does not.
SettingsKeepsStock ==             \* mutant: nor does "[Settings]"
  /\ section' = "other"
  /\ UNCHANGED <<loading, codes, current, interval, written, foreign>>
SettingsSection ==
  /\ section' = "settings" /\ current' = 0
  /\ UNCHANGED <<loading, codes, interval, written, foreign>>
OtherSection ==
  /\ section' = "other" /\ foreign' = TRUE
  /\ UNCHANGED <<loading, current, codes, interval, written>>

\* "code=..."
CodeLine(c) ==
  /\ section # "settings" /\ current # 0
  /\ codes' = [codes EXCEPT ![current] = c]
  /\ written' = IF section = "stock" THEN [written EXCEPT ![Len(written)] = c]
                ELSE written
  /\ UNCHANGED <<loading, section, current, interval, foreign>>

\* "update_interval=..."
IntervalUnchecked(n) ==           \* mutant: zero is accepted
  /\ section = "settings"
  /\ interval' = n
  /\ UNCHANGED <<loading, section, current, codes, written, foreign>>
IntervalLine(n) ==
  /\ section = "settings"
  /\ interval' = IF n < 1 THEN 5 ELSE n
  /\ UNCHANGED <<loading, section, current, codes, written, foreign>>

\* The end of the file: the locals of stock_load_config are gone, and with
\* them the history.
EndOfFile ==
  /\ loading' = FALSE
  /\ section' = "none" /\ current' = 0
  /\ written' = <<>> /\ foreign' = FALSE
  /\ UNCHANGED <<codes, interval>>

Line ==
  \/ StockSection \/ SettingsSection \/ OtherSection
  \/ \E c \in Codes : CodeLine(c)
  \/ \E n \in Intervals : IntervalLine(n)
-----------------------------------------------------------------------------
\* Types, with the two bounds the rest of the program relies on: the array
\* holds MAX_STOCKS, and the thread never polls without a pause.
ConfigTypeOK ==
  /\ loading \in BOOLEAN /\ foreign \in BOOLEAN
  /\ section \in {"none", "stock", "settings", "other"}
  /\ codes \in Seq(Codes \cup {Unset}) /\ Len(codes) <= MaxStocks
  /\ current \in 0 .. Len(codes)
  /\ interval \in Nat \ {0}

\* In a file without unknown sections and without one stock too many, every
\* stock has the code its own section gives it, whatever the order of the
\* sections and lines, repeated [Settings] included (stock_load_config).
OwnCode ==
  loading /\ ~foreign /\ Len(written) <= MaxStocks =>
    \A i \in 1 .. Len(codes) : codes[i] = written[i]

\* What is written in a section the parser has no place for, one stock too
\* many or an unknown name, can reach the stock read last and no other.
LastStockOnly ==
  [][\A i \in 1 .. Len(codes) : codes'[i] # codes[i] => i = Len(codes)]_configVars
=============================================================================
