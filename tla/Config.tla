------------------------------- MODULE Config -------------------------------
(***************************************************************************)
(* The instrument lists of the configuration: config_load reads            *)
(* TRADING_SYMBOLS_OKX (config.c), splits it with parse_csv_symbols, or    *)
(* falls back to the five default symbols; main then copies every non-NULL *)
(* entry of the array, up to okx_symbol_count, into the instrument vector  *)
(* it subscribes (main.cpp). TRADING_SYMBOLS_BYBIT goes through the same   *)
(* lines of both files.                                                    *)
(*                                                                         *)
(* The variable's value is a sequence of characters: letters and ",". A    *)
(* symbol is the sequence of its letters. An array entry parse_csv_symbols *)
(* never writes holds whatever malloc left there (Uninit); main reads it:  *)
(* undefined behaviour, which the build turns into a NULL pointer (skipped)*)
(* or a non-NULL one (Garbage, pushed as an instrument).                   *)
(***************************************************************************)
EXTENDS Naturals, Sequences, SequencesExt

CONSTANTS
  Letters,        \* characters a symbol is made of
  MaxLen,         \* bound: length of the environment value
  Defaults,       \* the default symbols of config_load
  Unset,          \* getenv returned NULL
  Uninit,         \* an array entry parse_csv_symbols did not write
  Garbage         \* a non-NULL pointer read from such an entry

VARIABLES
  env,            \* the value of TRADING_SYMBOLS_OKX
  symbols,        \* app_config.okx_symbols: the array's entries
  count,          \* app_config.okx_symbol_count
  instruments,    \* okx_instruments in main
  pc              \* "start", "loaded" (config_load returned), "done"

vars == <<env, symbols, count, instruments, pc>>

Envs == {Unset} \cup BoundedSeq(Letters \cup {","}, MaxLen)

\* strtok(copy, ","): the maximal runs of non-comma characters, in order;
\* empty fields produce no token.
RECURSIVE Strtok(_)
Strtok(s) ==
  IF s = <<>> THEN <<>>
  ELSE LET i   == SelectInSeq(s, LAMBDA c : c = ",")
           tok == IF i = 0 THEN s ELSE SubSeq(s, 1, i - 1)
           rest == IF i = 0 THEN <<>> ELSE SubSeq(s, i + 1, Len(s))
       IN (IF tok = <<>> THEN <<>> ELSE <<tok>>) \o Strtok(rest)

\* Variant of DelimiterCount that counts only the commas.
DelimiterCountCommas(s) == Len(SelectSeq(s, LAMBDA c : c = ","))

\* The first pass of parse_csv_symbols: count starts at 1 and grows by
\* one per comma.
DelimiterCount(s) == 1 + Len(SelectSeq(s, LAMBDA c : c = ","))

\* parse_csv_symbols on a non-empty value: malloc(count) entries, strdup
\* of each token into entries 1..idx; the rest are never written.
ParseCsvSymbols(s) ==
  LET toks == Strtok(s)
  IN [i \in 1 .. DelimiterCount(s) |->
        IF i <= Len(toks) THEN toks[i] ELSE Uninit]

Init ==
  /\ env \in Envs
  /\ symbols = <<>>
  /\ count = 0
  /\ instruments = <<>>
  /\ pc = "start"

\* config_load, symbol part: the defaults when the variable is unset; an
\* empty value makes parse_csv_symbols return before it writes anything,
\* leaving the zero-initialised app_config (no symbols, count 0).
ConfigLoad ==
  /\ pc = "start"
  /\ CASE env = Unset -> symbols' = Defaults /\ count' = Len(Defaults)
       [] env = <<>>  -> UNCHANGED <<symbols, count>>
       [] OTHER       -> /\ symbols' = ParseCsvSymbols(env)
                         /\ count' = DelimiterCount(env)
  /\ pc' = "loaded"
  /\ UNCHANGED <<env, instruments>>

\* main: for i < okx_symbol_count, if (okx_symbols[i]) push_back. An
\* unwritten entry reads as NULL or as a stray pointer.
RegisterSymbols ==
  /\ pc = "loaded"
  /\ \E stray \in [1 .. count -> BOOLEAN] :
       LET read == [i \in 1 .. count |->
                      IF symbols[i] /= Uninit THEN symbols[i]
                      ELSE IF stray[i] THEN Garbage ELSE Unset]
       IN instruments' = SelectSeq(read, LAMBDA x : x /= Unset)
  /\ pc' = "done"
  /\ UNCHANGED <<env, symbols, count>>

Next == ConfigLoad \/ RegisterSymbols

Spec == Init /\ [][Next]_vars

-----------------------------------------------------------------------------
(* Properties                                                              *)

\* Spec 6: the instruments are the comma-separated symbols of the variable,
\* in order, or the defaults when it is unset.
SpecSymbols(e) == IF e = Unset THEN Defaults ELSE Strtok(e)

\* A value without empty fields: no leading, trailing or doubled comma.
NoEmptyField(e) ==
  \/ e \in {Unset, <<>>}
  \/ /\ e[1] /= "," /\ Last(e) /= ","
     /\ \A i \in 1 .. Len(e) - 1 : ~(e[i] = "," /\ e[i + 1] = ",")

\* For every value without an empty field, main subscribes exactly the
\* symbols of the variable, in order, each once (the default list when the
\* variable is unset): the comma count of the first pass and the strtok
\* tokens of the second agree.
WellFormedListRegistered ==
  pc = "done" /\ NoEmptyField(env) => instruments = SpecSymbols(env)

\* Spec 6 for every value: main subscribes exactly the symbols of the
\* variable. An empty field ("A,", ",A", "A,,B") makes count exceed the
\* tokens, and main reads entries parse_csv_symbols never wrote.
ListRegistered ==
  pc = "done" => instruments = SpecSymbols(env)

=============================================================================
