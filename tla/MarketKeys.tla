------------------------------ MODULE MarketKeys ------------------------------
(***************************************************************************)
(* How a spot market is named: by a text such as "Eth/Usd" in the program, *)
(* by a key of two lower-case parts, and by the venue's symbol "ETH-USD".  *)
(* A text is a sequence of characters, typed one at a time.                *)
(***************************************************************************)
EXTENDS Sequences, FiniteSetsExt, Integers

CONSTANT MaxName    \* bound on the length of a market's name

VARIABLE name       \* what is typed for a market's name

\* The characters: two letters in both cases, and the separators.
Lower == [c \in {"a", "A", "b", "B"} |-> IF c \in {"a", "A"} THEN "a" ELSE "b"]
Upper == [c \in {"a", "A", "b", "B"} |-> IF c \in {"a", "A"} THEN "A" ELSE "B"]
Separator == {"/", "-", " ", "_"}
Character == DOMAIN Lower \cup Separator

Cased(t, f) == [i \in DOMAIN t |-> IF t[i] \in DOMAIN f THEN f[t[i]] ELSE t[i]]

\* The first separator of a text that has one.
SeparatorAt(t) == Min({i \in DOMAIN t : t[i] \in Separator})

\* Mutant of SpotKey: the parts keep the case they were typed in.
SpotKeyCased(t) ==
    IF \E i \in DOMAIN t : t[i] \in Separator
    THEN {[base |-> SubSeq(t, 1, SeparatorAt(t) - 1),
           term |-> SubSeq(t, SeparatorAt(t) + 1, Len(t))]}
    ELSE {}

\* spot_key: the parts before and after the separator, or the exception.
SpotKey(t) ==
    IF \E i \in DOMAIN t : t[i] \in Separator
    THEN LET i == SeparatorAt(t)
         IN  {[base |-> Cased(SubSeq(t, 1, i - 1), Lower),
               term |-> Cased(SubSeq(t, i + 1, Len(t)), Lower)]}
    ELSE {}

\* to_string
KeyText(k) == k.base \o <<"/">> \o k.term

\* native_symbol
NativeSymbol(k) == Cased(k.base \o <<"-">> \o k.term, Upper)

NameInit == name = <<>>
NameNext == Len(name) < MaxName /\ \E c \in Character : name' = Append(name, c)

NameSpec == NameInit /\ [][NameNext]_name

-----------------------------------------------------------------------------
(* Properties *)

\* The market a listener is made for (main.cpp:171) is known from what it prints
\* and from the symbol it subscribes to: neither is another market's.
NamesOneMarket(t) ==
    \A k \in SpotKey(t) : SpotKey(KeyText(k)) = {k} /\ SpotKey(NativeSymbol(k)) = {k}

\* This is so for whatever is typed.
MarketNamed == NamesOneMarket(name)
=============================================================================
