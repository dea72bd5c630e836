-------------------------------- MODULE Table --------------------------------
(***************************************************************************)
(* util::table, which prints order books: texts in rows and columns, each  *)
(* column as wide as its widest text.  A text is its length.               *)
(***************************************************************************)
EXTENDS Integers, FiniteSetsExt

CONSTANTS
    Row, Column, Width    \* the rows, columns and lengths that are used

ASSUME TableAssumption ==
    Row \subseteq Nat /\ Column \subseteq Nat /\ Width \subseteq Nat

VARIABLE data    \* data_: the texts of the rows that have any

TableInit == data = <<>>

NoCells == <<>>
CellsOf(r) == IF r \in DOMAIN data THEN data[r] ELSE NoCells

\* set
SetCell(r, c, n) ==
    LET cells == [d \in DOMAIN CellsOf(r) \cup {c} |->
                     IF d = c THEN n ELSE CellsOf(r)[d]]
    IN  data' = [s \in DOMAIN data \cup {r} |-> IF s = r THEN cells ELSE data[s]]

TableNext == \E r \in Row, c \in Column, n \in Width : SetCell(r, c, n)

TableSpec == TableInit /\ [][TableNext]_data

\* Mutant of CalcWidths: only the last row is looked at.
CalcWidthsOfLast ==
    LET last == data[Max(DOMAIN data)]
    IN  [c \in 0..Max(DOMAIN last) |-> IF c \in DOMAIN last THEN last[c] ELSE 0]

\* calc_widths: for every column up to the last, the longest text in it.
CalcWidths ==
    [c \in 0..Max(UNION {DOMAIN data[r] : r \in DOMAIN data}) |->
        Max({0} \cup {data[r][c] : r \in {s \in DOMAIN data : c \in DOMAIN data[s]}})]

\* pad: the text in the middle of the field; an odd space goes after it.
Pad(n, field) ==
    LET pre == (field - n) \div 2
    IN  [pre |-> pre, text |-> n, post |-> field - (n + pre)]

\* operator<<: a row has every column, the missing ones empty.
Line(r) ==
    [c \in DOMAIN CalcWidths |->
        Pad(IF c \in DOMAIN data[r] THEN data[r][c] ELSE 0, CalcWidths[c])]

-----------------------------------------------------------------------------
(* Properties *)

\* table.cpp:49: a field is never narrower than its text, whatever rows and columns
\* are missing, so that no length wraps around; every row has every column, and the
\* columns start at the same places.
ColumnsAlign ==
    \A r \in DOMAIN data : \A c \in DOMAIN CalcWidths :
        LET f == Line(r)[c]
        IN  /\ f.pre >= 0 /\ f.post - f.pre \in {0, 1}
            /\ f.pre + f.text + f.post = CalcWidths[c]
            /\ c \in DOMAIN data[r] => f.text = data[r][c]
=============================================================================
