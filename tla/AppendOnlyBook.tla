-------------------------- MODULE AppendOnlyBook --------------------------
(***************************************************************************)
(* What the general ledger promises to its reports: a book of entries in   *)
(* which every entry balances and from which nothing is ever taken away.   *)
(* The financial statements sum the lines of the entries of this book.     *)
(***************************************************************************)
EXTENDS Integers, Sequences, Functions

CONSTANTS
  Numbers,   \* entry numbers, unique in a legal entity
  LineSets   \* the collections of lines an entry can have

VARIABLE book  \* the lines entered under each number, NoLines where none are

NoLines == << >>

\* The signed total of a collection of lines, debits positive.
NetCents(lines) == SumFunction([i \in DOMAIN lines |-> lines[i].cents])

\* At least two lines, and debits equal to credits. A line is one-sided and
\* not zero, so a balanced entry has positive debits.
Balanced(lines) == Len(lines) >= 2 /\ NetCents(lines) = 0

\* The lines that undo the given ones: debits and credits change sides.
Mirror(lines) == [i \in DOMAIN lines |-> [lines[i] EXCEPT !.cents = -@]]

Init == book = [n \in Numbers |-> NoLines]

\* One balanced entry is added under a number that was not used.
Enter(n, lines) ==
  /\ book[n] = NoLines
  /\ Balanced(lines)
  /\ book' = [book EXCEPT ![n] = lines]

Next == \E n \in Numbers, lines \in LineSets : Enter(n, lines)

Spec == Init /\ [][Next]_book
===========================================================================
