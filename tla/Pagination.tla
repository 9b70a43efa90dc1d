----------------------------- MODULE Pagination -----------------------------
(***************************************************************************)
(* The page buttons under a table (components/Pagination.tsx).             *)
(***************************************************************************)
EXTENDS Integers

Smaller(a, b) == IF a <= b THEN a ELSE b
Larger(a, b) == IF a >= b THEN a ELSE b

PageBuffer == 2

\* The first and the last of the middle pages.  A gap of the single page 2, or
\* of the single page before the last, is filled.
StartPage(current) ==
  LET start == Larger(current - PageBuffer, 2)
  IN  IF start - 1 = 2 THEN 2 ELSE start
EndPage(current, total) ==
  LET end == Smaller(current + PageBuffer, total - 1)
  IN  IF end + 1 = total - 1 THEN total - 1 ELSE end

\* The pages that have a button, and whether an ellipsis stands for others.
PageNumbers(current, total) ==
  {1} \cup (StartPage(current)..EndPage(current, total))
      \cup {p \in {total} : total > 1}
LeadingEllipsis(current) == StartPage(current) > 2
TrailingEllipsis(current, total) == EndPage(current, total) < total - 1

\* The page each enabled button leads to.
\* Mutant: the Next button is never disabled.
ClicksUnguarded(current, total) ==
  {Larger(1, current - 1) : p \in {current} \ {1}}
    \cup (PageNumbers(current, total) \ {current})
    \cup {current + 1}
Clicks(current, total) ==
  {Larger(1, current - 1) : p \in {current} \ {1}}
    \cup (PageNumbers(current, total) \ {current})
    \cup {Smaller(total, current + 1) : p \in {q \in {current} : q < total}}
-----------------------------------------------------------------------------
\* What the row of buttons promises on a page that exists: the first, the last
\* and the nearest pages can be reached at once, there is no button for a page
\* that does not exist, an ellipsis is shown exactly where pages are left out,
\* and none stands for a single page.
ButtonsAreRight(current, total) ==
  LET shown == PageNumbers(current, total)
      left == {p \in 1..total : p \notin shown /\ p < current}
      right == {p \in 1..total : p \notin shown /\ p > current}
  IN  /\ {1, total} \subseteq shown /\ shown \subseteq 1..total
      /\ {p \in 1..total : p - current \in -PageBuffer..PageBuffer} \subseteq shown
      /\ LeadingEllipsis(current) <=> left # {}
      /\ TrailingEllipsis(current, total) <=> right # {}
      /\ \A p \in left \cup right : p - 1 \notin shown \/ p + 1 \notin shown
=============================================================================
