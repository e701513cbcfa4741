----------------------------- MODULE PagesProofs -----------------------------
(***************************************************************************)
(* Where the arithmetic of pages is right, and where it stops being right, *)
(* for page numbers of any width.                                          *)
(***************************************************************************)
EXTENDS Pages, TLAPS

\* Multiplication by a page size is monotone.
LEMMA TimesMonotone ==
  ASSUME NEW a \in Nat, NEW b \in Nat, a <= b, NEW d \in Nat
  PROVE  a * d <= b * d /\ a * d \in Nat /\ b * d \in Nat
<1>1. PICK c \in Nat : b = a + c
  <2>1. b - a \in Nat /\ b = a + (b - a)
    OBVIOUS
  <2>2. QED
    BY <2>1
<1>2. (a + c) * d = a * d + c * d /\ c * d \in Nat /\ a * d \in Nat
  OBVIOUS
<1>3. QED
  BY <1>1, <1>2

\* The quotient rounded up has more pages than page exactly if page full pages
\* do not hold the rows.
LEMMA RoundedUp ==
  ASSUME NEW total \in Nat, NEW d \in Nat \ {0}, NEW page \in Nat
  PROVE  /\ (total + d - 1) \div d \in Nat
         /\ page < (total + d - 1) \div d <=> page * d < total
<1> DEFINE q == (total + d - 1) \div d
<1>1. q \in Nat /\ q * d <= total + d - 1 /\ total + d - 1 < (q + 1) * d
  OBVIOUS
<1>2. (q + 1) * d = q * d + d /\ q * d \in Nat
  BY <1>1
<1>3. ASSUME page < q
      PROVE  page * d < total
  <2>1. (page + 1) * d <= q * d
    BY <1>1, <1>3, TimesMonotone
  <2>2. (page + 1) * d = page * d + d /\ page * d \in Nat
    OBVIOUS
  <2>3. QED
    BY <1>1, <1>2, <2>1, <2>2
<1>4. ASSUME ~(page < q)
      PROVE  ~(page * d < total)
  <2>1. q * d <= page * d /\ page * d \in Nat
    BY <1>1, <1>4, TimesMonotone
  <2>2. QED
    BY <1>1, <1>2, <2>1
<1>5. QED
  BY <1>1, <1>3, <1>4

\* A number is within one stretch of d numbers only.
LEMMA OneStretch ==
  ASSUME NEW d \in Nat \ {0}, NEW place \in Nat \ {0}
  PROVE  \E p \in Nat : /\ p * d < place /\ place <= (p + 1) * d
                        /\ \A q \in Nat : q * d < place /\ place <= (q + 1) * d => q = p
<1> DEFINE p == (place - 1) \div d
<1>1. p \in Nat /\ p * d <= place - 1 /\ place - 1 < (p + 1) * d
  OBVIOUS
<1> HIDE DEF p
<1>2. p * d \in Nat /\ (p + 1) * d \in Nat
  BY <1>1
<1>3. ASSUME NEW q \in Nat, q * d < place, place <= (q + 1) * d
      PROVE  q = p
  <2>1. CASE q + 1 <= p
    <3>1. (q + 1) * d <= p * d /\ (q + 1) * d \in Nat
      BY <1>1, <2>1, TimesMonotone
    <3>2. QED
      BY <1>1, <1>2, <1>3, <3>1
  <2>2. CASE p + 1 <= q
    <3>1. (p + 1) * d <= q * d /\ q * d \in Nat
      BY <1>1, <2>2, TimesMonotone
    <3>2. QED
      BY <1>1, <1>2, <1>3, <3>1
  <2>3. QED
    BY <1>1, <1>3, <2>1, <2>2
<1>4. QED
  BY <1>1, <1>2, <1>3

-----------------------------------------------------------------------------

\* The offset is the number of rows on the earlier pages exactly if that number
\* fits the width of a page number: from there on every offset is wrong, since
\* the product is computed before it is widened.
THEOREM OffsetExact ==
  ASSUME PageRange \in Nat \ {0}, NEW page \in Nat \ {0}, NEW d \in Nat
  PROVE  offset(page, d) = (page - 1) * d <=> (page - 1) * d < PageRange
<1> DEFINE n == (page - 1) * d
<1>1. n \in Nat /\ offset(page, d) = n % PageRange
  BY DEF offset
<1> HIDE DEF n
<1>2. n % PageRange < PageRange
  BY <1>1
<1>3. n < PageRange => n % PageRange = n
  BY <1>1
<1>4. QED
  BY <1>1, <1>2, <1>3 DEF n

\* has_next is true exactly if rows follow the page, up to the last page number
\* there is.
THEOREM NextIsHonest ==
  ASSUME PageRange \in Nat \ {0}, NEW page \in Nat, NEW total \in Nat, NEW d \in Nat \ {0}
  PROVE  has_next(page, total, d) <=> page * d < total /\ page < PageRange - 1
<1>1. (total + d - 1) \div d \in Nat
  BY RoundedUp
<1>2. has_next(page, total, d) <=> page < (total + d - 1) \div d /\ page < PageRange - 1
  BY <1>1 DEF has_next, total_pages, Least
<1>3. QED
  BY <1>2, RoundedUp

\* The pages that total_pages counts hold a row each, and no more do.
LEMMA PagesCounted ==
  ASSUME PageRange \in Nat \ {0}, NEW total \in Nat, total < PageRange,
         NEW d \in Nat \ {0}, NEW p \in Nat
  PROVE  /\ total_pages(total, d) \in Nat
         /\ p + 1 <= total_pages(total, d) <=> p * d < total
<1>1. has_next(p, total, d) <=> p * d < total /\ p < PageRange - 1
  BY NextIsHonest
<1>2. total_pages(total, d) \in Nat
  BY RoundedUp DEF total_pages, Least
<1>3. p * d < total => p < PageRange - 1
  <2>1. 1 * p <= d * p
    BY TimesMonotone
  <2>2. p <= p * d /\ p * d \in Nat
    BY <2>1
  <2>3. QED
    BY <2>2
<1>4. QED
  BY <1>1, <1>2, <1>3 DEF has_next

\* In a table with fewer rows than there are page numbers, each place is asked
\* for by exactly one of the pages that total_pages counts: no row falls between
\* two pages and none is on two.
THEOREM PagesCutTheTable ==
  ASSUME PageRange \in Nat \ {0}, NEW total \in Nat, total < PageRange,
         NEW d \in Nat \ {0}, NEW place \in 1..total
  PROVE  \E page \in 1..total_pages(total, d) :
           \A other \in 1..total_pages(total, d) :
             place \in Covered(other, d) <=> other = page
<1> DEFINE last == total_pages(total, d)
<1>1. last \in Nat /\ \A p \in Nat : p + 1 <= last <=> p * d < total
  BY PagesCounted
<1> HIDE DEF last
<1>2. \A p \in Nat : p + 1 <= last =>
        (place \in Covered(p + 1, d) <=> p * d < place /\ place <= (p + 1) * d)
  <2> SUFFICES ASSUME NEW p \in Nat, p + 1 <= last
               PROVE  place \in Covered(p + 1, d) <=> p * d < place /\ place <= (p + 1) * d
    OBVIOUS
  <2>1. p * d \in Nat /\ (p + 1) * d = p * d + d
    OBVIOUS
  <2>2. p * d < PageRange
    BY <1>1, <2>1
  <2>3. (p + 1) - 1 = p /\ p + 1 \in Nat \ {0}
    OBVIOUS
  <2>4. offset(p + 1, d) = p * d
    <3>1. offset(p + 1, d) = ((p + 1) - 1) * d <=> ((p + 1) - 1) * d < PageRange
      BY <2>3, OffsetExact
    <3>2. QED
      BY <2>2, <2>3, <3>1
  <2>5. QED
    BY <2>1, <2>4 DEF Covered, limit
<1>3. PICK p \in Nat :
        /\ p * d < place /\ place <= (p + 1) * d
        /\ \A q \in Nat : q * d < place /\ place <= (q + 1) * d => q = p
  <2>1. place \in Nat \ {0}
    OBVIOUS
  <2>2. QED
    BY <2>1, OneStretch
<1>4. p + 1 \in 1..last
  <2>1. p * d \in Nat
    OBVIOUS
  <2>2. p * d < total
    BY <1>3, <2>1
  <2>3. QED
    BY <1>1, <2>2
<1>5. ASSUME NEW other \in 1..last
      PROVE  place \in Covered(other, d) <=> other = p + 1
  <2>1. other - 1 \in Nat /\ (other - 1) + 1 = other
    BY <1>1
  <2> DEFINE q == other - 1
  <2>2. place \in Covered(q + 1, d) <=> q * d < place /\ place <= (q + 1) * d
    <3>1. q \in Nat /\ q + 1 <= last
      BY <1>1, <2>1
    <3> HIDE DEF q
    <3>2. QED
      BY <1>2, <3>1
  <2>3. q * d < place /\ place <= (q + 1) * d <=> q = p
    BY <1>3, <2>1
  <2>4. QED
    BY <2>1, <2>2, <2>3
<1>6. QED
  BY <1>4, <1>5 DEF last
=============================================================================
