---------------------------- MODULE KeysetPaging ----------------------------
(***************************************************************************)
(* Keyset pages, as the search queries of catalog/postgres and the saved   *)
(* tracks of library/postgres cut them: the rows after the cursor, in the  *)
(* order of the query.  An order is the set of its pairs; a cursor is a    *)
(* set of one row, empty before the first page.                            *)
(***************************************************************************)
EXTENDS Integers, FiniteSets

CONSTANTS
  Tracks,  \* track ids, compared as the uuid column is
  Limit    \* rows of a page

ASSUME PagingAssumption == Tracks \subseteq Nat /\ Limit \in Nat \ {0}

\* A strict total order on R.
IsOrder(order, R) ==
  /\ \A a \in R : <<a, a>> \notin order
  /\ \A a, b \in R : a # b => <<a, b>> \in order \/ <<b, a>> \in order
  /\ \A a, b, c \in R :
       <<a, b>> \in order /\ <<b, c>> \in order => <<a, c>> \in order

\* WHERE (key, id) > cursor: the clause is absent from the first query.
Beyond(S, order, cursor) == {r \in S : \A c \in cursor : <<c, r>> \in order}

\* ORDER BY ... LIMIT n
FirstRows(S, order, n) ==
  {r \in S : Cardinality({s \in S : <<s, r>> \in order}) < n}

LastOf(P, order) == {r \in P : \A s \in P \ {r} : <<s, r>> \in order}

\* Of the n + 1 rows read the cursor names the last one handed out; a slip
\* would be to name the last one read.
CursorOfLastRead(S, order, n) == LastOf(FirstRows(S, order, n + 1), order)
NextCursor(S, order, n) == LastOf(FirstRows(S, order, n), order)
=============================================================================
