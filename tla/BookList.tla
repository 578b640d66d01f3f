------------------------------ MODULE BookList ------------------------------
(* The linked list of books of the programming course, read from a file:   *)
(* one program puts each book in front, the other keeps the list sorted by *)
(* ISBN.  Elements are named by the order in which they are constructed.   *)
EXTENDS Naturals, Sequences

CONSTANTS
    Isbn,
    MaxBooks,     \* bound: the lines of the file
    NoElement     \* NULL

Element == 1 .. MaxBooks

ASSUME BookListAssumption ==
    Isbn \subseteq Nat /\ MaxBooks \in Nat /\ NoElement \notin Element

VARIABLES
    keepsSorted,   \* which of the two programs runs
    count,
    first,
    isbn, next     \* the fields of the elements that have been constructed

listVars == <<keepsSorted, count, first, isbn, next>>

\* construct_list
ListInit ==
    /\ keepsSorted \in BOOLEAN
    /\ count = 0
    /\ first = NoElement
    /\ isbn = <<>> /\ next = <<>>

\* insert_at_begin
InsertAtBegin(e) ==
    /\ first' = e
    /\ next' = Append(next, first)

\* elem1, when the loop of insert_sorted has ended.
StopAfter(x, i) ==
    LET from[y \in DOMAIN next] ==
          IF next[y] # NoElement /\ i > isbn[next[y]] THEN from[next[y]] ELSE y
    IN from[x]

GoesFirst(i) == first # NoElement => i < isbn[first]

\* Mutant: the elements behind the new one are forgotten.
InsertSortedCut(e, i) ==
    \/ GoesFirst(i) /\ InsertAtBegin(e)
    \/ /\ ~GoesFirst(i)
       /\ next' = Append([next EXCEPT ![StopAfter(first, i)] = e], NoElement)
       /\ UNCHANGED first

\* insert_sorted
InsertSorted(e, i) ==
    \/ GoesFirst(i) /\ InsertAtBegin(e)
    \/ /\ ~GoesFirst(i)
       /\ LET before == StopAfter(first, i)
          IN next' = Append([next EXCEPT ![before] = e], next[before])
       /\ UNCHANGED first

\* One line of read_list.
ReadBook(i) ==
    LET e == Len(isbn) + 1
    IN /\ e \in Element
       /\ isbn' = Append(isbn, i)
       /\ \/ ~keepsSorted /\ InsertAtBegin(e)
          \/ keepsSorted /\ InsertSorted(e, i)
       /\ count' = count + 1
       /\ UNCHANGED keepsSorted

ListNext == \E i \in Isbn : ReadBook(i)

ListSpec == ListInit /\ [][ListNext]_listVars
-----------------------------------------------------------------------------
\* The elements as print_list and free_list find them.
Books ==
    LET from[e \in DOMAIN next \cup {NoElement}] ==
          IF e = NoElement THEN <<>> ELSE <<e>> \o from[next[e]]
    IN from[first]

\* Every book that has been read is found once on the way from the front:
\* print_list shows it and free_list frees it, and frees it once.
EveryBookOnce ==
    /\ Len(Books) = count /\ count = Len(isbn)
    /\ \A e \in 1 .. count : \E k \in 1 .. count : Books[k] = e

\* The list is in the order its program promises: of the ISBNs, or the
\* latest book first.
InOrderOfProgram == \A k \in 1 .. Len(Books) - 1 :
    IF keepsSorted THEN isbn[Books[k]] <= isbn[Books[k + 1]] ELSE Books[k] > Books[k + 1]

\* Whatever the books that are read, the links of insert_sorted and
\* insert_at_begin form the list that print_list and free_list rely on.
ListSound == EveryBookOnce /\ InOrderOfProgram
=============================================================================
