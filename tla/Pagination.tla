----------------------------- MODULE Pagination -----------------------------
(***************************************************************************)
(* PaginatePage of internal/server/storage_helpers.go: which items of a    *)
(* sorted list a page holds, and the token of the next page.               *)
(*                                                                         *)
(* A page token is the decimal form of an offset into the list, so it is   *)
(* an integer here.  Last is the empty token and Garbage any text that     *)
(* strconv.Atoi refuses.                                                   *)
(***************************************************************************)
EXTENDS Integers

CONSTANTS
    PageLimit,  \* the largest and the default page size, 100 in the code
    MaxInt,     \* the largest int
    Last,
    Garbage

ASSUME PaginationAssumption ==
    /\ PageLimit \in Nat \ {0}
    /\ MaxInt \in Nat
    /\ PageLimit <= MaxInt
    /\ Last \notin Int /\ Garbage \notin Int /\ Last # Garbage

Tokens == Int \cup {Last, Garbage}

\* Integer addition of the code, two's complement.
Wrap(n) == IF n > MaxInt THEN n - 2 * (MaxInt + 1) ELSE n

\* Mutant: an offset is held below the limit of a page.
BadTokenLimited(token) == token \notin 0..(PageLimit - 1) \cup {Last}

BadToken(token) == token \notin Nat \cup {Last}

Offset(token) == IF token = Last THEN 0 ELSE token

\* The page size in force: a size out of range means the limit.
Size(pageSize) == IF pageSize <= 0 \/ pageSize > PageLimit THEN PageLimit ELSE pageSize

\* The index after the last item of the page, in a list of n items.
End(token, pageSize, n) ==
    LET end == Wrap(Offset(token) + Size(pageSize))
    IN  IF end > n THEN n ELSE end

\* Mutant: the next token is the offset of this page.
NextTokenStuck(token, pageSize, n) ==
    IF End(token, pageSize, n) < n THEN Offset(token) ELSE Last

\* Mutant: the next token is one too large.
NextTokenSkips(token, pageSize, n) ==
    IF End(token, pageSize, n) < n THEN End(token, pageSize, n) + 1 ELSE Last

NextToken(token, pageSize, n) ==
    IF End(token, pageSize, n) < n THEN End(token, pageSize, n) ELSE Last

\* Mutant: the last item of a page is the first of the next one.
OnPageInclusive(i, token, pageSize, n) ==
    Offset(token) < n /\ Offset(token) <= i /\ i <= End(token, pageSize, n)

\* The item at index i is on the page.
OnPage(i, token, pageSize, n) ==
    Offset(token) < n /\ Offset(token) <= i /\ i < End(token, pageSize, n)
=============================================================================
