----------------------------- MODULE PartialDom -----------------------------
(***************************************************************************)
(* check_partial_dom of src/drivers/bdb.c: the DB_KEY_DOM_PART lookup of  *)
(* the Berkeley DB driver.  It walks a cursor over the permitted-domains  *)
(* name-space and sets match when a domain equals, ignoring case, the     *)
(* tail of the query of the domain's length.                               *)
(*                                                                         *)
(* Strings are sequences of characters over a small alphabet with one     *)
(* letter in both cases, so that strcasecmp and the length arithmetic of  *)
(* from_pos are both exercised.                                            *)
(***************************************************************************)
EXTENDS Integers, SequencesExt

\* tolower() of a character of the alphabet.
Lower(c) == IF c = "A" THEN "a" ELSE c

\* strcasecmp(s, t) == 0
StrCaseEq(s, t) ==
    Len(s) = Len(t) /\ \A i \in 1..Len(s) : Lower(s[i]) = Lower(t[i])

\* Mutant: from_pos > 0, so a query equal to the domain does not match.
DomainMatchesStrict(part, domain) ==
    LET from_pos == Len(part) - Len(domain) IN
    from_pos > 0 /\ StrCaseEq(SubSeq(part, from_pos + 1, Len(part)), domain)

\* The test of one loop iteration: from_pos = part_len - strlen(domain).
DomainMatches(part, domain) ==
    LET from_pos == Len(part) - Len(domain) IN
    from_pos >= 0 /\ StrCaseEq(SubSeq(part, from_pos + 1, Len(part)), domain)

(* The cursor loop: DB_itr_next until GREYDB_NOT_FOUND, in the cursor's   *)
(* order, setting match on a hit and never clearing it.                   *)
RECURSIVE PartialDomLoop(_, _, _)
PartialDomLoop(part, todo, match) ==
    IF todo = {} THEN match
    ELSE LET d == CHOOSE x \in todo : TRUE IN
         PartialDomLoop(part, todo \ {d}, match \/ DomainMatches(part, d))

check_partial_dom(part, domains) ==
    IF PartialDomLoop(part, domains, FALSE) THEN "FOUND" ELSE "NOT_FOUND"

\* A string in lower case, for spec.md 4.4's case-insensitive suffix.
LowerSeq(s) == [i \in 1..Len(s) |-> Lower(s[i])]

=============================================================================
