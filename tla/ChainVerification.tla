------------------------- MODULE ChainVerification -------------------------
(***************************************************************************)
(* verify_chain of storage/evidence_chain.py, and what it is there to      *)
(* notice: a table of which a historical row was changed, removed, moved   *)
(* or added behind the writer's back.                                      *)
(***************************************************************************)
EXTENDS EvidenceChain, FiniteSets, FiniteSetsExt, SequencesExt, TLC

\* ORDER BY chain_seq ASC, id ASC; an id is a position in the table.
Before(table, i, j) ==
  table[i].seq < table[j].seq \/ (table[i].seq = table[j].seq /\ i < j)

Place(table, i) == Cardinality({j \in DOMAIN table : Before(table, j, i)}) + 1

InChainOrder(table) ==
  [n \in DOMAIN table |-> table[CHOOSE i \in DOMAIN table : Place(table, i) = n]]

\* The three checks the walk makes at row n.
Contiguous(chain, n) == chain[n].seq = n - 1
Linkage(chain, n)    == chain[n].prev = IF n = 1 THEN Genesis ELSE chain[n - 1].hash
Integrity(chain, n)  == chain[n].hash = LinkHash(chain[n].seq, chain[n].prev, chain[n])

\* The verdict: the walk stops at the first row that fails a check.
VerifyChain(table) ==
  LET chain  == InChainOrder(table)
      broken == {n \in DOMAIN chain : ~(/\ Contiguous(chain, n)
                                        /\ Linkage(chain, n)
                                        /\ Integrity(chain, n))}
  IN IF broken = {} THEN [ok |-> TRUE, checked |-> Len(chain), breakSeq |-> NoSeq]
     ELSE [ok |-> FALSE, checked |-> Min(broken) - 1, breakSeq |-> chain[Min(broken)].seq]

-----------------------------------------------------------------------------
(* What is done to a table without its digests being recomputed            *)

Edited(table) ==
  {[table EXCEPT ![i].key = k] : i \in DOMAIN table, k \in Keys} \ {table}

Removed(table) == {RemoveAt(table, i) : i \in 1 .. Len(table) - 1}

\* A row removed and the rows after it renumbered and linked up again.
Closed(table) ==
  {[n \in 1 .. Len(table) - 1 |->
      IF n < i THEN table[n]
      ELSE [table[n + 1] EXCEPT !.seq = @ - 1,
                                !.prev = IF n > i THEN @
                                         ELSE IF i = 1 THEN Genesis ELSE table[i - 1].hash]]
     : i \in 1 .. Len(table) - 1}

\* The contents and the digest of another row in a row's place.
Misplaced(table, i, j) ==
  [table EXCEPT ![i] = [table[j] EXCEPT !.seq = table[i].seq, !.prev = table[i].prev]]

Exchanged(table) ==
  {Misplaced(table, i, j) : i \in DOMAIN table, j \in DOMAIN table} \ {table}

Inserted(table) ==
  UNION {{InsertAt(table, i, [table[i] EXCEPT !.seq = s]) : s \in {NoSeq, i - 1, i}}
           : i \in DOMAIN table}

Tampered(table) ==
  Edited(table) \cup Removed(table) \cup Closed(table)
    \cup Exchanged(table) \cup Inserted(table)

-----------------------------------------------------------------------------

Intact(table) == [ok |-> TRUE, checked |-> Len(table), breakSeq |-> NoSeq]

\* verify_findings_chain accepts every table the writers leave, to its last row, and
\* "a mutated, reordered, deleted, or inserted historical row is detected".
TamperEvident ==
  migrated =>
    /\ VerifyChain(rows) = Intact(rows)
    /\ \A table \in Tampered(rows) : ~VerifyChain(table).ok
=============================================================================
