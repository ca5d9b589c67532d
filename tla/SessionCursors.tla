---------------------------- MODULE SessionCursors ----------------------------
(***************************************************************************)
(* The two transcript cursors of a row of the `sessions` table: byte is    *)
(* what the hook has posted (optimistic), confirmed is what is known to be *)
(* ingested (durable).  Both only ever merge with MAX; the durable one is  *)
(* advanced down two guarded channels, one for the retain worker and one   *)
(* for the request path.                                                   *)
(***************************************************************************)
EXTENDS Integers

Larger(a, b) == IF a >= b THEN a ELSE b

\* A row of the table; present is FALSE when the table holds no such row.
\* fresh says the row was written since the daemon started: its last_seen_at
\* cannot be behind the retention cutoff.
SessionRow == [present : BOOLEAN, byte : Nat, confirmed : Nat, fresh : BOOLEAN]

NoRow == [present |-> FALSE, byte |-> 0, confirmed |-> 0, fresh |-> FALSE]

MutConfirmAlways(confirmed, from, to) == to

\* The worker's channel: a confirm of [from, to) counts only when the durable
\* cursor already reaches from.
RangeConfirm(confirmed, from, to) == IF confirmed >= from THEN to ELSE 0

\* The request path's channel: counts only on a row with no open gap.
SettledConfirm(row, settled) == IF row.confirmed >= row.byte THEN settled ELSE 0

(***************************************************************************)
(* INSERT ... ON CONFLICT DO UPDATE.  Every guard reads the row as it was  *)
(* before the write.  On a row that does not exist the range confirm       *)
(* applies to a range that starts at 0 and the settled one always does.    *)
(***************************************************************************)
Upsert(row, byte, from, to, settled) ==
  IF row.present
  THEN [present   |-> TRUE,
        byte      |-> Larger(row.byte, byte),
        confirmed |-> Larger(row.confirmed,
                             Larger(RangeConfirm(row.confirmed, from, to),
                                    SettledConfirm(row, settled))),
        fresh     |-> TRUE]
  ELSE [present   |-> TRUE,
        byte      |-> byte,
        confirmed |-> Larger(settled, IF from = 0 THEN to ELSE 0),
        fresh     |-> TRUE]

MutPostConfirms(row, byte) == Upsert(row, byte, 0, 0, byte)

\* The three callers.  A range of (0, 0) and a settled offset of 0 are inert.
MirrorQueued(row, byte) == Upsert(row, byte, 0, 0, 0)

MirrorSettled(row, byte) == Upsert(row, byte, 0, 0, byte)

ConfirmRange(row, from, to) == Upsert(row, 0, from, to, 0)
=============================================================================
