----------------------------- MODULE IngestLedger -----------------------------
(***************************************************************************)
(* What the retain path promises about what it was given: every accepted   *)
(* transcript has one entry, an entry is settled once and for good, it is  *)
(* settled as done only when all of its text is in the store, and a        *)
(* document is marked with a content only when that content is in the      *)
(* store under that document.                                              *)
(***************************************************************************)
EXTENDS Naturals, Sequences

CONSTANTS
  Doc, Content, NoHash,
  Blank        \* the contents without any text: there is nothing of them to store

VARIABLES
  entries,   \* the accepted transcripts, in order
  mark       \* per document, the content known to be ingested, or NoHash

vars == <<entries, mark>>

Entry == [doc : Doc, content : Content, whole : BOOLEAN,
          state : {"open", "done", "partial", "failed"}]

OpenEntries == {j \in DOMAIN entries : entries[j].state = "open"}

Init == entries = <<>> /\ mark = [d \in Doc |-> NoHash]

Accept(d, c) ==
  /\ entries' = Append(entries, [doc |-> d, content |-> c, whole |-> c \in Blank,
                                 state |-> "open"])
  /\ UNCHANGED mark

\* The last missing piece of text is in the store.
Complete(j) ==
  /\ j \in OpenEntries /\ ~entries[j].whole
  /\ entries' = [entries EXCEPT ![j].whole = TRUE]
  /\ UNCHANGED mark

Settle(j, state) ==
  /\ j \in OpenEntries
  /\ state = "done" => entries[j].whole
  /\ entries' = [entries EXCEPT ![j].state = state]
  /\ UNCHANGED mark

\* A restart gives up on any of the open entries at once.
GiveUp(some) ==
  /\ some \subseteq OpenEntries
  /\ entries' = [j \in DOMAIN entries |->
                   IF j \in some THEN [entries[j] EXCEPT !.state = "failed"]
                   ELSE entries[j]]
  /\ UNCHANGED mark

Mark(j) ==
  /\ j \in OpenEntries /\ entries[j].whole
  /\ mark' = [mark EXCEPT ![entries[j].doc] = entries[j].content]
  /\ UNCHANGED entries

Unmark(d) == mark' = [mark EXCEPT ![d] = NoHash] /\ UNCHANGED entries

Next ==
  \/ \E d \in Doc : Unmark(d) \/ \E c \in Content : Accept(d, c)
  \/ \E j \in OpenEntries :
       \/ Complete(j) \/ Mark(j)
       \/ \E state \in {"done", "partial", "failed"} : Settle(j, state)
  \/ \E some \in SUBSET OpenEntries : GiveUp(some)

Spec == Init /\ [][Next]_vars
===============================================================================
