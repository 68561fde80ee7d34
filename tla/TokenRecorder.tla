--------------------------- MODULE TokenRecorder ---------------------------
(***************************************************************************)
(* What app/tokens.go promises of the uses of API tokens: a use is queued, *)
(* the queue is bounded and in order, and its front is written to          *)
(* tokens.last_updated, a batch at a time; a batch whose UPDATE fails is    *)
(* given up, as a whole.                                                    *)
(***************************************************************************)
EXTENDS Naturals, Sequences, SequencesExt

CONSTANTS
  Ids,       \* tokens.id of the tokens
  Capacity,  \* the uses that may wait
  BatchMax   \* the uses one UPDATE records

VARIABLES
  pending,   \* the uses that wait, oldest first
  stamped,   \* the tokens with last_updated no older than their last use
  lost       \* the tokens given up since their last use

recorderVars == <<pending, stamped, lost>>

Init ==
  /\ pending = <<>>
  /\ stamped = {}
  /\ lost = {}

Use(id) ==
  /\ Len(pending) < Capacity
  /\ pending' = Append(pending, id)
  /\ stamped' = stamped \ {id}
  /\ lost' = lost \ {id}

\* The first n uses leave together, recorded or given up.
Flush(n) ==
  /\ n <= Len(pending)
  /\ pending' = SubSeq(pending, n + 1, Len(pending))
  /\ LET batch == ToSet(SubSeq(pending, 1, n))
     IN  \/ stamped' = stamped \cup batch /\ UNCHANGED lost
         \/ lost' = lost \cup batch /\ UNCHANGED stamped

Next ==
  \/ \E id \in Ids : Use(id)
  \/ \E n \in 1..BatchMax : Flush(n)

Spec == Init /\ [][Next]_recorderVars
=============================================================================
