---------------------------- MODULE TokenUpdater ---------------------------
(***************************************************************************)
(* app/tokens.go: the requests that authenticate with an API token         *)
(* (GetTokenFull) and the goroutine that records the use of the tokens     *)
(* (tokenUpdater), joined by the buffered channel updateTokens.            *)
(*                                                                         *)
(* A request waits inside GetTokenFull while the channel is full.  The     *)
(* updater takes uses into a batch until it has BatchMax of them or none   *)
(* came for 10 seconds, and writes the batch with one UPDATE.  The ids a   *)
(* request can present and the outcome of the queries are chosen freely.   *)
(* A bearer token (BearerToken) has no row in tokens and is not recorded.  *)
(***************************************************************************)
EXTENDS Naturals, Sequences, SequencesExt

CONSTANTS
  Requests,  \* the goroutines that serve requests
  Ids,       \* tokens.id of the tokens they carry
  NoId,      \* the zero value of a token
  Cap,       \* capacity of updateTokens (100)
  BatchMax   \* the length of a full batch (50)

ASSUME CapAssumption == Cap \in Nat \ {0}
ASSUME BatchMaxAssumption == BatchMax \in Nat \ {0}
ASSUME NoIdAssumption == NoId \notin Ids

VARIABLES
  pc,              \* where a request is: elsewhere, or at updateTokens <- t.ID
  t,               \* t.ID of the request
  updateTokens,    \* the buffer of the channel
  tokensToUpdate,  \* the batch
  upc,             \* where tokenUpdater is: in AwaitLoop or at the UPDATE
  stamped,         \* the tokens with last_updated no older than the last use queued
  lost             \* the tokens in a batch whose UPDATE failed since then

vars == <<pc, t, updateTokens, tokensToUpdate, upc, stamped, lost>>

TypeOK ==
  /\ pc \in [Requests -> {"idle", "send"}]
  /\ t \in [Requests -> Ids \cup {NoId}]
  /\ updateTokens \in Seq(Ids)
  /\ Len(updateTokens) <= Cap
  /\ tokensToUpdate \in Seq(Ids)
  /\ Len(tokensToUpdate) <= BatchMax
  /\ upc \in {"await", "update"}
  /\ stamped \subseteq Ids
  /\ lost \subseteq Ids

Init ==
  /\ pc = [r \in Requests |-> "idle"]
  /\ t = [r \in Requests |-> NoId]
  /\ updateTokens = <<>>
  /\ tokensToUpdate = <<>>
  /\ upc = "await"
  /\ stamped = {}
  /\ lost = {}

\* GetTokenFull: the row of the token was found.  When it is not, or the query
\* fails, the request goes on as a stranger and nothing changes here.
GetTokenFull(r) ==
  /\ pc[r] = "idle"
  /\ \E id \in Ids : t' = [t EXCEPT ![r] = id]
  /\ pc' = [pc EXCEPT ![r] = "send"]
  /\ UNCHANGED <<updateTokens, tokensToUpdate, upc, stamped, lost>>

\* GetTokenFull: updateTokens <- t.ID, which waits for room, and the return.
Send(r) ==
  /\ pc[r] = "send"
  /\ Len(updateTokens) < Cap
  /\ updateTokens' = Append(updateTokens, t[r])
  /\ pc' = [pc EXCEPT ![r] = "idle"]
  /\ t' = [t EXCEPT ![r] = NoId]
  /\ stamped' = stamped \ {t[r]}
  /\ lost' = lost \ {t[r]}
  /\ UNCHANGED <<tokensToUpdate, upc>>

\* Mutant of Receive: the length of the batch is checked one too late.
ReceiveOneMore ==
  /\ upc = "await"
  /\ Len(tokensToUpdate) <= BatchMax
  /\ updateTokens # <<>>
  /\ tokensToUpdate' = Append(tokensToUpdate, Head(updateTokens))
  /\ updateTokens' = Tail(updateTokens)
  /\ UNCHANGED <<pc, t, upc, stamped, lost>>

\* AwaitLoop: one more use, the first (a plain receive) or a later one (the
\* select with the timeout).
Receive ==
  /\ upc = "await"
  /\ Len(tokensToUpdate) < BatchMax
  /\ updateTokens # <<>>
  /\ tokensToUpdate' = Append(tokensToUpdate, Head(updateTokens))
  /\ updateTokens' = Tail(updateTokens)
  /\ UNCHANGED <<pc, t, upc, stamped, lost>>

\* AwaitLoop: the batch is full.
BatchFull ==
  /\ upc = "await"
  /\ Len(tokensToUpdate) >= BatchMax
  /\ upc' = "update"
  /\ UNCHANGED <<pc, t, updateTokens, tokensToUpdate, stamped, lost>>

\* Mutant of Timeout: the first use is waited for with the timeout, too.
TimeoutEmpty ==
  /\ upc = "await"
  /\ Len(tokensToUpdate) < BatchMax
  /\ updateTokens = <<>>
  /\ upc' = "update"
  /\ UNCHANGED <<pc, t, updateTokens, tokensToUpdate, stamped, lost>>

\* Mutant of Timeout: only a full batch is written.
NoTimeout ==
  /\ upc = "await"
  /\ Len(tokensToUpdate) = BatchMax
  /\ upc' = "update"
  /\ UNCHANGED <<pc, t, updateTokens, tokensToUpdate, stamped, lost>>

\* AwaitLoop: the case of time.After.  The select reaches its timeout with an
\* empty channel only: what is in the buffer, or is sent while the select
\* waits, is received before.  An empty batch waits without a timeout.
Timeout ==
  /\ upc = "await"
  /\ tokensToUpdate # <<>>
  /\ Len(tokensToUpdate) < BatchMax
  /\ updateTokens = <<>>
  /\ upc' = "update"
  /\ UNCHANGED <<pc, t, updateTokens, tokensToUpdate, stamped, lost>>

\* Mutant of Update: the batch is not emptied for the next round.
UpdateKeepsBatch ==
  /\ upc = "update"
  /\ \/ stamped' = stamped \cup ToSet(tokensToUpdate) /\ UNCHANGED lost
     \/ lost' = lost \cup ToSet(tokensToUpdate) /\ UNCHANGED stamped
  /\ upc' = "await"
  /\ UNCHANGED <<pc, t, updateTokens, tokensToUpdate>>

\* Mutant of Update: a failed UPDATE ends the goroutine.
UpdateOrEnd ==
  /\ upc = "update"
  /\ \/ stamped' = stamped \cup ToSet(tokensToUpdate) /\ upc' = "await" /\ UNCHANGED lost
     \/ lost' = lost \cup ToSet(tokensToUpdate) /\ upc' = "ended" /\ UNCHANGED stamped
  /\ tokensToUpdate' = <<>>
  /\ UNCHANGED <<pc, t, updateTokens>>

\* The UPDATE; an error is reported and the batch is dropped all the same.
Update ==
  /\ upc = "update"
  /\ \/ stamped' = stamped \cup ToSet(tokensToUpdate) /\ UNCHANGED lost
     \/ lost' = lost \cup ToSet(tokensToUpdate) /\ UNCHANGED stamped
  /\ tokensToUpdate' = <<>>
  /\ upc' = "await"
  /\ UNCHANGED <<pc, t, updateTokens>>

tokenUpdater == Receive \/ BatchFull \/ Timeout \/ Update

Next ==
  \/ \E r \in Requests : GetTokenFull(r) \/ Send(r)
  \/ tokenUpdater

Spec == Init /\ [][Next]_vars

\* The updater runs for ever (its loop has no exit), its timer fires and the
\* database answers; the senders that wait on a full channel are served in the
\* order they came, so none is passed over for ever.  No request has to come.
FairSpec ==
  /\ Spec
  /\ WF_vars(tokenUpdater)
  /\ \A r \in Requests : SF_vars(Send(r))

-----------------------------------------------------------------------------

\* tokenUpdater does what TokenRecorder promises: the uses wait in the batch,
\* which is the front of the queue, and in the channel behind it.
Recorder == INSTANCE TokenRecorder WITH
  pending <- tokensToUpdate \o updateTokens,
  Capacity <- Cap + BatchMax

RecordsUses == Recorder!Spec

\* The UPDATE never has an empty list of ids (sqlx.In rejects one, and
\* tokenUpdater drops that error).
UpdateHasIds == upc = "update" => tokensToUpdate # <<>>

\* A request that was let in is not held for ever by the bookkeeping.
RequestLetGo == \A r \in Requests : pc[r] = "send" ~> pc[r] = "idle"

\* Every use that was queued is written or given up in the end: none stays in
\* the batch because too few others follow it.
UseSettled ==
  \A id \in Ids :
    (id \in ToSet(tokensToUpdate \o updateTokens)) ~> (id \in stamped \cup lost)
=============================================================================
