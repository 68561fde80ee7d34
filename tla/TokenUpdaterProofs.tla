------------------------- MODULE TokenUpdaterProofs ------------------------
(* tokenUpdater implements TokenRecorder, for every number of requests and
   tokens and every size of the channel and of the batch.                   *)
EXTENDS TokenUpdater, SequenceTheorems, TLAPS

\* The inductive invariant: a request that is about to send has a token, and
\* the updater leaves AwaitLoop with a batch.
IInv ==
  /\ TypeOK
  /\ UpdateHasIds
  /\ \A r \in Requests : pc[r] = "send" => t[r] \in Ids

LEMMA InitIInv == Init => IInv
BY CapAssumption, BatchMaxAssumption DEF Init, IInv, TypeOK, UpdateHasIds

\* Every step preserves the inductive invariant.
LEMMA StepIInv ==
  ASSUME IInv, [Next]_vars
  PROVE  IInv'
<1> USE CapAssumption, BatchMaxAssumption, NoIdAssumption DEF IInv, TypeOK, UpdateHasIds
<1>1. ASSUME NEW r \in Requests, GetTokenFull(r)
      PROVE  IInv'
  BY <1>1 DEF GetTokenFull
<1>2. ASSUME NEW r \in Requests, Send(r)
      PROVE  IInv'
  <2>1. updateTokens' \in Seq(Ids) /\ Len(updateTokens') <= Cap
    BY <1>2 DEF Send
  <2> QED BY <1>2, <2>1 DEF Send
<1>3. CASE Receive
  <2>1. Head(updateTokens) \in Ids
    BY <1>3 DEF Receive
  <2>2. updateTokens' \in Seq(Ids) /\ Len(updateTokens') <= Cap
    BY <1>3 DEF Receive
  <2>3. tokensToUpdate' \in Seq(Ids) /\ Len(tokensToUpdate') <= BatchMax
    BY <1>3, <2>1 DEF Receive
  <2> QED BY <1>3, <2>2, <2>3 DEF Receive
<1>4. CASE BatchFull
  BY <1>4 DEF BatchFull
<1>5. CASE Timeout
  BY <1>5 DEF Timeout
<1>6. CASE Update
  <2>1. ToSet(tokensToUpdate) \subseteq Ids
    BY DEF ToSet
  <2> QED BY <1>6, <2>1 DEF Update
<1>7. CASE UNCHANGED vars
  BY <1>7 DEF vars
<1> QED BY <1>1, <1>2, <1>3, <1>4, <1>5, <1>6, <1>7 DEF Next, tokenUpdater

THEOREM Invariance == Spec => []IInv
<1>1. IInv /\ [Next]_vars => IInv'
  BY StepIInv
<1> QED BY InitIInv, <1>1, PTL DEF Spec

\* The channel and the batch stay within their bounds.
THEOREM TypeCorrect == Spec => []TypeOK
BY Invariance, PTL DEF IInv

\* The UPDATE always has an id.
THEOREM NoEmptyUpdate == Spec => []UpdateHasIds
BY Invariance, PTL DEF IInv

\* Moving the head of the channel to the end of the batch leaves the queue of
\* uses as it is.
LEMMA MoveHead ==
  ASSUME NEW S, NEW a \in Seq(S), NEW b \in Seq(S), b # <<>>
  PROVE  Append(a, Head(b)) \o Tail(b) = a \o b
OBVIOUS

\* Dropping the batch leaves the channel.
LEMMA DropBatch ==
  ASSUME NEW S, NEW a \in Seq(S), NEW b \in Seq(S)
  PROVE  /\ SubSeq(a \o b, 1, Len(a)) = a
         /\ SubSeq(a \o b, Len(a) + 1, Len(a \o b)) = b
OBVIOUS

\* A use joins the queue at its end.
LEMMA ConcatAppend ==
  ASSUME NEW S, NEW a \in Seq(S), NEW b \in Seq(S), NEW x \in S
  PROVE  a \o Append(b, x) = Append(a \o b, x)
OBVIOUS

\* Every step of the updater and of the requests is a step of the recorder or
\* leaves its variables alone.
LEMMA StepRefines ==
  ASSUME IInv, [Next]_vars
  PROVE  [Recorder!Next]_(Recorder!recorderVars)
<1> USE CapAssumption, BatchMaxAssumption, NoIdAssumption DEF IInv, TypeOK, UpdateHasIds
<1> DEFINE pending == tokensToUpdate \o updateTokens
<1>1. ASSUME NEW r \in Requests, GetTokenFull(r)
      PROVE  UNCHANGED Recorder!recorderVars
  BY <1>1 DEF GetTokenFull, Recorder!recorderVars
<1>2. ASSUME NEW r \in Requests, Send(r)
      PROVE  Recorder!Next
  <2>1. t[r] \in Ids
    BY <1>2 DEF Send
  <2>2. Len(pending) < Cap + BatchMax
    BY <1>2 DEF Send
  <2>3. pending' = Append(pending, t[r])
    BY <1>2, <2>1, ConcatAppend DEF Send
  <2>4. Recorder!Use(t[r])
    BY <1>2, <2>2, <2>3 DEF Send, Recorder!Use
  <2> QED BY <2>1, <2>4 DEF Recorder!Next
<1>3. CASE Receive
  <2>1. pending' = pending
    BY <1>3, MoveHead DEF Receive
  <2> QED BY <1>3, <2>1 DEF Receive, Recorder!recorderVars
<1>4. CASE BatchFull \/ Timeout
  BY <1>4 DEF BatchFull, Timeout, Recorder!recorderVars
<1>5. CASE Update
  <2> DEFINE n == Len(tokensToUpdate)
  <2>1. n \in 1..BatchMax
    BY <1>5 DEF Update
  <2>2. n <= Len(pending)
    OBVIOUS
  <2>3. /\ SubSeq(pending, 1, n) = tokensToUpdate
        /\ SubSeq(pending, n + 1, Len(pending)) = updateTokens
    BY DropBatch
  <2>4. pending' = updateTokens
    BY <1>5 DEF Update
  <2>5. Recorder!Flush(n)
    BY <1>5, <2>2, <2>3, <2>4 DEF Update, Recorder!Flush, ToSet, Recorder!ToSet
  <2> QED BY <2>1, <2>5 DEF Recorder!Next
<1>6. CASE UNCHANGED vars
  BY <1>6 DEF vars, Recorder!recorderVars
<1> QED BY <1>1, <1>2, <1>3, <1>4, <1>5, <1>6 DEF Next, tokenUpdater

\* The updater implements the recorder.
THEOREM Refinement == Spec => RecordsUses
<1>1. Init => Recorder!Init
  BY DEF Init, Recorder!Init
<1>2. IInv /\ [Next]_vars => [Recorder!Next]_(Recorder!recorderVars)
  BY StepRefines
<1> QED BY <1>1, <1>2, Invariance, PTL DEF Spec, RecordsUses, Recorder!Spec
=============================================================================
