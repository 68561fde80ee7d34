---------------------- MODULE RateLimiterClockProofs -----------------------
(* How fast the limiter lets requests through, for every rate, every number of
   requesters and every length of time.                                     *)
EXTENDS RateLimiterClock, RateLimiterProofs, FiniteSetTheorems

\* The filler puts in one token at once and then at most one a tick; when it
\* finds the channel full it has put in one at least, since the requester that
\* stored the channel took one before the filler began.
Pace ==
  /\ \A ch \in Chans : InUse(ch) => added[ch] + born[ch] <= now + 1 /\ born[ch] <= now
  /\ \A p \in Requesters : pc[p] = "take" => added[c[p]] = 0
  /\ \A f \in Chans : filler[f] \in FillerLive => taken[f] >= 1
  /\ \A f \in Chans : filler[f] = "start" => added[f] = 0
  /\ \A f \in Chans : filler[f] \in {"loop", "full"} => added[f] + born[f] <= now
  /\ \A f \in Chans : filler[f] = "sleep" => added[f] + born[f] <= wake[f]
  /\ \A f \in Chans : filler[f] = "full" => added[f] >= 1

\* The inductive invariant of the timed limiter.
CInv ==
  /\ IInv
  /\ ClockTypeOK
  /\ TokensConserved
  /\ Pace
  /\ UnpaidBound

\* The clock and the counters watch the limiter, they do not change what it may
\* do: every behaviour of the timed limiter is one of the limiter.
THEOREM ClockImplementsLimiter == CSpec => Spec
<1>1. CInit => Init
  BY DEF CInit
<1>2. [CNext]_allVars => [Next]_vars
  BY DEF CNext, Next, allVars, vars, Tick, request, fill, CStoreChan, CReceive, COther,
     CSend, CWake, CFillerOther
<1> QED BY <1>1, <1>2, PTL DEF CSpec, Spec

\* The initial state satisfies the inductive invariant.
LEMMA InitCInv == CInit => CInv
<1> SUFFICES ASSUME CInit PROVE CInv
  OBVIOUS
<1>1. IInv
  BY InitIInv DEF CInit
<1>2. ClockTypeOK
  BY <1>1 DEF CInit, ClockTypeOK, IInv
<1>3. \A ch \in Chans : ~InUse(ch) /\ filler[ch] = "none"
  BY NoChanAssumption DEF CInit, Init, InUse
<1>4. \A p \in Requesters : pc[p] = "idle"
  BY DEF CInit, Init
<1> QED BY <1>1, <1>2, <1>3, <1>4 DEF CInv, TokensConserved, Pace, UnpaidBound, FillerLive

\* The counters keep their types.
LEMMA StepClockType ==
  ASSUME CInv, TypeOK', [CNext]_allVars
  PROVE  ClockTypeOK'
<1> USE DEF ClockTypeOK, CInv
<1>1. CASE Tick
  BY <1>1 DEF Tick
<1>2. ASSUME NEW p \in Requesters, CStoreChan(p)
      PROVE  ClockTypeOK'
  BY <1>2 DEF CStoreChan
<1>3. ASSUME NEW p \in Requesters, CReceive(p)
      PROVE  ClockTypeOK'
  <2>1. c[p] \in Chans /\ tokens[c[p]] \in Nat
    BY <1>3, PerMinuteAssumption
    DEF CReceive, TakeFirst, Granted, IInv, TypeOK, CreatorFirst, HoldsChan
  <2>2. taken' \in [Chans -> Nat]
    BY <1>3, <2>1 DEF CReceive, Account
  <2>3. unpaid' \in [Chans -> Nat]
    BY <1>3, <2>1 DEF CReceive, Account
  <2> QED BY <1>3, <2>2, <2>3 DEF CReceive
<1>4. ASSUME NEW p \in Requesters, COther(p)
      PROVE  ClockTypeOK'
  BY <1>4 DEF COther, clockVars
<1>5. ASSUME NEW f \in Chans, CSend(f)
      PROVE  ClockTypeOK'
  <2>1. added' \in [Chans -> Nat]
    <3>1. added[fc[f]] \in Nat
      BY <1>5 DEF CSend, FillerSend, IInv, TypeOK
    <3>2. added' = [added EXCEPT ![fc[f]] = added[fc[f]] + 1] \/ added' = added
      <4>1. CASE Open(fc[f])
        BY <1>5, <4>1 DEF CSend
      <4>2. CASE ~Open(fc[f])
        BY <1>5, <4>2, <3>1 DEF CSend
      <4> QED BY <4>1, <4>2
    <3> QED BY <3>1, <3>2
  <2>2. wake' \in [Chans -> Nat]
    BY <1>5 DEF CSend
  <2> QED BY <1>5, <2>1, <2>2 DEF CSend
<1>6. ASSUME NEW f \in Chans, CWake(f) \/ CFillerOther(f)
      PROVE  ClockTypeOK'
  BY <1>6 DEF CWake, CFillerOther, clockVars
<1>7. CASE UNCHANGED allVars
  BY <1>7 DEF allVars, clockVars
<1> QED BY <1>1, <1>2, <1>3, <1>4, <1>5, <1>6, <1>7 DEF CNext

\* A step of a requester preserves the rest of the invariant.
LEMMA RequesterStep ==
  ASSUME CInv, IInv', ClockTypeOK', NEW p \in Requesters,
         CStoreChan(p) \/ CReceive(p) \/ COther(p)
  PROVE  TokensConserved' /\ Pace'
<1> USE PerMinuteAssumption, NoChanAssumption DEF FillerLive, InUse, requestVars, fillerVars
<1>1. CASE CStoreChan(p)
  <2>1. PICK ch \in Chans : makePrefilledChan(ch) /\ Map' = ch /\ c' = [c EXCEPT ![p] = ch]
    BY <1>1 DEF CStoreChan, StoreChan
  <2>2. \A x \in Chans : x # ch => (InUse(x)' => InUse(x))
    BY <1>1, <2>1 DEF CStoreChan, StoreChan, CInv, IInv, TypeOK
  <2>3. TokensConserved'
    BY <1>1, <2>1, <2>2
    DEF CStoreChan, StoreChan, makePrefilledChan, TokensConserved, CInv, ClockTypeOK, IInv, TypeOK
  <2>4. \A f \in Chans : filler'[f] \notin FillerLive
    BY <1>1, <2>1
    DEF CStoreChan, StoreChan, makePrefilledChan, CInv, IInv, TypeOK, OneFiller
  <2>5. \A q \in Requesters : pc'[q] = "take" => c'[q] = ch
    BY <2>1 DEF IInv, CreatorFirst
  <2>6. Pace'
    BY <1>1, <2>1, <2>2, <2>4, <2>5
    DEF CStoreChan, StoreChan, Pace, CInv, ClockTypeOK, IInv, TypeOK
  <2> QED BY <2>3, <2>6
<1>2. CASE CReceive(p)
  <2> USE DEF CReceive, Account, TakeFirst, Granted, Receive, CanReceive, Return
  <2>1. c[p] \in Chans
    BY <1>2 DEF CInv, IInv, TypeOK, CreatorFirst, HoldsChan
  <2>2. \A x \in Chans : InUse(x)' => InUse(x)
    BY <1>2 DEF CInv, IInv, TypeOK
  <2>3. InUse(c[p])
    BY <2>1
  <2>4. TokensConserved'
    BY <1>2, <2>1, <2>2, <2>3 DEF TokensConserved, CInv, ClockTypeOK, IInv, TypeOK
  <2>5. \A f \in Chans : taken'[f] >= taken[f]
    BY <1>2, <2>1 DEF CInv, ClockTypeOK
  <2>6. CASE TakeFirst(p)
    <3>1. ~closed[c[p]] /\ c[p] = Map /\ \A f \in Chans : filler[f] \notin FillerLive
      BY <2>6, <2>1 DEF CInv, IInv, CreatorFirst, OneFiller
    <3>2. taken'[c[p]] >= 1 /\ added'[c[p]] = 0
      BY <1>2, <2>6, <3>1, <2>1 DEF CInv, ClockTypeOK, IInv, TypeOK, Pace
    <3>3. \A q \in Requesters : pc'[q] # "take"
      BY <2>6 DEF CInv, IInv, TypeOK, CreatorFirst
    <3>4. \A f \in Chans : filler'[f] = IF f = c[p] THEN "start" ELSE filler[f]
      BY <2>6, <2>1 DEF CInv, IInv, TypeOK
    <3> QED BY <1>2, <2>2, <2>4, <3>1, <3>2, <3>3, <3>4 DEF Pace, CInv, ClockTypeOK
  <2>7. CASE Granted(p)
    <3>1. \A q \in Requesters : pc'[q] = "take" => pc[q] = "take" /\ c'[q] = c[q]
      BY <2>7 DEF CInv, IInv, TypeOK
    <3>2. \A f \in Chans : taken[f] >= 1 => taken'[f] >= 1
      BY <2>5, <1>2 DEF CInv, ClockTypeOK
    <3> QED BY <1>2, <2>7, <2>2, <2>4, <3>1, <3>2 DEF Pace, CInv, ClockTypeOK
  <2> QED BY <1>2, <2>6, <2>7
<1>3. CASE COther(p)
  <2>1. \A x \in Chans : InUse(x)' => InUse(x)
    BY <1>3 DEF COther, Request, LoseRace, Refused, Return, CInv, IInv, TypeOK
  <2>2. \A q \in Requesters : pc'[q] = "take" => pc[q] = "take" /\ c'[q] = c[q]
    BY <1>3 DEF COther, Request, LoseRace, Refused, Return, CInv, IInv, TypeOK
  <2>3. UNCHANGED <<tokens, filler, clockVars>>
    BY <1>3 DEF COther, Request, LoseRace, Refused
  <2> QED BY <2>1, <2>2, <2>3 DEF clockVars, TokensConserved, Pace, CInv
<1> QED BY <1>1, <1>2, <1>3

\* A step of a filler preserves the rest of the invariant.
LEMMA FillerStep ==
  ASSUME CInv, IInv', ClockTypeOK', NEW f \in Chans,
         CSend(f) \/ CWake(f) \/ CFillerOther(f)
  PROVE  TokensConserved' /\ Pace'
<1> USE PerMinuteAssumption, NoChanAssumption DEF FillerLive, InUse, requestVars
<1>1. filler[f] \in FillerLive /\ f = Map /\ ~closed[f]
  BY DEF CSend, CWake, CFillerOther, FillerLookup, FillerSend, FillerWake, FillerFull,
     FillerClose, CInv, IInv, OneFiller
<1>2. filler[f] # "start" => fc[f] = f
  BY <1>1 DEF CInv, IInv, OneFiller
<1>3. \A p \in Requesters : pc[p] # "take"
  BY <1>1 DEF CInv, IInv, CreatorFirst
<1>4. CASE CSend(f)
  BY <1>1, <1>2, <1>3, <1>4
  DEF CSend, FillerSend, Open, TokensConserved, Pace, CInv, ClockTypeOK, IInv, TypeOK
<1>5. CASE CWake(f)
  BY <1>1, <1>3, <1>5
  DEF CWake, FillerWake, clockVars, TokensConserved, Pace, CInv, ClockTypeOK, IInv, TypeOK
<1>6. CASE FillerLookup(f) /\ UNCHANGED clockVars
  BY <1>1, <1>3, <1>6
  DEF FillerLookup, clockVars, TokensConserved, Pace, CInv, ClockTypeOK, IInv, TypeOK
<1>7. CASE FillerFull(f) /\ UNCHANGED clockVars
  <2>1. tokens[f] = PerMinute /\ taken[f] >= 1 /\ taken[f] + tokens[f] = PerMinute + added[f]
    BY <1>1, <1>2, <1>7 DEF FillerFull, TokensConserved, Pace, CInv
  <2>2. added[f] >= 1
    BY <2>1 DEF CInv, ClockTypeOK
  <2> QED
    BY <1>1, <1>3, <1>7, <2>2
    DEF FillerFull, clockVars, TokensConserved, Pace, CInv, ClockTypeOK, IInv, TypeOK
<1>8. CASE FillerClose(f) /\ UNCHANGED clockVars
  BY <1>1, <1>2, <1>3, <1>8
  DEF FillerClose, Open, clockVars, TokensConserved, Pace, CInv, ClockTypeOK, IInv, TypeOK
<1> QED BY <1>4, <1>5, <1>6, <1>7, <1>8 DEF CFillerOther

\* A grant without a token uses up one of the requesters that hold the channel.
LEMMA UnpaidStep ==
  ASSUME CInv, IInv', ClockTypeOK', [CNext]_allVars
  PROVE  UnpaidBound'
<1> USE NoChanAssumption, RequestersAssumption DEF InUse
<1>1. \A S \in SUBSET Requesters :
        IsFiniteSet(S) /\ Cardinality(S) \in Nat /\ Cardinality(S) <= Cardinality(Requesters)
  BY FS_Subset, FS_CardinalityType
<1>2. SUFFICES ASSUME NEW ch \in Chans, InUse(ch)'
               PROVE  /\ unpaid'[ch] > 0 => closed'[ch]
                      /\ unpaid'[ch] + Cardinality(Holders(ch)') <= Cardinality(Requesters)
  BY DEF UnpaidBound
<1>3. Holders(ch) \in SUBSET Requesters /\ Holders(ch)' \in SUBSET Requesters
  BY DEF Holders
<1>4. unpaid[ch] \in Nat /\ unpaid'[ch] \in Nat
  BY DEF CInv, ClockTypeOK
<1>5. CASE unpaid'[ch] = 0
  BY <1>1, <1>3, <1>5
<1>6. CASE InUse(ch) /\ unpaid'[ch] = unpaid[ch] /\ (closed[ch] => closed'[ch])
           /\ Holders(ch)' \subseteq Holders(ch)
  <2>1. Cardinality(Holders(ch)') <= Cardinality(Holders(ch))
    BY <1>1, <1>3, <1>6, FS_Subset
  <2> QED BY <1>1, <1>3, <1>4, <1>6, <2>1 DEF CInv, UnpaidBound
<1>7. ASSUME NEW p \in Requesters, CStoreChan(p)
      PROVE  unpaid'[ch] = 0 \/ (InUse(ch) /\ unpaid'[ch] = unpaid[ch] /\ closed'[ch] = closed[ch]
               /\ Holders(ch)' \subseteq Holders(ch))
  <2>1. PICK x \in Chans : makePrefilledChan(x) /\ Map' = x /\ c' = [c EXCEPT ![p] = x]
    BY <1>7 DEF CStoreChan, StoreChan
  <2>2. CASE ch = x
    BY <1>7, <2>1, <2>2 DEF CStoreChan, CInv, ClockTypeOK
  <2>3. CASE ch # x
    <3>1. InUse(ch) /\ Holders(ch)' \subseteq Holders(ch)
      BY <1>2, <2>1, <2>3 DEF Holders, CInv, IInv, TypeOK
    <3>2. unpaid'[ch] = unpaid[ch]
      BY <1>7, <2>1, <2>3 DEF CStoreChan, CInv, ClockTypeOK
    <3>3. closed'[ch] = closed[ch]
      BY <2>1, <2>3 DEF makePrefilledChan, CInv, IInv, TypeOK
    <3> QED BY <3>1, <3>2, <3>3
  <2> QED BY <2>2, <2>3
<1>8. ASSUME NEW p \in Requesters, CReceive(p)
      PROVE  \/ InUse(ch) /\ unpaid'[ch] = unpaid[ch] /\ closed'[ch] = closed[ch]
                  /\ Holders(ch)' \subseteq Holders(ch)
             \/ InUse(ch) /\ ch = c[p] /\ closed'[ch] /\ unpaid'[ch] = unpaid[ch] + 1
                  /\ Holders(ch)' = Holders(ch) \ {p} /\ p \in Holders(ch)
  <2>1. c' = [c EXCEPT ![p] = NoChan] /\ Map' = Map /\ closed' = closed /\ CanReceive(c[p])
    BY <1>8 DEF CReceive, TakeFirst, Granted, Return
  <2>2. c[p] \in Chans
    BY <1>8 DEF CReceive, TakeFirst, Granted, CInv, IInv, TypeOK, CreatorFirst, HoldsChan
  <2>3. InUse(ch) /\ Holders(ch)' = Holders(ch) \ {p}
    BY <1>2, <2>1 DEF Holders, CInv, IInv, TypeOK
  <2>4. unpaid' = [unpaid EXCEPT ![c[p]] = IF tokens[c[p]] > 0 THEN @ ELSE @ + 1]
    BY <1>8 DEF CReceive, Account
  <2>5. CASE ch = c[p] /\ ~(tokens[ch] > 0)
    BY <2>1, <2>2, <2>3, <2>4, <2>5 DEF CanReceive, CInv, ClockTypeOK, Holders
  <2>6. CASE ch # c[p] \/ tokens[ch] > 0
    BY <2>1, <2>2, <2>3, <2>4, <2>6 DEF CInv, ClockTypeOK
  <2> QED BY <2>5, <2>6
<1>9. CASE InUse(ch) /\ closed'[ch] /\ unpaid'[ch] = unpaid[ch] + 1
           /\ \E p \in Holders(ch) : Holders(ch)' = Holders(ch) \ {p}
  <2>1. Cardinality(Holders(ch)') = Cardinality(Holders(ch)) - 1
    BY <1>1, <1>3, <1>9, FS_RemoveElement
  <2> QED BY <1>1, <1>3, <1>4, <1>9, <2>1 DEF CInv, UnpaidBound
<1>10. ASSUME NEW p \in Requesters, COther(p)
       PROVE  unpaid'[ch] = 0 \/ (InUse(ch) /\ unpaid'[ch] = unpaid[ch] /\ closed'[ch] = closed[ch]
                /\ Holders(ch)' \subseteq Holders(ch))
  <2>1. UNCHANGED <<Map, closed, unpaid>>
    BY <1>10 DEF COther, clockVars, Request, LoseRace, Refused
  <2>2. InUse(ch)
    BY <1>10, <1>2, <2>1 DEF COther, Request, LoseRace, Refused, Return, CInv, IInv, TypeOK
  <2>3. CASE ch = Map
    BY <2>1, <2>2, <2>3, <1>4 DEF CInv, UnpaidBound, IInv, OneFiller
  <2>4. CASE ch # Map
    BY <1>10, <2>1, <2>2, <2>4
    DEF COther, Request, LoseRace, Refused, Return, Holders, CInv, IInv, TypeOK
  <2> QED BY <2>3, <2>4
<1>11. ASSUME UNCHANGED <<c, unpaid>>, Map' \in {Map, NoChan}, closed[ch] => closed'[ch]
       PROVE  InUse(ch) /\ unpaid'[ch] = unpaid[ch] /\ (closed[ch] => closed'[ch])
                /\ Holders(ch)' \subseteq Holders(ch)
  BY <1>11, <1>2 DEF Holders
<1>12. ASSUME NEW f \in Chans, CSend(f) \/ CWake(f) \/ CFillerOther(f)
       PROVE  UNCHANGED <<c, unpaid>> /\ Map' \in {Map, NoChan} /\ (closed[ch] => closed'[ch])
  BY <1>12 DEF CSend, CWake, CFillerOther, clockVars, FillerSend, FillerWake, FillerLookup,
     FillerFull, FillerClose, requestVars
<1>13. CASE Tick \/ UNCHANGED allVars
  BY <1>6, <1>11, <1>13 DEF Tick, allVars, vars, clockVars
<1> QED BY <1>5, <1>6, <1>7, <1>8, <1>9, <1>10, <1>11, <1>12, <1>13 DEF CNext

\* The inductive invariant of the timed limiter.
THEOREM ClockInvariance == CSpec => []CInv
<1>1. CInv /\ [CNext]_allVars => CInv'
  <2> SUFFICES ASSUME CInv, [CNext]_allVars PROVE CInv'
    OBVIOUS
  <2>1. [Next]_vars
    BY DEF CNext, Next, allVars, vars, Tick, request, fill, CStoreChan, CReceive, COther,
       CSend, CWake, CFillerOther
  <2>2. IInv'
    BY <2>1, StepIInv DEF CInv
  <2>3. ClockTypeOK'
    BY <2>2, StepClockType DEF IInv
  <2>4. ASSUME Tick
        PROVE  TokensConserved' /\ Pace'
    BY <2>4 DEF Tick, vars, CInv, TokensConserved, Pace, InUse, ClockTypeOK
  <2>5. ASSUME UNCHANGED allVars
        PROVE  TokensConserved' /\ Pace'
    BY <2>5 DEF allVars, vars, clockVars, CInv, TokensConserved, Pace, InUse
  <2>6. TokensConserved' /\ Pace'
    BY <2>2, <2>3, <2>4, <2>5, RequesterStep, FillerStep DEF CNext
  <2> QED BY <2>2, <2>3, <2>6, UnpaidStep DEF CInv
<1> QED BY InitCInv, <1>1, PTL DEF CSpec

\* Nothing is lost and nothing invented between the filler and the requests.
THEOREM Conservation == CSpec => []TokensConserved
BY ClockInvariance, PTL DEF CInv

\* The rate the limiter guarantees to a key for as long as its entry lives.
THEOREM RateIsBounded == CSpec => []RateBound
<1>1. CInv => RateBound
  BY PerMinuteAssumption
  DEF CInv, RateBound, TokensConserved, Pace, ClockTypeOK, IInv, TypeOK
<1> QED BY <1>1, ClockInvariance, PTL

\* Requests that got through without a token are few.
THEOREM UnpaidIsBounded == CSpec => []UnpaidBound
BY ClockInvariance, PTL DEF CInv

\* The entry of a key is not dropped and made anew within a tick.
THEOREM EntryLasts == CSpec => EntryLastsATick
<1>1. CInv /\ [CNext]_allVars => [Map # NoChan /\ Map' = NoChan => now > born[Map]]_allVars
  <2> SUFFICES ASSUME CInv, CNext, Map # NoChan, Map' = NoChan
               PROVE  now > born[Map]
    OBVIOUS
  <2>1. PICK f \in Chans : FillerClose(f)
    BY NoChanAssumption DEF CNext, Tick, vars, CStoreChan, StoreChan, CReceive, TakeFirst, Granted, COther,
       Request, LoseRace, Refused, CSend, FillerSend, CWake, FillerWake, CFillerOther,
       FillerLookup, FillerFull
  <2>2. filler[f] = "full" /\ f = Map
    BY <2>1 DEF FillerClose, CInv, IInv, OneFiller, FillerLive
  <2> QED BY <2>2 DEF CInv, Pace, ClockTypeOK
<1> QED BY <1>1, ClockInvariance, PTL DEF CSpec, EntryLastsATick
=============================================================================
