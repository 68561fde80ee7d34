------------------------- MODULE RateLimiterClock --------------------------
(***************************************************************************)
(* RateLimiter with the clock of time.Sleep and with what went in and out  *)
(* of the channels.  A tick is the sleep of the filler, time.Minute /      *)
(* perMinute: a minute is PerMinute ticks.                                 *)
(*                                                                         *)
(* A sleep lasts a tick or longer, everything else takes no time or any    *)
(* time: the clock may advance whenever nothing forces a step.             *)
(***************************************************************************)
EXTENDS RateLimiter

CONSTANT MaxTime  \* bound of the clock, for TLC
ASSUME MaxTimeAssumption == MaxTime \in Nat
ASSUME RequestersAssumption == IsFiniteSet(Requesters)

VARIABLES
  now,     \* the time in ticks
  wake,    \* when the sleep of a filler is over
  born,    \* when a channel was stored in the map
  added,   \* the tokens its filler put into a channel
  taken,   \* the tokens that requests took out of a channel
  unpaid   \* the requests granted by a receive from a closed, drained channel

clockVars == <<now, wake, born, added, taken, unpaid>>
allVars == <<vars, clockVars>>

ClockTypeOK ==
  /\ TypeOK
  /\ now \in Nat
  /\ wake \in [Chans -> Nat]
  /\ born \in [Chans -> Nat]
  /\ added \in [Chans -> Nat]
  /\ taken \in [Chans -> Nat]
  /\ unpaid \in [Chans -> Nat]

CInit ==
  /\ Init
  /\ now = 0
  /\ wake = [ch \in Chans |-> 0]
  /\ born = [ch \in Chans |-> 0]
  /\ added = [ch \in Chans |-> 0]
  /\ taken = [ch \in Chans |-> 0]
  /\ unpaid = [ch \in Chans |-> 0]

Tick ==
  /\ now < MaxTime
  /\ now' = now + 1
  /\ UNCHANGED <<vars, wake, born, added, taken, unpaid>>

\* A granted request took a token, or got away without one.
Account(ch) ==
  /\ taken' = [taken EXCEPT ![ch] = IF tokens[ch] > 0 THEN @ + 1 ELSE @]
  /\ unpaid' = [unpaid EXCEPT ![ch] = IF tokens[ch] > 0 THEN @ ELSE @ + 1]

CStoreChan(p) ==
  /\ StoreChan(p)
  /\ born' = [born EXCEPT ![Map'] = now]
  /\ added' = [added EXCEPT ![Map'] = 0]
  /\ taken' = [taken EXCEPT ![Map'] = 0]
  /\ unpaid' = [unpaid EXCEPT ![Map'] = 0]
  /\ UNCHANGED <<now, wake>>

CReceive(p) ==
  /\ TakeFirst(p) \/ Granted(p)
  /\ Account(c[p])
  /\ UNCHANGED <<now, wake, born, added>>

COther(p) ==
  /\ Request(p) \/ LoseRace(p) \/ Refused(p)
  /\ UNCHANGED clockVars

\* The token goes in and the sleep begins.
CSend(f) ==
  /\ FillerSend(f)
  /\ added' = [added EXCEPT ![fc[f]] = IF Open(fc[f]) THEN @ + 1 ELSE @]
  /\ wake' = [wake EXCEPT ![f] = now + 1]
  /\ UNCHANGED <<now, born, taken, unpaid>>

\* Mutant of CWake: the filler does not sleep.
CWakeAtOnce(f) ==
  /\ FillerWake(f)
  /\ UNCHANGED clockVars

CWake(f) ==
  /\ FillerWake(f)
  /\ now >= wake[f]
  /\ UNCHANGED clockVars

CFillerOther(f) ==
  /\ FillerLookup(f) \/ FillerFull(f) \/ FillerClose(f)
  /\ UNCHANGED clockVars

CNext ==
  \/ Tick
  \/ \E p \in Requesters : CStoreChan(p) \/ CReceive(p) \/ COther(p)
  \/ \E f \in Chans : CSend(f) \/ CWake(f) \/ CFillerOther(f)

CSpec == CInit /\ [][CNext]_allVars

-----------------------------------------------------------------------------

\* The channels that were stored and that something still refers to.
InUse(ch) == Map = ch \/ \E p \in Requesters : c[p] = ch

\* Nothing is lost and nothing invented: what was taken from a channel and what
\* is left in it is what it was made with and what its filler added.
TokensConserved ==
  \A ch \in Chans : InUse(ch) => taken[ch] + tokens[ch] = PerMinute + added[ch]

\* What the limiter does guarantee: t ticks after it was stored, a channel has
\* paid for at most PerMinute + 1 + t requests, however the requests and the
\* filler interleave.
RateBound ==
  \A ch \in Chans : InUse(ch) => taken[ch] <= PerMinute + 1 + (now - born[ch])

\* Who can still receive from ch.
Holders(ch) == {p \in Requesters : c[p] = ch}

\* Only a closed channel grants a request without a token, and it does so at
\* most once for each requester that had looked it up before it was closed.
UnpaidBound ==
  \A ch \in Chans : InUse(ch) =>
    /\ unpaid[ch] > 0 => closed[ch]
    /\ unpaid[ch] + Cardinality(Holders(ch)) <= Cardinality(Requesters)

\* A key stays in the map for a tick or longer: the full bucket of the next
\* channel is not to be had twice in a tick.
EntryLastsATick ==
  [][Map # NoChan /\ Map' = NoChan => now > born[Map]]_allVars

\* "You may only try to request 5 beatmaps per minute" (the message of
\* BeatmapRequestsSubmitPOST): no more than PerMinute requests in the first
\* minute of a key.
AtMostPerMinute ==
  \A ch \in Chans :
    InUse(ch) /\ now - born[ch] < PerMinute => taken[ch] + unpaid[ch] <= PerMinute
=============================================================================
