---------------------------- MODULE RateLimiter ----------------------------
(***************************************************************************)
(* limit/limit.go: the keyed rate limiter, for one key u of RateLimiter.Map *)
(* (the keys share nothing but the mutex, and no critical section waits).  *)
(*                                                                         *)
(* A key that is in the map has a buffered channel of PerMinute tokens and *)
(* one filler goroutine that puts a token in, sleeps, and, when it finds   *)
(* the channel full, closes it and deletes the key.  Requesters look the   *)
(* channel up, or create it, and take a token from it.                     *)
(*                                                                         *)
(* A critical section of s.Mutex is one step.  Everything between two of   *)
(* them is a step of its own: a requester keeps the channel it read while  *)
(* others use, drain, close or replace it.  s.check() does nothing here:   *)
(* DefaultLimiter, the only limiter of the program, has both fields set.   *)
(***************************************************************************)
EXTENDS Naturals, FiniteSets

CONSTANTS
  Requesters,   \* the goroutines that call Request or NonBlockingRequest
  Chans,        \* identities of channels; one that is garbage can be reused
  PerMinute,    \* the capacity of a channel
  NoChan        \* the zero value of a channel variable (nil)

ASSUME PerMinuteAssumption == PerMinute \in Nat \ {0}
ASSUME NoChanAssumption == NoChan \notin Chans

VARIABLES
  Map,       \* Map[u]: the channel of the key, NoChan when the key is absent
  tokens,    \* [Chans -> 0..PerMinute]: the items buffered in a channel
  closed,    \* [Chans -> BOOLEAN]: the channel was closed
  pc,        \* where a requester is in request()
  blocking,  \* the argument of the call a requester is in
  c,         \* the local variable c of a requester
  filler,    \* [Chans -> ...]: the filler that the creator of a channel starts
  fc,        \* the local variable c of that filler
  wedged     \* s.Mutex was left locked by a panic

requestVars == <<pc, blocking, c>>
fillerVars == <<filler, fc>>
vars == <<Map, tokens, closed, pc, blocking, c, filler, fc, wedged>>

FillerLive == {"start", "loop", "sleep", "full"}

TypeOK ==
  /\ Map \in Chans \cup {NoChan}
  /\ tokens \in [Chans -> 0..PerMinute]
  /\ closed \in [Chans -> BOOLEAN]
  /\ pc \in [Requesters -> {"idle", "make", "take", "rcv"}]
  /\ blocking \in [Requesters -> BOOLEAN]
  /\ c \in [Requesters -> Chans \cup {NoChan}]
  /\ filler \in [Chans -> FillerLive \cup {"none", "done", "panicked"}]
  /\ fc \in [Chans -> Chans \cup {NoChan}]
  /\ wedged \in BOOLEAN

Init ==
  /\ Map = NoChan
  /\ tokens = [ch \in Chans |-> 0]
  /\ closed = [ch \in Chans |-> FALSE]
  /\ pc = [p \in Requesters |-> "idle"]
  /\ blocking = [p \in Requesters |-> FALSE]
  /\ c = [p \in Requesters |-> NoChan]
  /\ filler = [ch \in Chans |-> "none"]
  /\ fc = [ch \in Chans |-> NoChan]
  /\ wedged = FALSE

-----------------------------------------------------------------------------
(* The requesters.                                                          *)

\* Nothing refers to ch any more, so make may return it again.
Garbage(ch) ==
  /\ Map # ch
  /\ \A p \in Requesters : c[p] # ch
  /\ filler[ch] \notin FillerLive
  /\ \A f \in Chans : filler[f] \in FillerLive => fc[f] # ch

\* Mutant of makePrefilledChan: one item and one place too many.
OversizedChan(ch) ==
  /\ Garbage(ch)
  /\ tokens' = [tokens EXCEPT ![ch] = PerMinute + 1]
  /\ closed' = [closed EXCEPT ![ch] = FALSE]
  /\ filler' = [filler EXCEPT ![ch] = "none"]
  /\ fc' = [fc EXCEPT ![ch] = NoChan]

\* makePrefilledChan(perMinute), stored under the key.  A channel that is made
\* but not stored was never seen by anybody and is not modelled.
makePrefilledChan(ch) ==
  /\ Garbage(ch)
  /\ tokens' = [tokens EXCEPT ![ch] = PerMinute]
  /\ closed' = [closed EXCEPT ![ch] = FALSE]
  /\ filler' = [filler EXCEPT ![ch] = "none"]
  /\ fc' = [fc EXCEPT ![ch] = NoChan]

\* Mutant of CanReceive: the default of the select grants the request as well.
AlwaysReceive(ch) == TRUE

\* A receive from ch does not wait: there is an item, or the channel is closed.
CanReceive(ch) == tokens[ch] > 0 \/ closed[ch]

\* What a receive does to the buffer; a closed and drained channel gives the
\* zero value, again and again.
Receive(ch) == tokens' = [tokens EXCEPT ![ch] = IF @ > 0 THEN @ - 1 ELSE 0]

Return(p) ==
  /\ pc' = [pc EXCEPT ![p] = "idle"]
  /\ c' = [c EXCEPT ![p] = NoChan]
  /\ UNCHANGED blocking

\* request: the look-up under the read lock.
Request(p) ==
  /\ pc[p] = "idle"
  /\ ~wedged
  /\ \E b \in BOOLEAN : blocking' = [blocking EXCEPT ![p] = b]
  /\ c' = [c EXCEPT ![p] = Map]
  /\ pc' = [pc EXCEPT ![p] = IF Map = NoChan THEN "make" ELSE "rcv"]
  /\ UNCHANGED <<Map, tokens, closed, fillerVars, wedged>>

\* Mutant of LoseRace: the requester that lost the race starts a filler, too.
LoseRaceAndFill(p) ==
  /\ pc[p] = "make"
  /\ ~wedged
  /\ Map # NoChan
  /\ c' = [c EXCEPT ![p] = Map]
  /\ pc' = [pc EXCEPT ![p] = "take"]
  /\ UNCHANGED <<Map, tokens, closed, blocking, fillerVars, wedged>>

\* request: the key was absent, but somebody stored a channel meanwhile.
LoseRace(p) ==
  /\ pc[p] = "make"
  /\ ~wedged
  /\ Map # NoChan
  /\ c' = [c EXCEPT ![p] = Map]
  /\ pc' = [pc EXCEPT ![p] = "rcv"]
  /\ UNCHANGED <<Map, tokens, closed, blocking, fillerVars, wedged>>

\* Mutant of StoreChan: no second look at the map under the lock.
StoreUnchecked(p) ==
  /\ pc[p] = "make"
  /\ ~wedged
  /\ \E ch \in Chans :
       /\ makePrefilledChan(ch)
       /\ Map' = ch
       /\ c' = [c EXCEPT ![p] = ch]
  /\ pc' = [pc EXCEPT ![p] = "take"]
  /\ UNCHANGED <<blocking, wedged>>

\* request: the key is still absent, so the new channel is stored.
StoreChan(p) ==
  /\ pc[p] = "make"
  /\ ~wedged
  /\ Map = NoChan
  /\ \E ch \in Chans :
       /\ makePrefilledChan(ch)
       /\ Map' = ch
       /\ c' = [c EXCEPT ![p] = ch]
  /\ pc' = [pc EXCEPT ![p] = "take"]
  /\ UNCHANGED <<blocking, wedged>>

\* Mutant of TakeFirst: no filler is started.
TakeOnly(p) ==
  /\ pc[p] = "take"
  /\ CanReceive(c[p])
  /\ Receive(c[p])
  /\ Return(p)
  /\ UNCHANGED <<Map, closed, fillerVars, wedged>>

\* Mutant of TakeFirst: the creator falls through to rcv and takes another token.
TakeTwice(p) ==
  /\ pc[p] = "take"
  /\ CanReceive(c[p])
  /\ tokens' = [tokens EXCEPT ![c[p]] = IF @ > 1 THEN @ - 2 ELSE 0]
  /\ filler' = [filler EXCEPT ![c[p]] = "start"]
  /\ Return(p)
  /\ UNCHANGED <<Map, closed, fc, wedged>>

\* request: <-c of the creator, whatever its blocking argument is, and then
\* the filler.  The filler has its own first step, so starting it here loses
\* no interleaving.
TakeFirst(p) ==
  /\ pc[p] = "take"
  /\ CanReceive(c[p])
  /\ Receive(c[p])
  /\ filler' = [filler EXCEPT ![c[p]] = "start"]
  /\ Return(p)
  /\ UNCHANGED <<Map, closed, fc, wedged>>

\* rcv: something is received, the call returns true.
Granted(p) ==
  /\ pc[p] = "rcv"
  /\ CanReceive(c[p])
  /\ Receive(c[p])
  /\ Return(p)
  /\ UNCHANGED <<Map, closed, fillerVars, wedged>>

\* rcv: the default of the select, the call returns false.
Refused(p) ==
  /\ pc[p] = "rcv"
  /\ ~blocking[p]
  /\ ~CanReceive(c[p])
  /\ Return(p)
  /\ UNCHANGED <<Map, tokens, closed, fillerVars, wedged>>

-----------------------------------------------------------------------------
(* The filler that the creator of channel f started.                        *)

\* filler: c := s.Map[el] under the read lock.
FillerLookup(f) ==
  /\ filler[f] = "start"
  /\ ~wedged
  /\ fc' = [fc EXCEPT ![f] = Map]
  /\ filler' = [filler EXCEPT ![f] = "loop"]
  /\ UNCHANGED <<Map, tokens, closed, requestVars, wedged>>

Open(ch) == ch # NoChan /\ ~closed[ch]

\* filler: c <- struct{}{}.  On a closed channel the send panics, and the
\* deferred recover ends the filler.
FillerSend(f) ==
  /\ filler[f] = "loop"
  /\ fc[f] # NoChan
  /\ Open(fc[f]) => tokens[fc[f]] < PerMinute
  /\ tokens' = [tokens EXCEPT ![fc[f]] = IF Open(fc[f]) THEN @ + 1 ELSE @]
  /\ filler' = [filler EXCEPT ![f] = IF Open(fc[f]) THEN "sleep" ELSE "panicked"]
  /\ UNCHANGED <<Map, closed, requestVars, fc, wedged>>

\* Mutant of FillerWake: the filler returns after one token.
FillerReturns(f) ==
  /\ filler[f] = "sleep"
  /\ filler' = [filler EXCEPT ![f] = "done"]
  /\ UNCHANGED <<Map, tokens, closed, requestVars, fc, wedged>>

\* filler: time.Sleep is over.
FillerWake(f) ==
  /\ filler[f] = "sleep"
  /\ filler' = [filler EXCEPT ![f] = "loop"]
  /\ UNCHANGED <<Map, tokens, closed, requestVars, fc, wedged>>

\* Mutant of FillerFull: a full channel is waited for, not given up.
FillerWaits(f) ==
  /\ filler[f] = "loop"
  /\ fc[f] # NoChan => ~closed[fc[f]] /\ tokens[fc[f]] = PerMinute
  /\ filler' = [filler EXCEPT ![f] = "sleep"]
  /\ UNCHANGED <<Map, tokens, closed, requestVars, fc, wedged>>

\* filler: the default of the select, taken when the send would wait: the
\* channel is full, or nil.
FillerFull(f) ==
  /\ filler[f] = "loop"
  /\ fc[f] # NoChan => ~closed[fc[f]] /\ tokens[fc[f]] = PerMinute
  /\ filler' = [filler EXCEPT ![f] = "full"]
  /\ UNCHANGED <<Map, tokens, closed, requestVars, fc, wedged>>

\* Mutant of FillerClose: the key stays in the map.
CloseOnly(f) ==
  /\ filler[f] = "full"
  /\ ~wedged
  /\ closed' = [ch \in Chans |-> closed[ch] \/ ch = fc[f]]
  /\ filler' = [filler EXCEPT ![f] = IF Open(fc[f]) THEN "done" ELSE "panicked"]
  /\ wedged' = ~Open(fc[f])
  /\ UNCHANGED <<Map, tokens, requestVars, fc>>

\* filler: close(c) and delete(s.Map, el) under the lock.  Closing a nil or a
\* closed channel panics: the recover ends the filler before the delete, and
\* nothing releases the lock it holds.
FillerClose(f) ==
  /\ filler[f] = "full"
  /\ ~wedged
  /\ closed' = [ch \in Chans |-> closed[ch] \/ ch = fc[f]]
  /\ Map' = IF Open(fc[f]) THEN NoChan ELSE Map
  /\ filler' = [filler EXCEPT ![f] = IF Open(fc[f]) THEN "done" ELSE "panicked"]
  /\ wedged' = ~Open(fc[f])
  /\ UNCHANGED <<tokens, requestVars, fc>>

-----------------------------------------------------------------------------

request(p) ==
  \/ Request(p) \/ LoseRace(p) \/ StoreChan(p)
  \/ TakeFirst(p) \/ Granted(p) \/ Refused(p)

fill(f) ==
  \/ FillerLookup(f) \/ FillerSend(f) \/ FillerWake(f)
  \/ FillerFull(f) \/ FillerClose(f)

Next ==
  \/ \E p \in Requesters : request(p)
  \/ \E f \in Chans : fill(f)

Spec == Init /\ [][Next]_vars

\* The scheduler runs every goroutine that can run, and the waiters of a
\* channel are served in the order they came, so that one that is passed over
\* while the channel gets items again and again is served in the end (strong
\* fairness).  Nobody has to call the limiter: Request is not fair.
Fairness ==
  /\ \A p \in Requesters :
       /\ WF_vars(LoseRace(p) \/ StoreChan(p))
       /\ WF_vars(Refused(p))
       /\ SF_vars(TakeFirst(p))
       /\ SF_vars(Granted(p))
  /\ \A f \in Chans : WF_vars(fill(f))

FairSpec == Spec /\ Fairness

-----------------------------------------------------------------------------
(* What should hold.                                                        *)

\* No goroutine panics on the channel: the filler never sends on, or closes, a
\* closed or missing channel, so it never dies with the mutex locked (the
\* comment of request: "we want to make sure we don't overwrite an existing
\* channel. Otherwise, race conditions and panic happen").
NoPanic ==
  /\ ~wedged
  /\ \A f \in Chans : filler[f] # "panicked"

\* A channel in the map has someone who puts tokens in: its filler is running,
\* or the requester that stored it is about to start it; never both.
MapHasFeeder ==
  Map # NoChan =>
    \/ /\ filler[Map] \in FillerLive
       /\ \A p \in Requesters : ~(pc[p] = "take" /\ c[p] = Map)
    \/ /\ filler[Map] \notin FillerLive
       /\ \E p \in Requesters : pc[p] = "take" /\ c[p] = Map

\* There is at most one running filler, it feeds the channel of the map and
\* nothing else, and the channel of the map is open.
OneFiller ==
  /\ \A f \in Chans : filler[f] \in FillerLive => f = Map
  /\ \A f \in Chans : filler[f] \in FillerLive \ {"start"} => fc[f] = Map
  /\ Map # NoChan => ~closed[Map]

\* A stored channel is never replaced: a requester that lost the race uses the
\* channel it finds, and only the filler removes it.
NeverOverwritten ==
  [][Map # NoChan => Map' \in {Map, NoChan}]_vars

\* A requester that waits on a channel with a filler gets an answer.
FedRequestReturns ==
  \A p \in Requesters :
    (pc[p] = "rcv" /\ filler[c[p]] \in FillerLive) ~> (pc[p] = "idle")

\* When nobody uses the key any more, the key leaves the map: the filler fills
\* the channel up, closes it and ends.
IdleKeyIsDropped ==
  (<>[](\A p \in Requesters : pc[p] = "idle")) => <>[](Map = NoChan)

\* A non-blocking request comes back, with one answer or the other (the comment
\* of NonBlockingRequest: "If it can't, it returns false, else it returns true").
NonBlockingReturns ==
  \A p \in Requesters :
    (pc[p] # "idle" /\ ~blocking[p]) ~> (pc[p] = "idle")
=============================================================================
