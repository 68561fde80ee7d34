------------------------------ MODULE Beatmaps -----------------------------
(***************************************************************************)
(* The ranked status of beatmaps: app/v1/beatmap.go.                       *)
(***************************************************************************)
EXTENDS Caretaker, Integers, Sequences

Seqs == INSTANCE SequencesExt

CONSTANTS
  Maps,        \* the beatmap_ids
  SetOf,       \* the set of a map
  OtherStatus  \* a bound: the statuses that set_status gives, with frozen

\* ranked and ranked_status_freezed.
MapStatus == [ranked : -2..5, frozen : {0, 1}]

ASSUME MapsAssumption ==
  /\ Maps \subseteq DOMAIN SetOf
  /\ IsFiniteSet(Maps)
  /\ OtherStatus \subseteq {x \in MapStatus : x.ranked \in -1..4}

VARIABLE mapStatus  \* the status of a map

MapFact(m) == <<"map", Nobody, <<m, mapStatus[m]>>>>
BeatmapFacts == {MapFact(m) : m \in Maps}
BeatmapsTypeOK == mapStatus \in [Maps -> MapStatus]

MapsOf(set) == {m \in Maps : SetOf[m] = set}

\* BeatmapSetStatusPOST: by a map, whose set is looked up, or by a set.
BeatmapSetStatusPOST(r) ==
  /\ Serves(r, "beatmaps/set_status")
  /\ (\E m \in Maps : Continue(r, "beatmaps/set_status:update", m, {})) \/ Refuse(r)
  /\ UNCHANGED mapStatus

\* BeatmapSetStatusPOST: the UPDATE of the maps of the set, whose error is not
\* looked at.
BeatmapSetStatusPOSTUpdate(r) ==
  /\ pc[r] = "beatmaps/set_status:update"
  /\ \/ \E new \in OtherStatus :
          mapStatus' = [m \in Maps |-> IF SetOf[m] = SetOf[arg[r]] THEN new ELSE mapStatus[m]]
     \/ UNCHANGED mapStatus
  /\ Continue(r, "beatmaps/set_status:get", arg[r], {})

\* The answer, by getMultipleBeatmaps: the map, or the maps of the set.
BeatmapSetStatusPOSTGet(r) ==
  /\ pc[r] = "beatmaps/set_status:get"
  /\ \/ \E ms \in {{arg[r]}, MapsOf(SetOf[arg[r]])} : ReplyRows(r, {MapFact(m) : m \in ms})
     \/ Refuse(r)
  /\ UNCHANGED mapStatus

\* BeatmapGET: getBeatmapSingle and getMultipleBeatmaps.
BeatmapGET(r) ==
  /\ Serves(r, "beatmaps")
  /\ ReplyRows(r, BeatmapFacts) \/ Refuse(r)
  /\ UNCHANGED mapStatus

\* BeatmapRankedFrozenFullGET: the frozen ones.
BeatmapRankedFrozenFullGET(r) ==
  /\ Serves(r, "beatmaps/ranked_frozen_full")
  /\ \/ ReplyRows(r, {MapFact(m) : m \in {m \in Maps : mapStatus[m].frozen = 1}})
     \/ Refuse(r)
  /\ UNCHANGED mapStatus

\* BeatmapSearchGET puts its rows into sets.  The set that is filled goes to the
\* list, and the next one gets its id, where that of the row is meant.
closeSet(found) == [sets |-> Append(found.sets, found.last),
                    last |-> [id |-> found.last.id, maps |-> <<>>]]

\* Row m.
addRow(found, m) ==
  LET here == IF found.last.id = Nobody THEN [found EXCEPT !.last.id = SetOf[m]] ELSE found
      open == IF SetOf[m] # here.last.id THEN closeSet(here) ELSE here
  IN [open EXCEPT !.last.maps = Append(@, m)]

\* Row after row.
groupRows(ms) ==
  LET found[n \in 0..Len(ms)] ==
        IF n = 0 THEN [sets |-> <<>>, last |-> [id |-> Nobody, maps |-> <<>>]]
        ELSE addRow(found[n - 1], ms[n])
  IN found[Len(ms)]

searchGroups(ms) == closeSet(groupRows(ms)).sets

\* BeatmapSearchGET: frozen maps of a ranked status, one of each set, in an order.
BeatmapSearchGET(r) ==
  /\ Serves(r, "beatmaps/search")
  /\ \/ \E ranked \in {mapStatus[m].ranked : m \in Maps} :
          LET found == {m \in Maps : mapStatus[m] = [ranked |-> ranked, frozen |-> 1]}
          IN \E ms \in Seqs!SetToAllKPermutations(found) :
               /\ \A i, j \in DOMAIN ms : i # j => SetOf[ms[i]] # SetOf[ms[j]]
               /\ Reply(r, UNION {{MapFact(m) : m \in Seqs!ToSet(set.maps)} :
                                  set \in Seqs!ToSet(searchGroups(ms))})
     \/ Refuse(r)
  /\ UNCHANGED mapStatus

beatmapHandlers(r) ==
  \/ BeatmapSetStatusPOST(r) \/ BeatmapSetStatusPOSTUpdate(r) \/ BeatmapSetStatusPOSTGet(r)
  \/ BeatmapGET(r) \/ BeatmapRankedFrozenFullGET(r) \/ BeatmapSearchGET(r)
=============================================================================
