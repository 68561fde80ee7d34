-------------------------------- MODULE Clans ------------------------------
(***************************************************************************)
(* Clans, which the website keeps: app/v1/clan.go, on clans, user_clans    *)
(* and clans_invites.                                                      *)
(***************************************************************************)
EXTENDS Caretaker, Integers, Sequences

Lists == INSTANCE SequencesExt

CONSTANTS
  ClanIds,   \* clans
  NoClan,
  PP,        \* users_stats: the performance points of a user in the mode asked for
  MaxInt,    \* the largest int, of which the parameter p can be any
  PageSizes  \* a bound: what the parameter l may be, from 1 to 500

ASSUME ClansAssumption ==
  /\ NoClan \notin ClanIds
  /\ IsFiniteSet(ClanIds)
  /\ PP \in [Users -> Nat]
  /\ MaxInt \in Nat \ {0}
  /\ PageSizes \subseteq 1..500

VARIABLES
  clanOf,  \* user_clans: the clan of a user
  admins   \* user_clans: the users whose perms are at least 8

userClans == <<clanOf, admins>>

Member(u) == <<"member", u, clanOf[u]>>

-----------------------------------------------------------------------------
(* loadClanStats.                                                           *)

\* The query leaves out the members who are not public.
publicMembers(c) == {u \in Users : clanOf[u] = c /\ "UserPublic" \in privileges[u]}

\* The best member counts in full, and each of the next ones 0.95 times as much
\* as the one before; fractions are cut off.  The float64 is taken to be exact.
clanPP(us) ==
  LET best == Lists!SetToSortSeq(us, LAMBDA u, v : PP[u] > PP[v])
  IN Lists!FoldLeftDomain(LAMBDA sum, i : sum + (PP[best[i]] * 95 ^ (i - 1)) \div 100 ^ (i - 1),
                          0, best)

loadClanStats == [c \in ClanIds |-> clanPP(publicMembers(c))]

\* The list of the clans that a request works with: those that it read, and those
\* of which it has a row without an id.  Their errors are logged only.
ClanLists == {list \in [read : SUBSET ClanIds, blank : SUBSET ClanIds] :
                list.read \cap list.blank = {}}
ClansIn(list) == list.read \cup list.blank

\* A clan without an id has no members, and no points.
listPP(list) ==
  LET stats == loadClanStats IN [c \in ClansIn(list) |-> IF c \in list.read THEN stats[c] ELSE 0]

\* sort.Slice: the orders of the clans in a list, the best one first.
rankings(list) ==
  LET pp == listPP(list) IN
  {order \in Lists!SetToSeqs(ClansIn(list)) :
     \A i, j \in DOMAIN order : i < j => pp[order[i]] >= pp[order[j]]}

\* Clan c has rank n among those in the list.
ClanRank(list, c, n) == <<"clan", Nobody, <<c, n, list>>>>
RanksIn(list) ==
  UNION {{ClanRank(list, order[n], n) : n \in {n \in DOMAIN order : order[n] \in list.read}} :
           order \in rankings(list)}

ClanFacts ==
  {Member(u) : u \in {u \in Users : clanOf[u] # NoClan}}
  \cup {<<"clan admin", u, clanOf[u]>> : u \in admins}
  \cup UNION {RanksIn(list) : list \in ClanLists}

ClansTypeOK ==
  /\ clanOf \in [Users -> ClanIds \cup {NoClan}]
  /\ admins \subseteq {u \in Users : clanOf[u] # NoClan}

-----------------------------------------------------------------------------
(* The handlers.                                                            *)

\* ClansGET says nothing that changes here.
ClansGET(r) ==
  /\ Serves(r, "clans")
  /\ Reply(r, {}) \/ Refuse(r)
  /\ UNCHANGED userClans

\* ClanMembersGET: the members, public or not; all of them, or those of one level
\* of perms.
ClanMembersGET(r) ==
  /\ Serves(r, "clans/members")
  /\ \/ \E c \in ClanIds : \E us \in SUBSET {u \in Users : clanOf[u] = c} :
          Reply(r, {Member(u) : u \in us})
     \/ Refuse(r)
  /\ UNCHANGED userClans

\* IsInClanGET: what cannot be read of the row is left blank.
IsInClanGET(r) ==
  /\ Serves(r, "clans/isclan")
  /\ \/ \E u \in Users : ReplyHalfRead(r, IF clanOf[u] = NoClan THEN {} ELSE {Member(u)})
     \/ Refuse(r)
  /\ UNCHANGED userClans

\* ClanInviteGET: the user must be an admin of his clan; an error makes him none.
ClanInviteGET(r) ==
  /\ Serves(r, "clans/getinvite")
  /\ \/ /\ md[r].id \in admins
        /\ Continue(r, "clans/getinvite:invite", clanOf[md[r].id],
             {<<"clan admin", md[r].id, clanOf[md[r].id]>>})
     \/ Refuse(r)
  /\ UNCHANGED userClans

\* ClanInviteGET: the invite of that clan, even if the user has left it by then.
ClanInviteGETInvite(r) ==
  /\ pc[r] = "clans/getinvite:invite"
  /\ Reply(r, seen[r])
  /\ UNCHANGED userClans

\* AllClanStatsGET and TotalClanStatsGET: the clans, or some of them.
ClanStatsGET(r) ==
  /\ Serves(r, "clans/stats") \/ Serves(r, "clans/stats/all")
  /\ (\E list \in ClanLists : Continue(r, "clans/stats:members", list, {})) \/ Refuse(r)
  /\ UNCHANGED userClans

\* TotalClanStatsGET: the members, and the rank of a clan in the list; nothing is
\* said of a clan that is not there.
TotalClanStatsGET(r) ==
  /\ pc[r] = "clans/stats:members" /\ endpoint[r] = "clans/stats"
  /\ \/ \E rank \in RanksIn(arg[r]) : Reply(r, {rank})
     \/ Reply(r, {})
     \/ Refuse(r)
  /\ UNCHANGED userClans

\* An int that is too large wraps around.
int(x) == ((x + MaxInt + 1) % (2 * (MaxInt + 1))) - (MaxInt + 1)

\* The bounds of page p of l clans out of n.
pageStart(p, l, n) == IF int(p * l) > n THEN n ELSE int(p * l)
pageEnd(p, l, n) == IF pageStart(p, l, n) + l > n THEN n ELSE pageStart(p, l, n) + l

\* What a page of the list says: of a clan without an id, that it could not be read.
pageOf(list, order, from, to) ==
  {IF order[n] \in list.read THEN ClanRank(list, order[n], n) ELSE Unread : n \in from..to}

\* AllClanStatsGET: the members, and a page of the clans.  A start that has
\* wrapped around is below 0: the slice panics, which wrap answers with a 500.
AllClanStatsGET(r) ==
  /\ pc[r] = "clans/stats:members" /\ endpoint[r] = "clans/stats/all"
  /\ \/ \E order \in rankings(arg[r]), p \in 0..(MaxInt - 1), l \in PageSizes :
          LET start == pageStart(p, l, Len(order))
              end == pageEnd(p, l, Len(order)) IN
          IF start < 0 THEN Reject(r) ELSE Reply(r, pageOf(arg[r], order, start + 1, end))
     \/ Refuse(r)
  /\ UNCHANGED userClans

\* The website: a user leaves the clan or enters another one.
ChangeClan ==
  /\ changes > 0
  /\ changes' = changes - 1
  /\ \E u \in Users, c \in ClanIds \cup {NoClan} :
       /\ clanOf' = [clanOf EXCEPT ![u] = c]
       /\ admins' = admins \ {u}
  /\ said' = {}
  /\ UNCHANGED <<calls, privileges, live, requestVars>>

clanHandlers(r) ==
  \/ ClansGET(r) \/ ClanMembersGET(r) \/ IsInClanGET(r)
  \/ ClanInviteGET(r) \/ ClanInviteGETInvite(r)
  \/ ClanStatsGET(r) \/ TotalClanStatsGET(r) \/ AllClanStatsGET(r)
=============================================================================
