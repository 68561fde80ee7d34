--------------------------- MODULE UserManagement --------------------------
(***************************************************************************)
(* The management of one user: set_allowed and edit (app/v1/manage_user.go)*)
(* write the user's privileges, fix_privileges and set_allowed start       *)
(* goroutines that take from the user's tokens what the user can no longer *)
(* have (app/v1/token.go).  Requests and goroutines run side by side, one  *)
(* statement of the database at a time, and every statement may fail.      *)
(*                                                                         *)
(* An edit reads the privileges, decides from what it read, and later      *)
(* writes all of them.  What else an edit asks for is chosen where it      *)
(* matters: a username, a silence, columns of users_stats.  rap_logs and   *)
(* users.notes are only written, and are left out.  What a request or a    *)
(* goroutine has read is forgotten when it ends.                           *)
(***************************************************************************)
EXTENDS Privileges

CONSTANTS
  Requests,   \* the requests about the user
  Endpoints,  \* those that the requests call
  Tokens,     \* the user's tokens
  UserPrivs,  \* the user privileges in play
  TokenPrivs  \* the token privileges in play

ASSUME EndpointsAssumption == Endpoints \subseteq {"set_allowed", "edit", "fix_privileges"}
ASSUME PrivsAssumption ==
  /\ UserPrivs \subseteq UserPrivilege /\ {"UserPublic", "UserNormal"} \subseteq UserPrivs
  /\ TokenPrivs \subseteq Privilege

\* privileges & 3
Basic == {"UserPublic", "UserNormal"}

\* data.Privileges is nil.
Unchanged == {"nil"}
Wants == (SUBSET UserPrivs) \cup {Unchanged}

VARIABLES
  privileges,  \* users.privileges
  dated,       \* users.ban_datetime is not 0
  tokens,      \* tokens.privileges
  live,        \* the tokens that are in the table
  banSent,     \* the edits that published on peppy:ban
  nameSent,    \* and on peppy:change_username
  pc,          \* the next statement of a request
  prev,        \* prevUser.Privileges of an edit
  want,        \* data.Privileges of an edit
  announce,    \* the edits with isBanned || isSilenced
  fpc,         \* fixPrivileges: the goroutine that a request started
  frows,       \* the rows it has not come to yet
  fsnap,       \* the rows as they were read: the privileges of the tokens
  fuser        \* and of the user

userVars == <<privileges, dated>>
sentVars == <<banSent, nameSent>>
editVars == <<prev, want, announce>>
fixVars == <<fpc, frows, fsnap, fuser>>
tokenVars == <<tokens, live>>
vars == <<userVars, tokenVars, sentVars, pc, editVars, fixVars>>

\* For the properties only.
VARIABLES
  manager,  \* the edits by somebody with AdminManagePrivilege
  given,    \* the privileges above Basic that such edits asked for, or were there
  stale,    \* an edit has written privileges that changed after it read them
  changed,  \* the edits whose prev is not the privileges any more
  since,    \* the goroutines that read the rows after the last change
  alone     \* those that no other was running with then
historyVars == <<manager, given, stale, changed, since, alone>>
allVars == <<vars, historyVars>>

TypeOK ==
  /\ privileges \subseteq UserPrivs
  /\ dated \in BOOLEAN
  /\ tokens \in [Tokens -> SUBSET TokenPrivs]
  /\ live \subseteq Tokens
  /\ banSent \subseteq Requests
  /\ nameSent \subseteq Requests
  /\ pc \in [Requests -> {"start", "username", "update", "stats", "announce", "finish",
                          "go", "done"}]
  /\ prev \in [Requests -> SUBSET UserPrivs]
  /\ want \in [Requests -> Wants]
  /\ announce \subseteq Requests
  /\ fpc \in [Requests -> {"none", "select", "rows", "end"}]
  /\ frows \in [Requests -> SUBSET Tokens]
  /\ fsnap \in [Requests -> [Tokens -> SUBSET TokenPrivs]]
  /\ fuser \in [Requests -> SUBSET UserPrivs]
  /\ manager \subseteq Requests
  /\ given \subseteq SUBSET (UserPrivs \ Basic)
  /\ stale \in BOOLEAN
  /\ changed \subseteq Requests
  /\ since \subseteq Requests
  /\ alone \subseteq Requests

\* The user has been verified: one who is not public was banned at some time.
Init ==
  /\ privileges \in SUBSET UserPrivs
  /\ dated = ("UserPublic" \notin privileges)
  /\ tokens \in [Tokens -> SUBSET TokenPrivs]
  /\ live = Tokens
  /\ banSent = {}
  /\ nameSent = {}
  /\ pc = [r \in Requests |-> "start"]
  /\ prev = [r \in Requests |-> {}]
  /\ want = [r \in Requests |-> Unchanged]
  /\ announce = {}
  /\ fpc = [r \in Requests |-> "none"]
  /\ frows = [r \in Requests |-> {}]
  /\ fsnap = [r \in Requests |-> [t \in Tokens |-> {}]]
  /\ fuser = [r \in Requests |-> {}]
  /\ manager = {}
  /\ given = {privileges \ Basic}
  /\ stale = FALSE
  /\ changed = {}
  /\ since = {}
  /\ alone = {}

-----------------------------------------------------------------------------

Goto(r, l) == pc' = [pc EXCEPT ![r] = l]

Serves(r, endpoint) == endpoint \in Endpoints /\ pc[r] = "start"

\* The request is answered.
Answer(r) ==
  /\ Goto(r, "done")
  /\ prev' = [prev EXCEPT ![r] = {}]
  /\ want' = [want EXCEPT ![r] = Unchanged]
  /\ announce' = announce \ {r}
  /\ UNCHANGED <<userVars, tokenVars, sentVars, fixVars, historyVars>>

\* The users row gets new privileges, which the edits and the goroutines that
\* have read the old ones do not see.
SetPrivileges(new) ==
  /\ privileges' = new
  /\ changed' = IF new = privileges THEN changed ELSE Requests
  /\ since' = IF new = privileges THEN since ELSE {}

-----------------------------------------------------------------------------
(* UserManageSetAllowedPOST.                                                *)

\* Mutant of privsSet: UserNormal and UserDonor instead of the lowest two bits.
privsSetShifted(allowed) ==
  CASE allowed = 0 -> privileges \ Basic
    [] allowed = 1 -> privileges \cup {"UserNormal", "UserDonor"}
    [] allowed = 2 -> privileges \ {"UserPublic"}

\* privsSet, for an allowed of 0, 1 and 2.
privsSet(allowed) ==
  CASE allowed = 0 -> privileges \ Basic
    [] allowed = 1 -> privileges \cup Basic
    [] allowed = 2 -> (privileges \cup {"UserNormal"}) \cap (privileges \ {"UserPublic"})

\* The UPDATE, which reads and writes the row at once.
SetAllowed(r, allowed) ==
  /\ Serves(r, "set_allowed")
  /\ SetPrivileges(privsSet(allowed))
  /\ dated' = (allowed # 1)
  /\ Goto(r, "go")
  /\ UNCHANGED <<tokenVars, sentVars, editVars, fixVars, manager, given, stale, alone>>

\* The UPDATE fails.
SetAllowedFails(r) == Serves(r, "set_allowed") /\ Answer(r)

\* go fixPrivileges, after the log.
SetAllowedFixes(r) ==
  /\ pc[r] = "go"
  /\ fpc' = [fpc EXCEPT ![r] = "select"]
  /\ Goto(r, "done")
  /\ UNCHANGED <<userVars, tokenVars, sentVars, editVars, frows, fsnap, fuser, historyVars>>

-----------------------------------------------------------------------------
(* UserEditPOST.                                                            *)

\* Mutant of Allows: AdminManagePrivilege is not asked for.
AllowsAnyone(p, w, self, mayManage) == "AdminManageUsers" \notin p \/ self

\* What lets an edit of w through when the user has p: the user does not manage
\* users or is the editor, and nothing above Basic changes or the editor may.
Allows(p, w, self, mayManage) ==
  /\ "AdminManageUsers" \notin p \/ self
  /\ w # Unchanged => w \ Basic = p \ Basic \/ mayManage

\* The SELECT, and the checks of what it returned.
EditSelect(r) ==
  /\ Serves(r, "edit")
  /\ \/ Answer(r)
     \/ \E w \in Wants, self, mayManage \in BOOLEAN :
          /\ Allows(privileges, w, self, mayManage)
          /\ want' = [want EXCEPT ![r] = w]
          /\ prev' = [prev EXCEPT ![r] = privileges]
          /\ changed' = changed \ {r}
          /\ manager' = IF mayManage THEN manager \cup {r} ELSE manager
          /\ given' = IF mayManage /\ w # Unchanged THEN given \cup {w \ Basic} ELSE given
          /\ Goto(r, "username")
          /\ UNCHANGED <<userVars, tokenVars, sentVars, announce, fixVars, stale, since, alone>>

\* No username is given, or it is refused, or it is handed to peppy.
EditUsername(r) ==
  /\ pc[r] = "username"
  /\ \/ Answer(r)
     \/ /\ nameSent' \in {nameSent, nameSent \cup {r}}
        /\ Goto(r, "update")
        /\ UNCHANGED <<userVars, tokenVars, banSent, editVars, fixVars, historyVars>>

\* Mutant of isBanned: another bit is looked at.
isBannedNormal(r) ==
  want[r] # Unchanged /\ "UserNormal" \notin want[r] /\ "UserNormal" \in prev[r]

\* UserPublic became 0.
isBanned(r) ==
  want[r] # Unchanged /\ "UserPublic" \notin want[r] /\ "UserPublic" \in prev[r]

\* The UPDATE of users; a silence is one more reason for it.  Without either
\* there is none.
EditUpdate(r) ==
  /\ pc[r] = "update"
  /\ \/ Answer(r)
     \/ \E isSilenced \in BOOLEAN :
          /\ announce' = IF isBanned(r) \/ isSilenced THEN announce \cup {r} ELSE announce
          /\ IF want[r] = Unchanged
               THEN UNCHANGED <<privileges, changed, since, stale>>
               ELSE SetPrivileges(want[r]) /\ stale' = (stale \/ r \in changed)
          /\ dated' = (dated \/ isBanned(r))
          /\ Goto(r, "stats")
          /\ UNCHANGED <<tokenVars, sentVars, prev, want, fixVars, manager, given, alone>>

\* The UPDATE of users_stats, if there is something for it.
EditStats(r) ==
  /\ pc[r] = "stats"
  /\ \/ Answer(r)
     \/ /\ Goto(r, IF r \in announce THEN "announce" ELSE "finish")
        /\ UNCHANGED <<userVars, tokenVars, sentVars, editVars, fixVars, historyVars>>

\* Mutant of EditAnnounce: the error of Publish is not looked at.
EditAnnounceUnchecked(r) ==
  /\ pc[r] = "announce"
  /\ banSent' \in {banSent, banSent \cup {r}}
  /\ Goto(r, "finish")
  /\ UNCHANGED <<userVars, tokenVars, nameSent, editVars, fixVars, historyVars>>

\* updateBanBancho
EditAnnounce(r) ==
  /\ pc[r] = "announce"
  /\ \/ Answer(r)
     \/ /\ banSent' = banSent \cup {r}
        /\ Goto(r, "finish")
        /\ UNCHANGED <<userVars, tokenVars, nameSent, editVars, fixVars, historyVars>>

\* "has updated user" is logged, and the request is answered.
EditFinish(r) == pc[r] = "finish" /\ Answer(r)

-----------------------------------------------------------------------------
(* Tokens.                                                                  *)

\* TokenFixPrivilegesPOST, for this user or for all of them.
TokenFixPrivileges(r) ==
  /\ Serves(r, "fix_privileges")
  /\ fpc' = [fpc EXCEPT ![r] = "select"]
  /\ Goto(r, "done")
  /\ UNCHANGED <<userVars, tokenVars, sentVars, editVars, frows, fsnap, fuser, historyVars>>

\* TokenSelfDeletePOST.
TokenSelfDelete(t) ==
  /\ t \in live
  /\ live' = live \ {t}
  /\ UNCHANGED <<userVars, tokens, sentVars, pc, editVars, fixVars, historyVars>>

Running == {f \in Requests : fpc[f] = "rows"}

\* fixPrivileges: the SELECT returns the rows as they are now, or fails.
FixSelect(f) ==
  /\ fpc[f] = "select"
  /\ \/ /\ fpc' = [fpc EXCEPT ![f] = "rows"]
        /\ frows' = [frows EXCEPT ![f] = live]
        /\ fsnap' = [fsnap EXCEPT ![f] = tokens]
        /\ fuser' = [fuser EXCEPT ![f] = privileges]
        /\ since' = since \cup {f}
        /\ alone' = IF Running = {} THEN alone \cup {f} ELSE alone
     \/ /\ fpc' = [fpc EXCEPT ![f] = "end"]
        /\ UNCHANGED <<frows, fsnap, fuser, since, alone>>
  /\ UNCHANGED <<userVars, tokenVars, sentVars, pc, editVars, manager, given, stale, changed>>

\* Mutant of FixRow: the privileges that are left are added to the token's.
FixRowKeeps(f) ==
  /\ fpc[f] = "rows"
  /\ \E t \in frows[f] :
       LET newPrivs == CanOnly(fsnap[f][t], fuser[f]) IN
       /\ frows' = [frows EXCEPT ![f] = @ \ {t}]
       /\ \/ /\ tokens' = IF newPrivs # fsnap[f][t] /\ t \in live
                            THEN [tokens EXCEPT ![t] = @ \cup newPrivs]
                            ELSE tokens
             /\ UNCHANGED since
          \/ /\ newPrivs # fsnap[f][t]
             /\ since' = since \ {f}
             /\ UNCHANGED tokens
  /\ UNCHANGED <<userVars, live, sentVars, pc, editVars, fpc, fsnap, fuser,
                 manager, given, stale, changed, alone>>

\* fixPrivileges: the next row.  When the owner cannot have all of it the token
\* gets what is left of what was read; an UPDATE that fails is passed over.
FixRow(f) ==
  /\ fpc[f] = "rows"
  /\ \E t \in frows[f] :
       LET newPrivs == CanOnly(fsnap[f][t], fuser[f]) IN
       /\ frows' = [frows EXCEPT ![f] = @ \ {t}]
       /\ \/ /\ tokens' = IF newPrivs # fsnap[f][t] /\ t \in live
                            THEN [tokens EXCEPT ![t] = newPrivs]
                            ELSE tokens
             /\ UNCHANGED since
          \/ /\ newPrivs # fsnap[f][t]
             /\ since' = since \ {f}
             /\ UNCHANGED tokens
  /\ UNCHANGED <<userVars, live, sentVars, pc, editVars, fpc, fsnap, fuser,
                 manager, given, stale, changed, alone>>

\* fixPrivileges: there is no other row, or the connection was lost.
FixEnd(f) ==
  /\ fpc[f] = "rows"
  /\ fpc' = [fpc EXCEPT ![f] = "end"]
  /\ frows' = [frows EXCEPT ![f] = {}]
  /\ fsnap' = [fsnap EXCEPT ![f] = [t \in Tokens |-> {}]]
  /\ fuser' = [fuser EXCEPT ![f] = {}]
  /\ since' = IF frows[f] = {} THEN since ELSE since \ {f}
  /\ UNCHANGED <<userVars, tokenVars, sentVars, pc, editVars,
                 manager, given, stale, changed, alone>>

-----------------------------------------------------------------------------

serve(r) ==
  \/ \E allowed \in 0..2 : SetAllowed(r, allowed)
  \/ SetAllowedFails(r) \/ SetAllowedFixes(r) \/ TokenFixPrivileges(r)
  \/ EditSelect(r) \/ EditUsername(r) \/ EditUpdate(r)
  \/ EditStats(r) \/ EditAnnounce(r) \/ EditFinish(r)

fixPrivileges(f) == FixSelect(f) \/ FixRow(f) \/ FixEnd(f)

Next ==
  \/ \E r \in Requests : serve(r) \/ fixPrivileges(r)
  \/ \E t \in Tokens : TokenSelfDelete(t)

Spec == Init /\ [][Next]_allVars

-----------------------------------------------------------------------------

\* Above Basic the user never has a set of privileges that was not there at the
\* start and that nobody with AdminManagePrivilege asked for, however edits and
\* set_allowed interleave: an edit can bring an older set back, not make one.
OthersGiven == privileges \ Basic \in given

\* An edit that took UserPublic away is answered with a success only after
\* bancho was told.
BanIsTold == \A r \in Requests : pc[r] = "finish" /\ isBanned(r) => r \in banSent

\* A user who is not public has a ban date, unless an edit overwrote privileges
\* that had changed since it read them.
BanIsDated == "UserPublic" \notin privileges => dated \/ stale

\* The tokens have nothing that their owner cannot have.
Fixed == \A t \in live : CanOnly(tokens[t], privileges) = tokens[t]

\* A goroutine of fixPrivileges that no other was running with when it read the
\* rows leaves the tokens right if no statement failed and the privileges did
\* not change meanwhile.
FixComplete == \A f \in since \cap alone : fpc[f] = "end" => Fixed

\* "TokenFixPrivilegesPOST fixes the privileges on the token of the given user":
\* they are right once all goroutines have ended, and one of them read the rows
\* after the last change and had no failure.
FixedInTheEnd ==
  (\A f \in Requests : fpc[f] \in {"none", "end"}) /\ since # {} => Fixed

\* "If we want to modify privileges other than Normal/Public, we need to have
\* the right privilege ourselves" (the comment of UserEditPOST).
OnlyManagersModify ==
  [][\A r \in Requests \ manager :
       EditUpdate(r) => privileges' \ Basic = privileges \ Basic]_allVars
=============================================================================
