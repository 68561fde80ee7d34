------------------------ MODULE UserManagementProofs -----------------------
(* What no interleaving of edits, set_allowed and the goroutines that fix    *)
(* tokens can do, for every number of requests and tokens.                   *)
EXTENDS UserManagement, TLAPS

-----------------------------------------------------------------------------
(* Types.                                                                    *)

\* A token keeps nothing that it did not have.
LEMMA CanOnlyIsSubset == ASSUME NEW p, NEW u PROVE CanOnly(p, u) \subseteq p
BY DEF CanOnly

\* What is left of a token has nothing left to take.
LEMMA CanOnlyIdempotent == ASSUME NEW p, NEW u PROVE CanOnly(CanOnly(p, u), u) = CanOnly(p, u)
BY DEF CanOnly

\* nil is a value of data.Privileges.
LEMMA UnchangedIsWant == Unchanged \in Wants
BY DEF Wants

\* A goroutine that has ended has read nothing.
LEMMA EmptyRows == [t \in Tokens |-> {}] \in [Tokens -> SUBSET TokenPrivs]
OBVIOUS

\* The initial states have their types.
LEMMA TypeInit == Init => TypeOK
<1> SUFFICES ASSUME Init PROVE TypeOK
  OBVIOUS
<1>1. /\ prev \in [Requests -> SUBSET UserPrivs] /\ fuser \in [Requests -> SUBSET UserPrivs]
      /\ frows \in [Requests -> SUBSET Tokens]
  BY DEF Init
<1>2. want \in [Requests -> Wants]
  BY UnchangedIsWant DEF Init
<1>3. fsnap \in [Requests -> [Tokens -> SUBSET TokenPrivs]]
  BY EmptyRows DEF Init
<1>4. dated \in BOOLEAN /\ stale \in BOOLEAN
  BY DEF Init
<1>5. privileges \subseteq UserPrivs /\ given \subseteq SUBSET (UserPrivs \ Basic)
  BY DEF Init
<1> QED BY <1>1, <1>2, <1>3, <1>4, <1>5 DEF Init, TypeOK

\* An answer keeps the types.
LEMMA TypeAnswer == ASSUME TypeOK, NEW r \in Requests, Answer(r) PROVE TypeOK'
BY UnchangedIsWant
   DEF Answer, Goto, TypeOK, userVars, tokenVars, sentVars, fixVars, historyVars

\* Every step keeps the types.
LEMMA TypeStep == TypeOK /\ [Next]_allVars => TypeOK'
<1> SUFFICES ASSUME TypeOK, [Next]_allVars PROVE TypeOK'
  OBVIOUS
<1>0. TypeOK
  OBVIOUS
<1>1. ASSUME NEW r \in Requests, NEW allowed \in 0..2, SetAllowed(r, allowed) PROVE TypeOK'
  <2>1. privsSet(allowed) \subseteq UserPrivs
    BY PrivsAssumption DEF privsSet, Basic, TypeOK
  <2>2. (allowed # 1) \in BOOLEAN
    OBVIOUS
  <2> QED BY <1>1, <2>1, <2>2
     DEF SetAllowed, SetPrivileges, Goto, TypeOK, editVars, fixVars, tokenVars, sentVars
<1>2. ASSUME NEW r \in Requests, SetAllowedFails(r) PROVE TypeOK'
  BY <1>0, <1>2, TypeAnswer DEF SetAllowedFails
<1>3. ASSUME NEW r \in Requests, SetAllowedFixes(r) PROVE TypeOK'
  BY <1>0, <1>3
     DEF SetAllowedFixes, Goto, TypeOK, userVars, sentVars, editVars, fixVars,
         tokenVars, historyVars
<1>4. ASSUME NEW r \in Requests, TokenFixPrivileges(r) PROVE TypeOK'
  BY <1>0, <1>4
     DEF TokenFixPrivileges, Serves, Goto, TypeOK, userVars, sentVars, editVars,
         fixVars, tokenVars, historyVars
<1>5. ASSUME NEW r \in Requests, EditSelect(r) PROVE TypeOK'
  <2>1. CASE Answer(r)
    BY <1>0, <2>1, TypeAnswer
  <2>2. CASE ~Answer(r)
    <3>1. PICK w \in Wants, self \in BOOLEAN, mayManage \in BOOLEAN :
            /\ want' = [want EXCEPT ![r] = w]
            /\ given' = IF mayManage /\ w # Unchanged THEN given \cup {w \ Basic} ELSE given
      BY <1>5, <2>2 DEF EditSelect
    <3>2. given' \subseteq SUBSET (UserPrivs \ Basic)
      BY <3>1 DEF Wants, TypeOK
    <3>3. want' \in [Requests -> Wants]
      BY <3>1 DEF TypeOK
    <3> QED BY <1>5, <2>2, <3>2, <3>3
       DEF EditSelect, Goto, TypeOK, userVars, tokenVars, sentVars, fixVars
  <2> QED BY <2>1, <2>2
<1>6. ASSUME NEW r \in Requests, EditUsername(r) PROVE TypeOK'
  <2>1. CASE Answer(r)
    BY <1>0, <2>1, TypeAnswer
  <2>2. CASE ~Answer(r)
    BY <1>0, <1>6, <2>2
       DEF EditUsername, Goto, SetPrivileges, TypeOK, userVars, sentVars, editVars,
           fixVars, tokenVars, historyVars
  <2> QED BY <2>1, <2>2
<1>7. ASSUME NEW r \in Requests, EditUpdate(r) PROVE TypeOK'
  <2>1. CASE Answer(r)
    BY <1>0, <2>1, TypeAnswer
  <2>2. CASE ~Answer(r)
    <3>1. privileges' \subseteq UserPrivs
      <4>1. CASE want[r] = Unchanged
        BY <1>7, <2>2, <4>1 DEF EditUpdate, TypeOK
      <4>2. CASE want[r] # Unchanged
        BY <1>7, <2>2, <4>2 DEF EditUpdate, SetPrivileges, TypeOK, Wants
      <4> QED BY <4>1, <4>2
    <3>2. dated' \in BOOLEAN
      BY <1>7, <2>2 DEF EditUpdate
    <3>3. stale' \in BOOLEAN
      BY <1>7, <2>2 DEF EditUpdate, TypeOK
    <3>4. changed' \subseteq Requests /\ since' \subseteq Requests
      BY <1>7, <2>2 DEF EditUpdate, SetPrivileges, TypeOK
    <3> QED BY <1>7, <2>2, <3>1, <3>2, <3>3, <3>4
            DEF EditUpdate, Goto, TypeOK, tokenVars, sentVars, fixVars
  <2> QED BY <2>1, <2>2
<1>8. ASSUME NEW r \in Requests, EditStats(r) PROVE TypeOK'
  <2>1. CASE Answer(r)
    BY <1>0, <2>1, TypeAnswer
  <2>2. CASE ~Answer(r)
    BY <1>0, <1>8, <2>2
       DEF EditStats, Goto, SetPrivileges, TypeOK, userVars, sentVars, editVars,
           fixVars, tokenVars, historyVars
  <2> QED BY <2>1, <2>2
<1>9. ASSUME NEW r \in Requests, EditAnnounce(r) PROVE TypeOK'
  <2>1. CASE Answer(r)
    BY <1>0, <2>1, TypeAnswer
  <2>2. CASE ~Answer(r)
    BY <1>0, <1>9, <2>2
       DEF EditAnnounce, Goto, SetPrivileges, TypeOK, userVars, sentVars, editVars,
           fixVars, tokenVars, historyVars
  <2> QED BY <2>1, <2>2
<1>10. ASSUME NEW r \in Requests, EditFinish(r) PROVE TypeOK'
  BY <1>0, <1>10, TypeAnswer DEF EditFinish
<1>11. ASSUME NEW r \in Requests, FixSelect(r) PROVE TypeOK'
  <2>1. /\ fpc' \in [Requests -> {"none", "select", "rows", "end"}]
        /\ frows' \in [Requests -> SUBSET Tokens]
    BY <1>11 DEF FixSelect, TypeOK
  <2>2. fsnap' \in [Requests -> [Tokens -> SUBSET TokenPrivs]]
    BY <1>11 DEF FixSelect, TypeOK
  <2>3. fuser' \in [Requests -> SUBSET UserPrivs]
    <3>1. privileges \in SUBSET UserPrivs /\ fuser \in [Requests -> SUBSET UserPrivs]
      BY DEF TypeOK
    <3>2. fuser' = fuser \/ fuser' = [fuser EXCEPT ![r] = privileges]
      BY <1>11 DEF FixSelect
    <3> QED BY <3>1, <3>2
  <2>4. since' \subseteq Requests /\ alone' \subseteq Requests
    BY <1>11 DEF FixSelect, TypeOK
  <2> QED BY <1>11, <2>1, <2>2, <2>3, <2>4
     DEF FixSelect, TypeOK, userVars, tokenVars, sentVars, editVars
<1>12. ASSUME NEW r \in Requests, FixRow(r) PROVE TypeOK'
  <2>1. PICK u \in frows[r] : FixRow(r)!2!(u)
    BY <1>12 DEF FixRow
  <2>2. u \in Tokens /\ fsnap[r][u] \subseteq TokenPrivs
    BY DEF TypeOK
  <2>3. CanOnly(fsnap[r][u], fuser[r]) \subseteq TokenPrivs
    BY <2>2, CanOnlyIsSubset
  <2> QED BY <1>12, <2>1, <2>2, <2>3 DEF FixRow, TypeOK, userVars, sentVars, editVars
<1>13. ASSUME NEW r \in Requests, FixEnd(r) PROVE TypeOK'
  BY <1>0, <1>13
     DEF FixEnd, TypeOK, userVars, sentVars, editVars, fixVars, tokenVars, historyVars
<1>14. ASSUME NEW t \in Tokens, TokenSelfDelete(t) PROVE TypeOK'
  BY <1>0, <1>14
     DEF TokenSelfDelete, TypeOK, userVars, sentVars, editVars, fixVars, tokenVars,
         historyVars
<1>15. CASE UNCHANGED allVars
  BY <1>0, <1>15
     DEF allVars, vars, TypeOK, userVars, sentVars, editVars, fixVars, tokenVars,
         historyVars
<1> QED BY <1>0, <1>1, <1>2, <1>3, <1>4, <1>5, <1>6, <1>7, <1>8, <1>9, <1>10, <1>11, <1>12, <1>13, <1>14, <1>15
   DEF Next, serve, fixPrivileges

-----------------------------------------------------------------------------
(* Privileges above Basic.                                                   *)

\* What an edit is about to write above Basic was there or was given.
WantGiven == \A r \in Requests : want[r] # Unchanged => want[r] \ Basic \in given

\* An answer gives nobody anything.
LEMMA GivenAnswer ==
  ASSUME TypeOK, OthersGiven, WantGiven, NEW r \in Requests, Answer(r)
  PROVE  OthersGiven' /\ WantGiven'
BY DEF Answer, OthersGiven, WantGiven, TypeOK, userVars, historyVars

\* OthersGiven and WantGiven hold of each other: an edit without
\* AdminManagePrivilege asks for what it reads.
LEMMA GivenStep == TypeOK /\ OthersGiven /\ WantGiven /\ [Next]_allVars => OthersGiven' /\ WantGiven'
<1> SUFFICES ASSUME TypeOK, OthersGiven, WantGiven, [Next]_allVars PROVE OthersGiven' /\ WantGiven'
  OBVIOUS
<1>0. TypeOK /\ OthersGiven /\ WantGiven
  OBVIOUS
<1>1. ASSUME NEW r \in Requests, NEW allowed \in 0..2, SetAllowed(r, allowed) PROVE OthersGiven' /\ WantGiven'
  <2>1. privsSet(allowed) \ Basic = privileges \ Basic
    BY DEF privsSet, Basic
  <2> QED BY <1>1, <2>1 DEF SetAllowed, SetPrivileges, OthersGiven, WantGiven, editVars
<1>2. ASSUME NEW r \in Requests, SetAllowedFails(r) PROVE OthersGiven' /\ WantGiven'
  BY <1>0, <1>2, GivenAnswer DEF SetAllowedFails
<1>3. ASSUME NEW r \in Requests, SetAllowedFixes(r) PROVE OthersGiven' /\ WantGiven'
  BY <1>0, <1>3
     DEF SetAllowedFixes, Goto, OthersGiven, WantGiven, TypeOK, userVars, sentVars,
         editVars, fixVars, tokenVars, historyVars
<1>4. ASSUME NEW r \in Requests, TokenFixPrivileges(r) PROVE OthersGiven' /\ WantGiven'
  BY <1>0, <1>4
     DEF TokenFixPrivileges, Serves, Goto, OthersGiven, WantGiven, TypeOK, userVars,
         sentVars, editVars, fixVars, tokenVars, historyVars
<1>5. ASSUME NEW r \in Requests, EditSelect(r) PROVE OthersGiven' /\ WantGiven'
  <2>1. CASE Answer(r)
    BY <1>0, <2>1, GivenAnswer
  <2>2. CASE ~Answer(r)
    <3>1. PICK w \in Wants, self \in BOOLEAN, mayManage \in BOOLEAN :
            /\ Allows(privileges, w, self, mayManage)
            /\ want' = [want EXCEPT ![r] = w]
            /\ given' = IF mayManage /\ w # Unchanged THEN given \cup {w \ Basic} ELSE given
            /\ UNCHANGED privileges
      BY <1>5, <2>2 DEF EditSelect, userVars
    <3>2. w # Unchanged => w \ Basic \in given'
      BY <3>1 DEF Allows, OthersGiven
    <3> QED BY <3>1, <3>2 DEF OthersGiven, WantGiven, TypeOK
  <2> QED BY <2>1, <2>2
<1>6. ASSUME NEW r \in Requests, EditUsername(r) PROVE OthersGiven' /\ WantGiven'
  <2>1. CASE Answer(r)
    BY <1>0, <2>1, GivenAnswer
  <2>2. CASE ~Answer(r)
    BY <1>0, <1>6, <2>2
       DEF EditUsername, Goto, SetPrivileges, OthersGiven, WantGiven, TypeOK, userVars,
           sentVars, editVars, fixVars, tokenVars, historyVars
  <2> QED BY <2>1, <2>2
<1>7. ASSUME NEW r \in Requests, EditUpdate(r) PROVE OthersGiven' /\ WantGiven'
  <2>1. CASE Answer(r)
    BY <1>0, <2>1, GivenAnswer
  <2>2. CASE ~Answer(r)
    BY <1>0, <1>7, <2>2
       DEF EditUpdate, Goto, SetPrivileges, OthersGiven, WantGiven, TypeOK, userVars,
           sentVars, editVars, fixVars, tokenVars, historyVars
  <2> QED BY <2>1, <2>2
<1>8. ASSUME NEW r \in Requests, EditStats(r) PROVE OthersGiven' /\ WantGiven'
  <2>1. CASE Answer(r)
    BY <1>0, <2>1, GivenAnswer
  <2>2. CASE ~Answer(r)
    BY <1>0, <1>8, <2>2
       DEF EditStats, Goto, SetPrivileges, OthersGiven, WantGiven, TypeOK, userVars,
           sentVars, editVars, fixVars, tokenVars, historyVars
  <2> QED BY <2>1, <2>2
<1>9. ASSUME NEW r \in Requests, EditAnnounce(r) PROVE OthersGiven' /\ WantGiven'
  <2>1. CASE Answer(r)
    BY <1>0, <2>1, GivenAnswer
  <2>2. CASE ~Answer(r)
    BY <1>0, <1>9, <2>2
       DEF EditAnnounce, Goto, SetPrivileges, OthersGiven, WantGiven, TypeOK, userVars,
           sentVars, editVars, fixVars, tokenVars, historyVars
  <2> QED BY <2>1, <2>2
<1>10. ASSUME NEW r \in Requests, EditFinish(r) PROVE OthersGiven' /\ WantGiven'
  BY <1>0, <1>10, GivenAnswer DEF EditFinish
<1>11. ASSUME NEW r \in Requests, FixSelect(r) PROVE OthersGiven' /\ WantGiven'
  BY <1>0, <1>11
     DEF FixSelect, OthersGiven, WantGiven, TypeOK, userVars, sentVars, editVars,
         fixVars, tokenVars, historyVars
<1>12. ASSUME NEW r \in Requests, FixRow(r) PROVE OthersGiven' /\ WantGiven'
  BY <1>0, <1>12
     DEF FixRow, OthersGiven, WantGiven, TypeOK, userVars, sentVars, editVars, fixVars,
         tokenVars, historyVars
<1>13. ASSUME NEW r \in Requests, FixEnd(r) PROVE OthersGiven' /\ WantGiven'
  BY <1>0, <1>13
     DEF FixEnd, OthersGiven, WantGiven, TypeOK, userVars, sentVars, editVars, fixVars,
         tokenVars, historyVars
<1>14. ASSUME NEW t \in Tokens, TokenSelfDelete(t) PROVE OthersGiven' /\ WantGiven'
  BY <1>0, <1>14
     DEF TokenSelfDelete, OthersGiven, WantGiven, TypeOK, userVars, sentVars, editVars,
         fixVars, tokenVars, historyVars
<1>15. CASE UNCHANGED allVars
  BY <1>0, <1>15
     DEF allVars, vars, OthersGiven, WantGiven, TypeOK, userVars, sentVars, editVars,
         fixVars, tokenVars, historyVars
<1> QED BY <1>0, <1>1, <1>2, <1>3, <1>4, <1>5, <1>6, <1>7, <1>8, <1>9, <1>10, <1>11, <1>12, <1>13, <1>14, <1>15
   DEF Next, serve, fixPrivileges

-----------------------------------------------------------------------------
(* Bans.                                                                     *)

\* Until an edit comes to its announcement it remembers that it bans.
WillTell == \A r \in Requests : pc[r] = "stats" /\ isBanned(r) => r \in announce

\* An answer takes no ban back.
LEMMA ToldAnswer ==
  ASSUME TypeOK, BanIsTold, WillTell, NEW r \in Requests, Answer(r)
  PROVE  BanIsTold' /\ WillTell'
BY DEF Answer, Goto, BanIsTold, WillTell, isBanned, TypeOK, sentVars

\* Every step keeps that a ban is told before the edit finishes.
LEMMA ToldStep == TypeOK /\ BanIsTold /\ WillTell /\ [Next]_allVars => BanIsTold' /\ WillTell'
<1> SUFFICES ASSUME TypeOK, BanIsTold, WillTell, [Next]_allVars PROVE BanIsTold' /\ WillTell'
  OBVIOUS
<1>0. TypeOK /\ BanIsTold /\ WillTell
  OBVIOUS
<1>1. ASSUME NEW r \in Requests, NEW allowed \in 0..2, SetAllowed(r, allowed) PROVE BanIsTold' /\ WillTell'
  BY <1>0, <1>1
     DEF SetAllowed, SetPrivileges, privsSet, Basic, Goto, Serves, BanIsTold, WillTell,
         isBanned, TypeOK, userVars, sentVars, editVars, fixVars, tokenVars, historyVars
<1>2. ASSUME NEW r \in Requests, SetAllowedFails(r) PROVE BanIsTold' /\ WillTell'
  BY <1>0, <1>2, ToldAnswer DEF SetAllowedFails
<1>3. ASSUME NEW r \in Requests, SetAllowedFixes(r) PROVE BanIsTold' /\ WillTell'
  BY <1>0, <1>3
     DEF SetAllowedFixes, Goto, BanIsTold, WillTell, isBanned, TypeOK, userVars,
         sentVars, editVars, fixVars, tokenVars, historyVars
<1>4. ASSUME NEW r \in Requests, TokenFixPrivileges(r) PROVE BanIsTold' /\ WillTell'
  BY <1>0, <1>4
     DEF TokenFixPrivileges, Serves, Goto, BanIsTold, WillTell, isBanned, TypeOK,
         userVars, sentVars, editVars, fixVars, tokenVars, historyVars
<1>5. ASSUME NEW r \in Requests, EditSelect(r) PROVE BanIsTold' /\ WillTell'
  <2>1. CASE Answer(r)
    BY <1>0, <2>1, ToldAnswer
  <2>2. CASE ~Answer(r)
    BY <1>0, <1>5, <2>2
       DEF EditSelect, Goto, SetPrivileges, BanIsTold, WillTell, isBanned, TypeOK,
           userVars, sentVars, editVars, fixVars, tokenVars, historyVars
  <2> QED BY <2>1, <2>2
<1>6. ASSUME NEW r \in Requests, EditUsername(r) PROVE BanIsTold' /\ WillTell'
  <2>1. CASE Answer(r)
    BY <1>0, <2>1, ToldAnswer
  <2>2. CASE ~Answer(r)
    BY <1>0, <1>6, <2>2
       DEF EditUsername, Goto, SetPrivileges, BanIsTold, WillTell, isBanned, TypeOK,
           userVars, sentVars, editVars, fixVars, tokenVars, historyVars
  <2> QED BY <2>1, <2>2
<1>7. ASSUME NEW r \in Requests, EditUpdate(r) PROVE BanIsTold' /\ WillTell'
  <2>1. CASE Answer(r)
    BY <1>0, <2>1, ToldAnswer
  <2>2. CASE ~Answer(r)
    BY <1>0, <1>7, <2>2
       DEF EditUpdate, Goto, SetPrivileges, BanIsTold, WillTell, isBanned, TypeOK,
           userVars, sentVars, editVars, fixVars, tokenVars, historyVars
  <2> QED BY <2>1, <2>2
<1>8. ASSUME NEW r \in Requests, EditStats(r) PROVE BanIsTold' /\ WillTell'
  <2>1. CASE Answer(r)
    BY <1>0, <2>1, ToldAnswer
  <2>2. CASE ~Answer(r)
    BY <1>0, <1>8, <2>2
       DEF EditStats, Goto, SetPrivileges, BanIsTold, WillTell, isBanned, TypeOK,
           userVars, sentVars, editVars, fixVars, tokenVars, historyVars
  <2> QED BY <2>1, <2>2
<1>9. ASSUME NEW r \in Requests, EditAnnounce(r) PROVE BanIsTold' /\ WillTell'
  <2>1. CASE Answer(r)
    BY <1>0, <2>1, ToldAnswer
  <2>2. CASE ~Answer(r)
    BY <1>0, <1>9, <2>2
       DEF EditAnnounce, Goto, SetPrivileges, BanIsTold, WillTell, isBanned, TypeOK,
           userVars, sentVars, editVars, fixVars, tokenVars, historyVars
  <2> QED BY <2>1, <2>2
<1>10. ASSUME NEW r \in Requests, EditFinish(r) PROVE BanIsTold' /\ WillTell'
  BY <1>0, <1>10, ToldAnswer DEF EditFinish
<1>11. ASSUME NEW r \in Requests, FixSelect(r) PROVE BanIsTold' /\ WillTell'
  BY <1>0, <1>11
     DEF FixSelect, BanIsTold, WillTell, isBanned, TypeOK, userVars, sentVars, editVars,
         fixVars, tokenVars, historyVars
<1>12. ASSUME NEW r \in Requests, FixRow(r) PROVE BanIsTold' /\ WillTell'
  BY <1>0, <1>12
     DEF FixRow, BanIsTold, WillTell, isBanned, TypeOK, userVars, sentVars, editVars,
         fixVars, tokenVars, historyVars
<1>13. ASSUME NEW r \in Requests, FixEnd(r) PROVE BanIsTold' /\ WillTell'
  BY <1>0, <1>13
     DEF FixEnd, BanIsTold, WillTell, isBanned, TypeOK, userVars, sentVars, editVars,
         fixVars, tokenVars, historyVars
<1>14. ASSUME NEW t \in Tokens, TokenSelfDelete(t) PROVE BanIsTold' /\ WillTell'
  BY <1>0, <1>14
     DEF TokenSelfDelete, BanIsTold, WillTell, isBanned, TypeOK, userVars, sentVars,
         editVars, fixVars, tokenVars, historyVars
<1>15. CASE UNCHANGED allVars
  BY <1>0, <1>15
     DEF allVars, vars, BanIsTold, WillTell, isBanned, TypeOK, userVars, sentVars,
         editVars, fixVars, tokenVars, historyVars
<1> QED BY <1>0, <1>1, <1>2, <1>3, <1>4, <1>5, <1>6, <1>7, <1>8, <1>9, <1>10, <1>11, <1>12, <1>13, <1>14, <1>15
   DEF Next, serve, fixPrivileges

\* What an edit has read is what is there, unless it was told apart.
PrevIsCurrent ==
  \A r \in Requests : pc[r] \in {"username", "update"} /\ r \notin changed => prev[r] = privileges

\* An answer dates no ban and clears none.
LEMMA DatedAnswer ==
  ASSUME TypeOK, BanIsDated, PrevIsCurrent, NEW r \in Requests, Answer(r)
  PROVE  BanIsDated' /\ PrevIsCurrent'
BY DEF Answer, Goto, BanIsDated, PrevIsCurrent, TypeOK, userVars, historyVars

\* Every step keeps that a user who is not public has a ban date.
LEMMA DatedStep == TypeOK /\ BanIsDated /\ PrevIsCurrent /\ [Next]_allVars => BanIsDated' /\ PrevIsCurrent'
<1> SUFFICES ASSUME TypeOK, BanIsDated, PrevIsCurrent, [Next]_allVars PROVE BanIsDated' /\ PrevIsCurrent'
  OBVIOUS
<1>0. TypeOK /\ BanIsDated /\ PrevIsCurrent
  OBVIOUS
<1>1. ASSUME NEW r \in Requests, NEW allowed \in 0..2, SetAllowed(r, allowed) PROVE BanIsDated' /\ PrevIsCurrent'
  <2>1. allowed = 1 => "UserPublic" \in privsSet(allowed)
    BY DEF privsSet, Basic
  <2>2. BanIsDated'
    BY <1>1, <2>1 DEF SetAllowed, SetPrivileges, BanIsDated
  <2>3. PrevIsCurrent'
    BY <1>0, <1>1
       DEF SetAllowed, SetPrivileges, Goto, Serves, PrevIsCurrent, editVars, TypeOK
  <2> QED BY <2>2, <2>3
<1>2. ASSUME NEW r \in Requests, SetAllowedFails(r) PROVE BanIsDated' /\ PrevIsCurrent'
  BY <1>0, <1>2, DatedAnswer DEF SetAllowedFails
<1>3. ASSUME NEW r \in Requests, SetAllowedFixes(r) PROVE BanIsDated' /\ PrevIsCurrent'
  BY <1>0, <1>3
     DEF SetAllowedFixes, Goto, BanIsDated, PrevIsCurrent, isBanned, TypeOK, userVars,
         sentVars, editVars, fixVars, tokenVars, historyVars
<1>4. ASSUME NEW r \in Requests, TokenFixPrivileges(r) PROVE BanIsDated' /\ PrevIsCurrent'
  BY <1>0, <1>4
     DEF TokenFixPrivileges, Serves, Goto, BanIsDated, PrevIsCurrent, isBanned, TypeOK,
         userVars, sentVars, editVars, fixVars, tokenVars, historyVars
<1>5. ASSUME NEW r \in Requests, EditSelect(r) PROVE BanIsDated' /\ PrevIsCurrent'
  <2>1. CASE Answer(r)
    BY <1>0, <2>1, DatedAnswer
  <2>2. CASE ~Answer(r)
    BY <1>0, <1>5, <2>2
       DEF EditSelect, Goto, SetPrivileges, BanIsDated, PrevIsCurrent, isBanned, TypeOK,
           userVars, sentVars, editVars, fixVars, tokenVars, historyVars
  <2> QED BY <2>1, <2>2
<1>6. ASSUME NEW r \in Requests, EditUsername(r) PROVE BanIsDated' /\ PrevIsCurrent'
  <2>1. CASE Answer(r)
    BY <1>0, <2>1, DatedAnswer
  <2>2. CASE ~Answer(r)
    BY <1>0, <1>6, <2>2
       DEF EditUsername, Goto, SetPrivileges, BanIsDated, PrevIsCurrent, isBanned,
           TypeOK, userVars, sentVars, editVars, fixVars, tokenVars, historyVars
  <2> QED BY <2>1, <2>2
<1>7. ASSUME NEW r \in Requests, EditUpdate(r) PROVE BanIsDated' /\ PrevIsCurrent'
  <2>1. CASE Answer(r)
    BY <1>0, <2>1, DatedAnswer
  <2>2. CASE ~Answer(r)
    <3>1. /\ pc[r] = "update"
          /\ pc' = [pc EXCEPT ![r] = "stats"] /\ UNCHANGED prev
          /\ dated' = (dated \/ isBanned(r))
      BY <1>7, <2>2 DEF EditUpdate, Goto
    <3>2. CASE want[r] = Unchanged
      <4>1. UNCHANGED <<privileges, changed, stale>>
        BY <1>7, <2>2, <3>2 DEF EditUpdate
      <4>2. BanIsDated'
        BY <3>1, <4>1 DEF BanIsDated
      <4>3. PrevIsCurrent'
        BY <3>1, <4>1 DEF PrevIsCurrent, TypeOK
      <4> QED BY <4>2, <4>3
    <3>3. CASE want[r] # Unchanged
      <4>1. /\ privileges' = want[r]
            /\ changed' = IF want[r] = privileges THEN changed ELSE Requests
            /\ stale' = (stale \/ r \in changed)
        BY <1>7, <2>2, <3>3 DEF EditUpdate, SetPrivileges
      <4>2. ASSUME "UserPublic" \notin want[r] PROVE dated' \/ stale'
        <5>1. CASE r \in changed
          BY <4>1, <5>1
        <5>2. CASE r \notin changed
          <6>1. prev[r] = privileges
            BY <3>1, <5>2 DEF PrevIsCurrent
          <6>2. CASE "UserPublic" \in privileges
            BY <3>1, <3>3, <4>2, <6>1, <6>2 DEF isBanned
          <6>3. CASE "UserPublic" \notin privileges
            BY <3>1, <4>1, <6>3 DEF BanIsDated
          <6> QED BY <6>2, <6>3
        <5> QED BY <5>1, <5>2
      <4>3. BanIsDated'
        BY <4>1, <4>2 DEF BanIsDated
      <4>4. PrevIsCurrent'
        BY <3>1, <4>1 DEF PrevIsCurrent, TypeOK
      <4> QED BY <4>3, <4>4
    <3> QED BY <3>2, <3>3
  <2> QED BY <2>1, <2>2
<1>8. ASSUME NEW r \in Requests, EditStats(r) PROVE BanIsDated' /\ PrevIsCurrent'
  <2>1. CASE Answer(r)
    BY <1>0, <2>1, DatedAnswer
  <2>2. CASE ~Answer(r)
    BY <1>0, <1>8, <2>2
       DEF EditStats, Goto, SetPrivileges, BanIsDated, PrevIsCurrent, isBanned, TypeOK,
           userVars, sentVars, editVars, fixVars, tokenVars, historyVars
  <2> QED BY <2>1, <2>2
<1>9. ASSUME NEW r \in Requests, EditAnnounce(r) PROVE BanIsDated' /\ PrevIsCurrent'
  <2>1. CASE Answer(r)
    BY <1>0, <2>1, DatedAnswer
  <2>2. CASE ~Answer(r)
    BY <1>0, <1>9, <2>2
       DEF EditAnnounce, Goto, SetPrivileges, BanIsDated, PrevIsCurrent, isBanned,
           TypeOK, userVars, sentVars, editVars, fixVars, tokenVars, historyVars
  <2> QED BY <2>1, <2>2
<1>10. ASSUME NEW r \in Requests, EditFinish(r) PROVE BanIsDated' /\ PrevIsCurrent'
  BY <1>0, <1>10, DatedAnswer DEF EditFinish
<1>11. ASSUME NEW r \in Requests, FixSelect(r) PROVE BanIsDated' /\ PrevIsCurrent'
  BY <1>0, <1>11
     DEF FixSelect, BanIsDated, PrevIsCurrent, isBanned, TypeOK, userVars, sentVars,
         editVars, fixVars, tokenVars, historyVars
<1>12. ASSUME NEW r \in Requests, FixRow(r) PROVE BanIsDated' /\ PrevIsCurrent'
  BY <1>0, <1>12
     DEF FixRow, BanIsDated, PrevIsCurrent, isBanned, TypeOK, userVars, sentVars,
         editVars, fixVars, tokenVars, historyVars
<1>13. ASSUME NEW r \in Requests, FixEnd(r) PROVE BanIsDated' /\ PrevIsCurrent'
  BY <1>0, <1>13
     DEF FixEnd, BanIsDated, PrevIsCurrent, isBanned, TypeOK, userVars, sentVars,
         editVars, fixVars, tokenVars, historyVars
<1>14. ASSUME NEW t \in Tokens, TokenSelfDelete(t) PROVE BanIsDated' /\ PrevIsCurrent'
  BY <1>0, <1>14
     DEF TokenSelfDelete, BanIsDated, PrevIsCurrent, isBanned, TypeOK, userVars,
         sentVars, editVars, fixVars, tokenVars, historyVars
<1>15. CASE UNCHANGED allVars
  BY <1>0, <1>15
     DEF allVars, vars, BanIsDated, PrevIsCurrent, isBanned, TypeOK, userVars, sentVars,
         editVars, fixVars, tokenVars, historyVars
<1> QED BY <1>0, <1>1, <1>2, <1>3, <1>4, <1>5, <1>6, <1>7, <1>8, <1>9, <1>10, <1>11, <1>12, <1>13, <1>14, <1>15
   DEF Next, serve, fixPrivileges

-----------------------------------------------------------------------------
(* Tokens.                                                                   *)

\* The token has nothing that its owner cannot have.
Good(t) == CanOnly(tokens[t], privileges) = tokens[t]

\* A goroutine counts from its SELECT on, which comes once.
Begun ==
  /\ since \cup alone \subseteq {f \in Requests : fpc[f] \in {"rows", "end"}}
  /\ \A r \in Requests : pc[r] # "done" => fpc[r] = "none"

\* While a goroutine that began alone counts, all that run know the privileges.
RunningKnow == since \cap alone # {} => \A g \in Requests : fpc[g] = "rows" => fuser[g] = privileges

\* It leaves the rows it has passed right, and those ahead of it are as it has
\* read them or were made right by another.
RowsGood ==
  \A f \in since \cap alone : \A t \in live :
    \/ Good(t)
    \/ fpc[f] = "rows" /\ t \in frows[f] /\ tokens[t] = fsnap[f][t]

FixInv == Begun /\ RunningKnow /\ RowsGood

\* Nothing that the goroutines know of changes.
LEMMA FixFrame ==
  ASSUME FixInv, UNCHANGED <<privileges, tokens, frows, fsnap, fuser, since, alone>>, live' \subseteq live,
         \A f \in Requests : fpc[f] \in {"rows", "end"} \/ fpc'[f] = "rows" => fpc'[f] = fpc[f],
         \A r \in Requests : pc'[r] # "done" => fpc'[r] = "none"
  PROVE  FixInv'
<1>1. \A t : Good(t)' <=> Good(t)
  BY DEF Good
<1> QED BY <1>1 DEF FixInv, Begun, RunningKnow, RowsGood

\* An answer is no concern of the goroutines.
LEMMA FixAnswer == ASSUME TypeOK, FixInv, NEW r \in Requests, Answer(r) PROVE FixInv'
<1>1. \A q \in Requests : pc'[q] # "done" => fpc'[q] = "none"
  BY DEF Answer, Goto, FixInv, Begun, TypeOK, fixVars
<1> QED BY <1>1, FixFrame DEF Answer, userVars, tokenVars, fixVars, historyVars

\* With other privileges nobody counts.
LEMMA FixSetPrivileges ==
  ASSUME TypeOK, FixInv, NEW new, SetPrivileges(new), UNCHANGED <<tokens, live, fixVars, alone>>,
         \A r \in Requests : pc'[r] # "done" => pc[r] # "done"
  PROVE  FixInv'
<1>1. \A r \in Requests : pc'[r] # "done" => fpc'[r] = "none"
  BY DEF FixInv, Begun, fixVars
<1>2. CASE new = privileges
  BY <1>1, <1>2, FixFrame DEF SetPrivileges, fixVars
<1>3. CASE new # privileges
  <2>1. since' = {}
    BY <1>3 DEF SetPrivileges
  <2> QED BY <1>1, <2>1 DEF FixInv, Begun, RunningKnow, RowsGood, fixVars
<1> QED BY <1>2, <1>3

\* A goroutine reads the rows.
LEMMA FixSelectStep == ASSUME TypeOK, FixInv, NEW r \in Requests, FixSelect(r) PROVE FixInv'
<1>1. /\ fpc[r] = "select" /\ r \notin since /\ r \notin alone
      /\ UNCHANGED <<privileges, tokens, live, pc>>
  BY DEF FixSelect, FixInv, Begun, userVars, tokenVars
<1>2. CASE fpc' = [fpc EXCEPT ![r] = "end"] /\ UNCHANGED <<frows, fsnap, fuser, since, alone>>
  <2>1. Begun'
    BY <1>1, <1>2 DEF FixInv, Begun, TypeOK
  <2>2. RunningKnow'
    BY <1>1, <1>2 DEF FixInv, RunningKnow, TypeOK
  <2>3. RowsGood'
    BY <1>1, <1>2 DEF FixInv, RowsGood, Good, TypeOK
  <2> QED BY <2>1, <2>2, <2>3 DEF FixInv
<1>3. CASE /\ fpc' = [fpc EXCEPT ![r] = "rows"]
           /\ frows' = [frows EXCEPT ![r] = live]
           /\ fsnap' = [fsnap EXCEPT ![r] = tokens]
           /\ fuser' = [fuser EXCEPT ![r] = privileges]
           /\ since' = since \cup {r}
           /\ alone' = IF Running = {} THEN alone \cup {r} ELSE alone
  <2>1. Begun'
    BY <1>1, <1>3 DEF FixInv, Begun, TypeOK
  <2>2. RunningKnow'
    <3>1. CASE Running = {}
      BY <1>1, <1>3, <3>1 DEF Running, RunningKnow, TypeOK
    <3>2. CASE Running # {}
      BY <1>1, <1>3, <3>2 DEF FixInv, RunningKnow, TypeOK
    <3> QED BY <3>1, <3>2
  <2>3. RowsGood'
    <3> SUFFICES ASSUME NEW f \in since' \cap alone', NEW t \in live'
                 PROVE  \/ Good(t)'
                        \/ fpc'[f] = "rows" /\ t \in frows'[f] /\ tokens'[t] = fsnap'[f][t]
      BY DEF RowsGood
    <3>1. CASE f = r
      BY <1>1, <1>3, <3>1 DEF TypeOK
    <3>2. CASE f # r
      BY <1>1, <1>3, <3>2 DEF FixInv, RowsGood, Good, TypeOK
    <3> QED BY <3>1, <3>2
  <2> QED BY <2>1, <2>2, <2>3 DEF FixInv
<1> QED BY <1>2, <1>3 DEF FixSelect

\* A goroutine passes a row.
LEMMA FixRowStep == ASSUME TypeOK, FixInv, NEW r \in Requests, FixRow(r) PROVE FixInv'
<1> DEFINE new(u) == CanOnly(fsnap[r][u], fuser[r])
<1>1. PICK u \in frows[r] :
        /\ frows' = [frows EXCEPT ![r] = @ \ {u}]
        /\ \/ /\ tokens' = IF new(u) # fsnap[r][u] /\ u \in live
                             THEN [tokens EXCEPT ![u] = new(u)]
                             ELSE tokens
              /\ UNCHANGED since
           \/ /\ new(u) # fsnap[r][u]
              /\ since' = since \ {r}
              /\ UNCHANGED tokens
  BY DEF FixRow
<1>2. fpc[r] = "rows" /\ UNCHANGED <<privileges, live, pc, fpc, fsnap, fuser, alone>> /\ u \in Tokens
  BY DEF FixRow, userVars, TypeOK
<1>3. since' \subseteq since
  BY <1>1
<1>4. Begun'
  BY <1>2, <1>3 DEF FixInv, Begun
<1>5. RunningKnow'
  BY <1>2, <1>3 DEF FixInv, RunningKnow
<1>6. RowsGood'
  <2> SUFFICES ASSUME NEW f \in since' \cap alone', NEW t \in live'
               PROVE  \/ Good(t)'
                      \/ fpc'[f] = "rows" /\ t \in frows'[f] /\ tokens'[t] = fsnap'[f][t]
    BY DEF RowsGood
  <2>1. f \in since \cap alone /\ t \in live /\ t \in Tokens /\ f \in Requests
    BY <1>2, <1>3 DEF TypeOK
  <2>2. fuser[r] = privileges
    BY <1>2, <2>1 DEF FixInv, RunningKnow
  <2>3. \/ Good(t)
        \/ fpc[f] = "rows" /\ t \in frows[f] /\ tokens[t] = fsnap[f][t]
    BY <2>1 DEF FixInv, RowsGood
  <2>4. CanOnly(new(u), privileges) = new(u)
    BY <2>2, CanOnlyIdempotent
  <2>5. CASE t # u
    <3>1. tokens'[t] = tokens[t] /\ (t \in frows[f] => t \in frows'[f])
      BY <1>1, <2>1, <2>5 DEF TypeOK
    <3> QED BY <1>2, <2>3, <3>1 DEF Good
  <2>6. CASE t = u /\ tokens'[u] = new(u)
    BY <1>2, <2>4, <2>6 DEF Good
  <2>7. CASE t = u /\ tokens'[u] # new(u)
    <3>1. tokens' = tokens
      BY <1>1, <1>2, <2>1, <2>7 DEF TypeOK
    <3>2. CASE f = r
      <4>1. new(u) = fsnap[r][u]
        BY <1>1, <1>2, <2>1, <2>7, <3>1, <3>2 DEF TypeOK
      <4> QED BY <1>2, <2>3, <2>7, <3>1, <3>2, <4>1 DEF Good
    <3>3. CASE f # r
      <4>1. frows'[f] = frows[f]
        BY <1>1, <3>3 DEF TypeOK
      <4> QED BY <1>2, <2>3, <3>1, <4>1 DEF Good
    <3> QED BY <3>2, <3>3
  <2> QED BY <2>5, <2>6, <2>7
<1> QED BY <1>4, <1>5, <1>6 DEF FixInv

\* A goroutine ends.
LEMMA FixEndStep == ASSUME TypeOK, FixInv, NEW r \in Requests, FixEnd(r) PROVE FixInv'
<1>1. /\ fpc[r] = "rows" /\ fpc' = [fpc EXCEPT ![r] = "end"]
      /\ frows' = [frows EXCEPT ![r] = {}]
      /\ fuser' = [fuser EXCEPT ![r] = {}]
      /\ since' = IF frows[r] = {} THEN since ELSE since \ {r}
      /\ UNCHANGED <<privileges, tokens, live, pc, alone>>
  BY DEF FixEnd, userVars, tokenVars
<1>2. \A f \in Requests : f # r => fsnap'[f] = fsnap[f]
  BY DEF FixEnd, TypeOK
<1>3. Begun'
  BY <1>1 DEF FixInv, Begun, TypeOK
<1>4. RunningKnow'
  BY <1>1 DEF FixInv, RunningKnow, TypeOK
<1>5. RowsGood'
  <2> SUFFICES ASSUME NEW f \in since' \cap alone', NEW t \in live'
               PROVE  \/ Good(t)'
                      \/ fpc'[f] = "rows" /\ t \in frows'[f] /\ tokens'[t] = fsnap'[f][t]
    BY DEF RowsGood
  <2>1. f \in since \cap alone /\ f \in Requests /\ t \in live /\ (f = r => frows[r] = {})
    BY <1>1 DEF TypeOK
  <2>2. \/ Good(t)
        \/ fpc[f] = "rows" /\ t \in frows[f] /\ tokens[t] = fsnap[f][t]
    BY <2>1 DEF FixInv, RowsGood
  <2>3. CASE f = r
    BY <1>1, <2>1, <2>2, <2>3 DEF Good
  <2>4. CASE f # r
    BY <1>1, <1>2, <2>1, <2>2, <2>4 DEF Good, TypeOK
  <2> QED BY <2>3, <2>4
<1> QED BY <1>3, <1>4, <1>5 DEF FixInv

\* Every step keeps what the goroutines know and what they leave behind.
LEMMA FixStep == TypeOK /\ FixInv /\ [Next]_allVars => FixInv'
<1> SUFFICES ASSUME TypeOK, FixInv, [Next]_allVars PROVE FixInv'
  OBVIOUS
<1>0. TypeOK /\ FixInv
  OBVIOUS
<1>1. ASSUME NEW r \in Requests, NEW allowed \in 0..2, SetAllowed(r, allowed) PROVE FixInv'
  <2>1. \A q \in Requests : pc'[q] # "done" => pc[q] # "done"
    BY <1>0, <1>1 DEF SetAllowed, Serves, Goto, TypeOK
  <2> QED BY <1>0, <1>1, <2>1, FixSetPrivileges DEF SetAllowed, tokenVars
<1>2. ASSUME NEW r \in Requests, SetAllowedFails(r) PROVE FixInv'
  BY <1>0, <1>2, FixAnswer DEF SetAllowedFails
<1>3. ASSUME NEW r \in Requests, SetAllowedFixes(r) PROVE FixInv'
  <2>1. \A q \in Requests : pc'[q] # "done" => fpc'[q] = "none"
    BY <1>0, <1>3 DEF SetAllowedFixes, Goto, FixInv, Begun, TypeOK
  <2>2. \A f \in Requests : fpc[f] \in {"rows", "end"} \/ fpc'[f] = "rows" => fpc'[f] = fpc[f]
    BY <1>0, <1>3 DEF SetAllowedFixes, Serves, FixInv, Begun, TypeOK
  <2> QED BY <1>0, <1>3, <2>1, <2>2, FixFrame
     DEF SetAllowedFixes, userVars, tokenVars, historyVars
<1>4. ASSUME NEW r \in Requests, TokenFixPrivileges(r) PROVE FixInv'
  <2>1. \A q \in Requests : pc'[q] # "done" => fpc'[q] = "none"
    BY <1>0, <1>4 DEF TokenFixPrivileges, Goto, FixInv, Begun, TypeOK
  <2>2. \A f \in Requests : fpc[f] \in {"rows", "end"} \/ fpc'[f] = "rows" => fpc'[f] = fpc[f]
    BY <1>0, <1>4 DEF TokenFixPrivileges, Serves, FixInv, Begun, TypeOK
  <2> QED BY <1>0, <1>4, <2>1, <2>2, FixFrame
     DEF TokenFixPrivileges, userVars, tokenVars, historyVars
<1>5. ASSUME NEW r \in Requests, EditSelect(r) PROVE FixInv'
  <2>1. CASE Answer(r)
    BY <1>0, <2>1, FixAnswer
  <2>2. CASE ~Answer(r)
    <3>0. /\ pc[r] = "start" /\ fpc' = fpc
          /\ pc' = [pc EXCEPT ![r] = "username"]
      BY <1>5, <2>2 DEF EditSelect, Serves, Goto, fixVars
    <3>1. \A q \in Requests : pc'[q] # "done" => fpc'[q] = "none"
      BY <1>0, <3>0 DEF FixInv, Begun, TypeOK
    <3> QED BY <1>0, <1>5, <2>2, <3>1, FixFrame
       DEF EditSelect, userVars, tokenVars, fixVars, historyVars
  <2> QED BY <2>1, <2>2
<1>6. ASSUME NEW r \in Requests, EditUsername(r) PROVE FixInv'
  <2>1. CASE Answer(r)
    BY <1>0, <2>1, FixAnswer
  <2>2. CASE ~Answer(r)
    <3>1. \A q \in Requests : pc'[q] # "done" => fpc'[q] = "none"
      BY <1>0, <1>6, <2>2 DEF EditUsername, Goto, FixInv, Begun, TypeOK, fixVars
    <3> QED BY <1>0, <1>6, <2>2, <3>1, FixFrame
       DEF EditUsername, userVars, tokenVars, fixVars, historyVars
  <2> QED BY <2>1, <2>2
<1>7. ASSUME NEW r \in Requests, EditUpdate(r) PROVE FixInv'
  <2>1. CASE Answer(r)
    BY <1>0, <2>1, FixAnswer
  <2>2. CASE ~Answer(r)
    <3>1. \A q \in Requests : pc'[q] # "done" => pc[q] # "done"
      BY <1>0, <1>7, <2>2 DEF EditUpdate, Goto, TypeOK
    <3>2. CASE want[r] = Unchanged
      <4>1. \A q \in Requests : pc'[q] # "done" => fpc'[q] = "none"
        BY <1>0, <1>7, <2>2, <3>1 DEF EditUpdate, FixInv, Begun, fixVars
      <4> QED BY <1>0, <1>7, <2>2, <3>2, <4>1, FixFrame DEF EditUpdate, tokenVars, fixVars
    <3>3. CASE want[r] # Unchanged
      BY <1>0, <1>7, <2>2, <3>1, <3>3, FixSetPrivileges DEF EditUpdate, tokenVars
    <3> QED BY <3>2, <3>3
  <2> QED BY <2>1, <2>2
<1>8. ASSUME NEW r \in Requests, EditStats(r) PROVE FixInv'
  <2>1. CASE Answer(r)
    BY <1>0, <2>1, FixAnswer
  <2>2. CASE ~Answer(r)
    <3>1. \A q \in Requests : pc'[q] # "done" => fpc'[q] = "none"
      BY <1>0, <1>8, <2>2 DEF EditStats, Goto, FixInv, Begun, TypeOK, fixVars
    <3> QED BY <1>0, <1>8, <2>2, <3>1, FixFrame
       DEF EditStats, userVars, tokenVars, fixVars, historyVars
  <2> QED BY <2>1, <2>2
<1>9. ASSUME NEW r \in Requests, EditAnnounce(r) PROVE FixInv'
  <2>1. CASE Answer(r)
    BY <1>0, <2>1, FixAnswer
  <2>2. CASE ~Answer(r)
    <3>1. \A q \in Requests : pc'[q] # "done" => fpc'[q] = "none"
      BY <1>0, <1>9, <2>2 DEF EditAnnounce, Goto, FixInv, Begun, TypeOK, fixVars
    <3> QED BY <1>0, <1>9, <2>2, <3>1, FixFrame
       DEF EditAnnounce, userVars, tokenVars, fixVars, historyVars
  <2> QED BY <2>1, <2>2
<1>10. ASSUME NEW r \in Requests, EditFinish(r) PROVE FixInv'
  BY <1>0, <1>10, FixAnswer DEF EditFinish
<1>11. ASSUME NEW r \in Requests, FixSelect(r) PROVE FixInv'
  BY <1>0, <1>11, FixSelectStep
<1>12. ASSUME NEW r \in Requests, FixRow(r) PROVE FixInv'
  BY <1>0, <1>12, FixRowStep
<1>13. ASSUME NEW r \in Requests, FixEnd(r) PROVE FixInv'
  BY <1>0, <1>13, FixEndStep
<1>14. ASSUME NEW t \in Tokens, TokenSelfDelete(t) PROVE FixInv'
  <2>1. live' \subseteq live
    BY <1>14 DEF TokenSelfDelete
  <2>2. \A q \in Requests : pc'[q] # "done" => fpc'[q] = "none"
    BY <1>0, <1>14 DEF TokenSelfDelete, FixInv, Begun, fixVars
  <2> QED BY <1>0, <1>14, <2>1, <2>2, FixFrame
     DEF TokenSelfDelete, userVars, fixVars, historyVars
<1>15. CASE UNCHANGED allVars
  BY <1>0, <1>15
     DEF allVars, vars, FixInv, Begun, RunningKnow, RowsGood, Good, userVars, sentVars,
         editVars, fixVars, tokenVars, historyVars
<1> QED BY <1>0, <1>1, <1>2, <1>3, <1>4, <1>5, <1>6, <1>7, <1>8, <1>9, <1>10, <1>11, <1>12, <1>13, <1>14, <1>15
   DEF Next, serve, fixPrivileges

-----------------------------------------------------------------------------
(* The theorems.                                                             *)

IInv ==
  /\ TypeOK
  /\ OthersGiven /\ WantGiven
  /\ BanIsTold /\ WillTell
  /\ BanIsDated /\ PrevIsCurrent
  /\ FixInv

\* The inductive invariant: the properties, and for each what the requests and
\* goroutines that are under way know.
THEOREM Invariance == Spec => []IInv
<1>1. Init => IInv
  <2> SUFFICES ASSUME Init PROVE IInv
    OBVIOUS
  <2>1. TypeOK
    BY TypeInit
  <2>2. OthersGiven /\ WantGiven /\ BanIsTold /\ WillTell /\ BanIsDated /\ PrevIsCurrent
    BY DEF Init, OthersGiven, WantGiven, BanIsTold, WillTell, BanIsDated, PrevIsCurrent
  <2>3. FixInv
    BY DEF Init, FixInv, Begun, RunningKnow, RowsGood
  <2> QED BY <2>1, <2>2, <2>3 DEF IInv
<1>2. IInv /\ [Next]_allVars => IInv'
  BY TypeStep, GivenStep, ToldStep, DatedStep, FixStep DEF IInv
<1> QED BY <1>1, <1>2, PTL DEF Spec

\* The state keeps its types.
THEOREM TypeCorrect == Spec => []TypeOK
<1>1. IInv => TypeOK
  BY DEF IInv
<1> QED BY <1>1, Invariance, PTL

\* No interleaving gives the user a set of privileges above Basic that nobody
\* who may manage privileges asked for.
THEOREM NothingInvented == Spec => []OthersGiven
<1>1. IInv => OthersGiven
  BY DEF IInv
<1> QED BY <1>1, Invariance, PTL

\* Bancho hears of a ban before the edit succeeds.
THEOREM BansAreTold == Spec => []BanIsTold
<1>1. IInv => BanIsTold
  BY DEF IInv
<1> QED BY <1>1, Invariance, PTL

\* Only an edit that overwrites what it did not read leaves a ban without a date.
THEOREM BansAreDated == Spec => []BanIsDated
<1>1. IInv => BanIsDated
  BY DEF IInv
<1> QED BY <1>1, Invariance, PTL

\* A goroutine that is alone when it begins and is not disturbed leaves all the
\* tokens right.
THEOREM FixIsComplete == Spec => []FixComplete
<1>1. IInv => FixComplete
  BY DEF IInv, FixInv, RowsGood, Good, FixComplete, Fixed
<1> QED BY <1>1, Invariance, PTL

=============================================================================
