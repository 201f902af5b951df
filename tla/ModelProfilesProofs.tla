------------------------- MODULE ModelProfilesProofs -------------------------
(***************************************************************************)
(* Proofs for the model profiles, for any profiles, names, commands and    *)
(* dispatches.                                                             *)
(***************************************************************************)
EXTENDS ModelProfiles, TLAPS

(* What a command under way may rely on: the profile it adds is nobody     *)
(* else's and not there yet, the one it changes is there, and its reset of *)
(* the default touches the rows of its own usage.                          *)
CommandOK ==
    \A c \in Commands :
        /\ command[c].op = "idle" <=> command[c] = Idle
        /\ command[c].op # "idle" => command[c].of \in Profiles
        /\ command[c].op \in {"add", "insert"} =>
              /\ profile[command[c].of] = Absent
              /\ \A b \in Commands \ {c} : command[b].of # command[c].of
        /\ command[c].op \in {"use", "revoke", "test"} => profile[command[c].of].status # "absent"
        /\ step[c] = "read" => cleared[c] = {}
        /\ step[c] # "read" => command[c].op \in {"add", "use"}
        /\ \A q \in cleared[c] : Usage[q] = Usage[command[c].of]

(* What a session has loaded was not revoked when the dispatch began.      *)
DispatchOK ==
    \A d \in Dispatches :
        /\ gone[d] \subseteq Revoked
        /\ cache[d] \cap gone[d] = {}
        /\ calling[d] \notin gone[d]
        /\ d \notin running => cache[d] = {} /\ calling[d] = Nobody

ProfilesInv == TypeOK /\ KeyIffActive /\ OneActiveDefault /\ CommandOK /\ DispatchOK

-----------------------------------------------------------------------------
LEMMA InitProfilesInv == Init => ProfilesInv
BY ProfileAssumption
   DEF Init, ProfilesInv, TypeOK, Rows, Absent, Idle, Ops, KeyIffActive, OneActiveDefault,
       CommandOK, DispatchOK, Revoked

(* Rows with changed columns are rows.                                     *)
LEMMA WithDefault ==
    ASSUME NEW r \in Rows, NEW b \in BOOLEAN
    PROVE  /\ [r EXCEPT !.default = b] \in Rows
           /\ [r EXCEPT !.default = b].status = r.status
           /\ [r EXCEPT !.default = b].key = r.key
           /\ [r EXCEPT !.default = b].default = b
           /\ b = r.default => [r EXCEPT !.default = b] = r
           /\ [status |-> "active", default |-> b, test |-> "untested", key |-> TRUE] \in Rows
BY DEF Rows

LEMMA WithTest ==
    ASSUME NEW r \in Rows, NEW result \in {"ok", "failed"}
    PROVE  /\ [r EXCEPT !.test = result] \in Rows
           /\ [r EXCEPT !.test = result].status = r.status
           /\ [r EXCEPT !.test = result].key = r.key
           /\ [r EXCEPT !.test = result].default = r.default
BY DEF Rows

LEMMA RevokedRowOK ==
    ASSUME NEW r \in Rows, NEW was \in Rows
    PROVE  /\ RevokedRow(r, was) \in Rows
           /\ RevokedRow(r, was).status = "revoked" /\ RevokedRow(r, was).key = FALSE
<1>1. (r.default /\ ~was.default) \in BOOLEAN
    OBVIOUS
<1> QED BY <1>1 DEF RevokedRow, Rows

LEMMA AbsentRow == Absent \in Rows /\ [Absent EXCEPT !.default = FALSE] = Absent
<1>1. Absent \in Rows /\ FALSE = Absent.default
    BY DEF Absent, Rows
<1>2. FALSE \in BOOLEAN
    OBVIOUS
<1> QED BY <1>1, <1>2, WithDefault

(* A command that ends keeps the invariant when what it writes to the rows *)
(* revives no revoked profile, removes none, and adds only its own.        *)
LEMMA EndKeeps ==
    ASSUME ProfilesInv, NEW c \in Commands, EndCommand(c),
           profile' \in [Profiles -> Rows], KeyIffActive', OneActiveDefault',
           \A p \in Profiles : profile[p].status = "revoked" => profile'[p].status = "revoked",
           \A p \in Profiles : profile[p].status # "absent" => profile'[p].status # "absent",
           \A p \in Profiles : profile[p] = Absent /\ p # command[c].of => profile'[p] = Absent
    PROVE  ProfilesInv'
<1> USE ProfileAssumption
<1>1. /\ command'[c] = Idle /\ step'[c] = "read" /\ cleared'[c] = {}
      /\ \A b \in Commands \ {c} : command'[b] = command[b] /\ step'[b] = step[b]
                                   /\ cleared'[b] = cleared[b]
    BY DEF ProfilesInv, TypeOK, EndCommand
<1>2. command' \in [Commands -> [op : Ops \cup {"idle"}, of : Profiles \cup {Nobody}, was : Rows]]
    BY DEF ProfilesInv, TypeOK, EndCommand, Idle, Rows, Absent
<1>3. \A p \in Profiles : holder'[p] = IF holder[p] = c THEN Nobody ELSE holder[p]
    BY DEF EndCommand, Release
<1>4. TypeOK'
    BY <1>1, <1>2, <1>3 DEF ProfilesInv, TypeOK, EndCommand, Release
<1>5. CommandOK'
  <2> SUFFICES ASSUME NEW b \in Commands
               PROVE  /\ command'[b].op = "idle" <=> command'[b] = Idle
                      /\ command'[b].op # "idle" => command'[b].of \in Profiles
                      /\ command'[b].op \in {"add", "insert"} =>
                            /\ profile'[command'[b].of] = Absent
                            /\ \A a \in Commands \ {b} : command'[a].of # command'[b].of
                      /\ command'[b].op \in {"use", "revoke", "test"} =>
                            profile'[command'[b].of].status # "absent"
                      /\ step'[b] = "read" => cleared'[b] = {}
                      /\ step'[b] # "read" => command'[b].op \in {"add", "use"}
                      /\ \A q \in cleared'[b] : Usage[q] = Usage[command'[b].of]
      BY DEF CommandOK
  <2>1. CASE b = c
      BY <1>1, <2>1 DEF Idle
  <2>2. CASE b # c
    <3>1. command'[b] = command[b] /\ step'[b] = step[b] /\ cleared'[b] = cleared[b]
        BY <1>1, <2>2
    <3>2. \A a \in Commands \ {b} : command'[a].of = command[a].of \/ command'[a].of = Nobody
        BY <1>1 DEF Idle
    <3>3. command[b].op # "idle" => command[b].of \in Profiles
        BY DEF ProfilesInv, CommandOK
    <3>4. CASE command[b].op \in {"add", "insert"}
        BY <2>2, <3>1, <3>2, <3>3, <3>4 DEF ProfilesInv, CommandOK
    <3>5. CASE command[b].op \notin {"add", "insert"}
        BY <2>2, <3>1, <3>3, <3>5 DEF ProfilesInv, CommandOK
    <3> QED BY <3>4, <3>5
  <2> QED BY <2>1, <2>2
<1>6. DispatchOK'
  <2>1. Revoked \subseteq Revoked'
      BY DEF Revoked
  <2> QED BY <2>1 DEF ProfilesInv, DispatchOK, EndCommand
<1> QED BY <1>4, <1>5, <1>6 DEF ProfilesInv

(* What a command that makes or chooses a default does to the rows.        *)
LEMMA OutcomeFacts ==
    ASSUME ProfilesInv, NEW c \in Commands, command[c].op = "insert" \/ step[c] = "cleared"
    PROVE  /\ command[c].of \in Profiles
           /\ command[c].op \in {"add", "insert", "use"}
           /\ Outcome(c) \in [Profiles -> Rows]
           /\ \A p \in Profiles :
                 /\ Outcome(c)[p].key <=> Outcome(c)[p].status = "active"
                 /\ p # command[c].of => Outcome(c)[p].status = profile[p].status
                 /\ profile[p].status = "revoked" => Outcome(c)[p].status = "revoked"
                 /\ profile[p].status # "absent" => Outcome(c)[p].status # "absent"
                 /\ profile[p] = Absent /\ p # command[c].of => Outcome(c)[p] = Absent
<1>1. command[c].op \in {"add", "insert", "use"} /\ command[c].of \in Profiles
    BY DEF ProfilesInv, CommandOK
<1>2. command[c].op \in {"add", "insert"} => profile[command[c].of] = Absent
    BY DEF ProfilesInv, CommandOK
<1>3. \A p \in Profiles, b \in BOOLEAN : [profile[p] EXCEPT !.default = b] \in Rows
  <2> TAKE p \in Profiles, b \in BOOLEAN
  <2>1. profile[p] \in Rows
      BY DEF ProfilesInv, TypeOK
  <2> QED BY <2>1, WithDefault
<1>4. TargetRow(c) \in Rows
  <2>1. CASE command[c].op \in {"add", "insert"}
    <3>1. (command[c].op = "add") \in BOOLEAN
        OBVIOUS
    <3> QED BY <2>1, <3>1, AbsentRow, WithDefault DEF TargetRow
  <2>2. CASE command[c].op \notin {"add", "insert"}
      BY <1>1, <1>3, <2>2 DEF TargetRow
  <2> QED BY <2>1, <2>2
<1>5. Outcome(c) \in [Profiles -> Rows]
    BY <1>3, <1>4 DEF Outcome, ProfilesInv, TypeOK
<1>6. ASSUME NEW p \in Profiles
      PROVE  /\ Outcome(c)[p].key <=> Outcome(c)[p].status = "active"
             /\ p # command[c].of => Outcome(c)[p].status = profile[p].status
             /\ profile[p].status = "revoked" => Outcome(c)[p].status = "revoked"
             /\ profile[p].status # "absent" => Outcome(c)[p].status # "absent"
             /\ profile[p] = Absent /\ p # command[c].of => Outcome(c)[p] = Absent
  <2>1. profile[p] \in Rows /\ (profile[p].key <=> profile[p].status = "active")
      BY DEF ProfilesInv, TypeOK, KeyIffActive
  <2>2. CASE p = command[c].of
      BY <1>1, <1>2, <2>1, <2>2 DEF Outcome, TargetRow, Absent, Rows
  <2>3. CASE p # command[c].of
    <3>1. Outcome(c)[p] = profile[p] \/ Outcome(c)[p] = [profile[p] EXCEPT !.default = FALSE]
        BY <2>3 DEF Outcome
    <3>2. /\ [profile[p] EXCEPT !.default = FALSE].status = profile[p].status
          /\ [profile[p] EXCEPT !.default = FALSE].key = profile[p].key
        BY <2>1, WithDefault
    <3>3. profile[p] = Absent => [profile[p] EXCEPT !.default = FALSE] = Absent
        BY AbsentRow
    <3> QED BY <2>1, <2>3, <3>1, <3>2, <3>3 DEF Absent
  <2> QED BY <2>2, <2>3
<1> QED BY <1>1, <1>5, <1>6

LEMMA CommitDefaultKeeps ==
    ASSUME ProfilesInv, NEW c \in Commands, CommitDefault(c) PROVE ProfilesInv'
<1>1. command[c].op = "insert" \/ step[c] = "cleared"
    BY DEF CommitDefault
<1>2. EndCommand(c) /\ profile' = Outcome(c) /\ UniqueDefault(Outcome(c))
    BY DEF CommitDefault
<1>3. KeyIffActive' /\ OneActiveDefault'
    BY <1>1, <1>2, OutcomeFacts DEF KeyIffActive, OneActiveDefault, UniqueDefault
<1> QED BY <1>1, <1>2, <1>3, OutcomeFacts, EndKeeps

LEMMA RefuseDefaultKeeps ==
    ASSUME ProfilesInv, NEW c \in Commands, RefuseDefault(c) PROVE ProfilesInv'
<1>1. EndCommand(c) /\ profile' = profile
    BY DEF RefuseDefault
<1>2. KeyIffActive' /\ OneActiveDefault' /\ profile' \in [Profiles -> Rows]
    BY <1>1 DEF ProfilesInv, TypeOK, KeyIffActive, OneActiveDefault
<1> QED BY <1>1, <1>2, EndKeeps

LEMMA CommitRevokeKeeps ==
    ASSUME ProfilesInv, NEW c \in Commands, CommitRevoke(c) PROVE ProfilesInv'
<1> DEFINE p == command[c].of
<1>1. p \in Profiles /\ profile[p].status # "absent"
    BY DEF CommitRevoke, ProfilesInv, CommandOK
<1>2. RevokedRow(profile[p], command[c].was) \in Rows
    BY <1>1, RevokedRowOK DEF ProfilesInv, TypeOK
<1>3. /\ profile'[p].status = "revoked" /\ ~profile'[p].key
      /\ \A q \in Profiles : q # p => profile'[q] = profile[q]
    BY <1>1, RevokedRowOK DEF CommitRevoke, ProfilesInv, TypeOK
<1>7. profile' \in [Profiles -> Rows]
    BY <1>1, <1>2 DEF CommitRevoke, ProfilesInv, TypeOK
<1>4. KeyIffActive' /\ OneActiveDefault'
    BY <1>3 DEF ProfilesInv, KeyIffActive, OneActiveDefault
<1>5. EndCommand(c)
    BY DEF CommitRevoke
<1>6. profile[p] # Absent
    BY <1>1 DEF Absent
<1> QED BY <1>3, <1>4, <1>5, <1>6, <1>7, EndKeeps

LEMMA CommitTestKeeps ==
    ASSUME ProfilesInv, NEW c \in Commands, NEW result \in {"ok", "failed"}, CommitTest(c, result)
    PROVE  ProfilesInv'
<1> DEFINE p == command[c].of
<1>1. p \in Profiles /\ profile[p].status # "absent"
    BY DEF CommitTest, ProfilesInv, CommandOK
<1>a. [profile[p] EXCEPT !.test = result] \in Rows
    BY <1>1, WithTest DEF ProfilesInv, TypeOK
<1>2. profile' \in [Profiles -> Rows]
    BY <1>1, <1>a DEF CommitTest, ProfilesInv, TypeOK
<1>3. /\ \A q \in Profiles : /\ profile'[q].status = profile[q].status
                             /\ profile'[q].key = profile[q].key
                             /\ profile'[q].default = profile[q].default
      /\ \A q \in Profiles : q # p => profile'[q] = profile[q]
    BY <1>1, WithTest DEF CommitTest, ProfilesInv, TypeOK
<1>4. KeyIffActive' /\ OneActiveDefault'
    BY <1>3 DEF ProfilesInv, KeyIffActive, OneActiveDefault
<1>5. EndCommand(c)
    BY DEF CommitTest
<1> QED BY <1>2, <1>3, <1>4, <1>5, EndKeeps
-----------------------------------------------------------------------------
LEMMA ReceiveKeeps ==
    ASSUME ProfilesInv, NEW c \in Commands, NEW op \in Ops, NEW p \in Profiles, Receive(c, op, p)
    PROVE  ProfilesInv'
<1> USE ProfileAssumption
<1>1. /\ command'[c] = [op |-> op, of |-> p, was |-> profile[p]]
      /\ \A b \in Commands \ {c} : command'[b] = command[b]
      /\ profile[p] \in Rows /\ command[c] = Idle /\ command'[c] # Idle
    BY DEF ProfilesInv, TypeOK, Receive, Ops, Idle
<1>2. UNCHANGED <<profile, holder, step, cleared, calling, cache, running, gone, dispatches>>
    BY DEF Receive, session
<1>3. TypeOK'
    BY <1>1, <1>2 DEF ProfilesInv, TypeOK, Receive
<1>4. CommandOK'
  <2> SUFFICES ASSUME NEW b \in Commands
               PROVE  /\ command'[b].op = "idle" <=> command'[b] = Idle
                      /\ command'[b].op # "idle" => command'[b].of \in Profiles
                      /\ command'[b].op \in {"add", "insert"} =>
                            /\ profile[command'[b].of] = Absent
                            /\ \A a \in Commands \ {b} : command'[a].of # command'[b].of
                      /\ command'[b].op \in {"use", "revoke", "test"} =>
                            profile[command'[b].of].status # "absent"
                      /\ step[b] = "read" => cleared[b] = {}
                      /\ step[b] # "read" => command'[b].op \in {"add", "use"}
                      /\ \A q \in cleared[b] : Usage[q] = Usage[command'[b].of]
      BY <1>2 DEF CommandOK
  <2>1. CASE b = c
    <3>1. step[c] = "read" /\ cleared[c] = {}
        BY <1>1 DEF ProfilesInv, TypeOK, CommandOK
    <3>2. command'[b].op \in {"add", "insert"} =>
             profile[p] = Absent /\ \A a \in Commands \ {b} : command'[a].of # p
        BY <1>1, <2>1 DEF Receive
    <3>3. command'[b].op \in {"use", "revoke", "test"} => profile[p].status # "absent"
        BY <1>1, <2>1 DEF Receive
    <3> QED BY <1>1, <2>1, <3>1, <3>2, <3>3 DEF Ops
  <2>2. CASE b # c
    <3>1. command'[b] = command[b]
        BY <1>1, <2>2
    <3>2. ASSUME command[b].op \in {"add", "insert"} PROVE p # command[b].of
      <4>1. profile[command[b].of] = Absent
          BY <3>2 DEF ProfilesInv, CommandOK
      <4> QED BY <4>1 DEF Receive, Absent
    <3>3. \A a \in Commands \ {b} : command'[a].of = command[a].of \/ command'[a].of = p
        BY <1>1
    <3> QED BY <3>1, <3>2, <3>3 DEF ProfilesInv, CommandOK
  <2> QED BY <2>1, <2>2
<1> QED BY <1>2, <1>3, <1>4 DEF ProfilesInv, KeyIffActive, OneActiveDefault, DispatchOK, Revoked

LEMMA StartClearingKeeps ==
    ASSUME ProfilesInv, NEW c \in Commands, StartClearing(c) PROVE ProfilesInv'
<1>1. /\ step'[c] = "clearing" /\ cleared'[c] = {q \in Rivals(command[c].of) : profile[q].status # "absent"}
      /\ \A b \in Commands \ {c} : step'[b] = step[b] /\ cleared'[b] = cleared[b]
    BY DEF ProfilesInv, TypeOK, StartClearing
<1>2. TypeOK'
    BY <1>1 DEF ProfilesInv, TypeOK, StartClearing, Rivals, Idle
<1>3. CommandOK'
    BY <1>1 DEF ProfilesInv, CommandOK, StartClearing, Rivals
<1> QED BY <1>2, <1>3
        DEF ProfilesInv, KeyIffActive, OneActiveDefault, DispatchOK, Revoked, StartClearing

LEMMA ClearDefaultKeeps ==
    ASSUME ProfilesInv, NEW c \in Commands, ClearDefault(c) PROVE ProfilesInv'
<1> USE ProfileAssumption
<1>1. step'[c] = "cleared" /\ \A b \in Commands \ {c} : step'[b] = step[b]
    BY DEF ProfilesInv, TypeOK, ClearDefault
<1>2. command[c] # Idle
    BY DEF ProfilesInv, TypeOK, ClearDefault
<1>3. TypeOK'
    BY <1>1, <1>2 DEF ProfilesInv, TypeOK, ClearDefault
<1>4. CommandOK'
    BY <1>1 DEF ProfilesInv, CommandOK, ClearDefault
<1> QED BY <1>3, <1>4
        DEF ProfilesInv, KeyIffActive, OneActiveDefault, DispatchOK, Revoked, ClearDefault

(* Dispatches do not touch what commands rely on.                          *)
LEMMA DispatchKeeps ==
    ASSUME ProfilesInv, NEW d \in Dispatches,
           \/ BeginDispatch(d) \/ MarkUsed(d) \/ EndDispatch(d)
           \/ \E p \in Profiles : CallModel(d, p)
    PROVE  ProfilesInv'
<1> USE ProfileAssumption
<1>1. UNCHANGED <<profile, command, step, cleared>>
    BY DEF BeginDispatch, MarkUsed, EndDispatch, CallModel
<1>2. KeyIffActive' /\ OneActiveDefault' /\ CommandOK' /\ Revoked' = Revoked
    BY <1>1 DEF ProfilesInv, KeyIffActive, OneActiveDefault, CommandOK, Revoked
<1>3. CASE BeginDispatch(d)
  <2>1. TypeOK'
      BY <1>3 DEF ProfilesInv, TypeOK, BeginDispatch, Revoked
  <2>2. DispatchOK'
      BY <1>2, <1>3 DEF ProfilesInv, TypeOK, BeginDispatch, DispatchOK, Revoked
  <2> QED BY <1>2, <2>1, <2>2 DEF ProfilesInv
<1>4. CASE MarkUsed(d)
  <2>1. d \in running
      BY <1>4 DEF ProfilesInv, MarkUsed, DispatchOK
  <2>2. TypeOK'
      BY <1>4, <2>1 DEF ProfilesInv, TypeOK, MarkUsed
  <2>3. DispatchOK'
      BY <1>2, <1>4, <2>1 DEF ProfilesInv, TypeOK, MarkUsed, DispatchOK
  <2> QED BY <1>2, <2>2, <2>3 DEF ProfilesInv
<1>5. CASE EndDispatch(d)
  <2>1. \A p \in Profiles : holder'[p] # d /\ (holder'[p] = holder[p] \/ holder'[p] = Nobody)
      BY <1>5 DEF EndDispatch, Release
  <2>2. TypeOK'
      BY <1>5, <2>1 DEF ProfilesInv, TypeOK, EndDispatch, Release
  <2>3. DispatchOK'
      BY <1>2, <1>5 DEF ProfilesInv, TypeOK, EndDispatch, DispatchOK
  <2> QED BY <1>2, <2>2, <2>3 DEF ProfilesInv
<1>6. ASSUME NEW p \in Profiles, CallModel(d, p) PROVE ProfilesInv'
  <2>1. TypeOK'
      BY <1>6 DEF ProfilesInv, TypeOK, CallModel
  <2>2. p \notin gone[d]
      BY <1>6 DEF ProfilesInv, DispatchOK, CallModel, FoundActive, Revoked
  <2>3. DispatchOK'
      BY <1>2, <1>6, <2>2 DEF ProfilesInv, TypeOK, CallModel, DispatchOK
  <2> QED BY <1>2, <2>1, <2>3 DEF ProfilesInv
<1> QED BY <1>3, <1>4, <1>5, <1>6

LEMMA NextKeepsInv == ASSUME ProfilesInv, [Next]_vars PROVE ProfilesInv'
<1>1. CASE UNCHANGED vars
    BY <1>1 DEF vars, session, ProfilesInv, TypeOK, KeyIffActive, OneActiveDefault, CommandOK,
                DispatchOK, Revoked
<1>2. ASSUME NEW c \in Commands, CommandStep(c) PROVE ProfilesInv'
    BY <1>2, StartClearingKeeps, ClearDefaultKeeps, CommitDefaultKeeps, RefuseDefaultKeeps,
       CommitRevokeKeeps, CommitTestKeeps DEF CommandStep
<1> QED BY <1>1, <1>2, ReceiveKeeps, DispatchKeeps DEF Next

LEMMA ProfilesInvariant == Spec => []ProfilesInv
BY InitProfilesInv, NextKeepsInv, PTL DEF Spec

(* The profiles keep their types, and rows are held only by commands and   *)
(* dispatches under way.                                                   *)
THEOREM ProfilesTypeOK == Spec => []TypeOK
<1>1. ProfilesInv => TypeOK
    BY DEF ProfilesInv
<1> QED BY <1>1, ProfilesInvariant, PTL

(* One active default per usage, for any interleaving of add and use with  *)
(* _clear_default.                                                         *)
THEOREM ProfilesOneActiveDefault == Spec => []OneActiveDefault
<1>1. ProfilesInv => OneActiveDefault
    BY DEF ProfilesInv
<1> QED BY <1>1, ProfilesInvariant, PTL

(* A profile has its key exactly while it is active (revoke).              *)
THEOREM ProfilesKeyIffActive == Spec => []KeyIffActive
<1>1. ProfilesInv => KeyIffActive
    BY DEF ProfilesInv
<1> QED BY <1>1, ProfilesInvariant, PTL

(* No dispatch calls with a key that was revoked before it began.          *)
THEOREM ProfilesRevokedBeforeIsNotCalled == Spec => []RevokedBeforeIsNotCalled
<1>1. ProfilesInv => RevokedBeforeIsNotCalled
    BY DEF ProfilesInv, TypeOK, DispatchOK, RevokedBeforeIsNotCalled
<1> QED BY <1>1, ProfilesInvariant, PTL

-----------------------------------------------------------------------------
(* The steps that change a row of user_model_profiles.                     *)
LEMMA WhoWrites ==
    ASSUME ProfilesInv, [Next]_vars, profile' # profile
    PROVE  \E c \in Commands :
              \/ CommitDefault(c) \/ CommitRevoke(c)
              \/ \E result \in {"ok", "failed"} : CommitTest(c, result)
BY DEF Next, vars, Receive, CommandStep, StartClearing, ClearDefault, RefuseDefault,
       BeginDispatch, MarkUsed, EndDispatch, CallModel

(* A revoked profile stays revoked, whoever read it before (set_default,   *)
(* mark_test_result).                                                      *)
THEOREM ProfilesRevocationIsFinal == Spec => RevocationIsFinal
<1>1. ASSUME ProfilesInv, [Next]_vars
      PROVE  [\A p \in Profiles : profile[p].status = "revoked" => profile'[p].status = "revoked"]_vars
  <2> SUFFICES ASSUME NEW p \in Profiles, profile[p].status = "revoked", profile' # profile
               PROVE  profile'[p].status = "revoked"
      OBVIOUS
  <2>1. PICK c \in Commands : \/ CommitDefault(c) \/ CommitRevoke(c)
                              \/ \E result \in {"ok", "failed"} : CommitTest(c, result)
      BY <1>1, WhoWrites
  <2>2. CASE CommitDefault(c)
      BY <1>1, <2>2, OutcomeFacts DEF CommitDefault
  <2>3. CASE CommitRevoke(c)
    <3>1. command[c].of \in Profiles
        BY <1>1, <2>3 DEF CommitRevoke, ProfilesInv, CommandOK
    <3> QED BY <1>1, <2>3, <3>1, RevokedRowOK DEF CommitRevoke, ProfilesInv, TypeOK
  <2>4. ASSUME NEW result \in {"ok", "failed"}, CommitTest(c, result)
        PROVE  profile'[p].status = "revoked"
      BY <1>1, <2>4, WithTest DEF CommitTest, ProfilesInv, TypeOK
  <2> QED BY <2>1, <2>2, <2>3, <2>4
<1> QED BY <1>1, ProfilesInvariant, PTL DEF Spec, RevocationIsFinal

(* A row that a change of default neither makes nor resets is unchanged,   *)
(* and the reset stays within the usage.                                   *)
LEMMA OutcomeElsewhere ==
    ASSUME ProfilesInv, NEW c \in Commands, command[c].op = "insert" \/ step[c] = "cleared",
           NEW p \in Profiles, p # command[c].of,
           command[c].op = "insert" \/ Usage[p] # Usage[command[c].of]
    PROVE  Outcome(c)[p] = profile[p]
<1>1. p \notin cleared[c]
    BY DEF ProfilesInv, TypeOK, CommandOK
<1> QED BY <1>1 DEF Outcome

(* A default is lost only to a revocation, for any overlap of commands     *)
(* (create_profile, set_default, revoke).                                  *)
THEOREM ProfilesDefaultLostByRevocation == Spec => DefaultLostByRevocation
<1> DEFINE Explained(u) ==
             \E c \in Commands : command[c].op \in {"use", "revoke"}
                                 /\ Usage[command[c].of] = u
                                 /\ profile'[command[c].of].status = "revoked"
<1>1. ASSUME ProfilesInv, [Next]_vars, NEW u \in {"chat", "embedding"},
             HasDefault(u), ~HasDefault(u)'
      PROVE  Explained(u)
  <2>1. PICK p \in Profiles : Usage[p] = u /\ profile[p].status = "active" /\ profile[p].default
      BY <1>1 DEF HasDefault
  <2>2. \A q \in Profiles : ~(Usage[q] = u /\ profile'[q].status = "active" /\ profile'[q].default)
      BY <1>1 DEF HasDefault
  <2>3. profile'[p] # profile[p]
      BY <2>1, <2>2
  <2>4. PICK c \in Commands : \/ CommitDefault(c) \/ CommitRevoke(c)
                              \/ \E result \in {"ok", "failed"} : CommitTest(c, result)
      BY <1>1, <2>3, WhoWrites
  <2>5. CASE CommitDefault(c)
    <3>1. /\ command[c].op = "insert" \/ step[c] = "cleared"
          /\ profile' = Outcome(c)
        BY <2>5 DEF CommitDefault
    <3>2. command[c].of \in Profiles /\ command[c].op \in {"add", "insert", "use"}
        BY <1>1, <3>1, OutcomeFacts
    <3>3. profile'[command[c].of] = TargetRow(c)
        BY <3>1, <3>2 DEF Outcome
    <3>4. profile[p] # Absent
        BY <2>1 DEF Absent
    <3>5. CASE command[c].op = "insert"
        BY <1>1, <2>3, <3>1, <3>4, <3>5, OutcomeElsewhere DEF ProfilesInv, CommandOK
    <3>6. CASE command[c].op # "insert"
      <4>1. Usage[command[c].of] = u
          BY <1>1, <2>1, <2>3, <3>1, OutcomeElsewhere
      <4>2. CASE command[c].op = "add"
        <5>1. TargetRow(c).status = "active" /\ TargetRow(c).default = (command[c].op = "add")
            BY <4>2, Zenon DEF TargetRow
        <5> QED BY <2>2, <3>2, <3>3, <4>1, <4>2, <5>1
      <4>3. CASE command[c].op = "use"
        <5>1. profile[command[c].of] \in Rows /\ profile[command[c].of].status # "absent"
            BY <1>1, <3>2, <4>3 DEF ProfilesInv, TypeOK, CommandOK
        <5>2. TRUE \in BOOLEAN
            OBVIOUS
        <5>3. TargetRow(c).default /\ TargetRow(c).status = profile[command[c].of].status
            BY <4>3, <5>1, <5>2, WithDefault DEF TargetRow
        <5>4. profile'[command[c].of].status = "revoked"
            BY <2>2, <3>2, <3>3, <4>1, <5>1, <5>3 DEF Rows
        <5> QED BY <4>1, <4>3, <5>4
      <4> QED BY <3>2, <3>6, <4>2, <4>3
    <3> QED BY <3>5, <3>6
  <2>6. CASE CommitRevoke(c)
    <3>1. command[c].of = p
        BY <2>3, <2>6 DEF CommitRevoke
    <3>2. profile'[p].status = "revoked"
        BY <1>1, <2>6, <3>1, RevokedRowOK DEF CommitRevoke, ProfilesInv, TypeOK
    <3> QED BY <2>1, <2>6, <3>1, <3>2 DEF CommitRevoke
  <2>7. ASSUME NEW result \in {"ok", "failed"}, CommitTest(c, result) PROVE FALSE
    <3>1. profile[p] \in Rows
        BY <1>1 DEF ProfilesInv, TypeOK
    <3>2. profile'[p] = [profile[p] EXCEPT !.test = result]
        BY <1>1, <2>3, <2>7 DEF CommitTest, ProfilesInv, TypeOK
    <3>3. profile'[p].status = profile[p].status /\ profile'[p].default = profile[p].default
        BY <3>1, <3>2, WithTest
    <3> QED BY <2>1, <2>2, <3>3, Zenon
  <2> QED BY <2>4, <2>5, <2>6, <2>7
<1>2. ASSUME ProfilesInv, [Next]_vars
      PROVE  [\A u \in {"chat", "embedding"} :
                 HasDefault(u) /\ ~HasDefault(u)' => Explained(u)]_vars
    BY <1>1, <1>2
<1> QED BY <1>2, ProfilesInvariant, PTL DEF Spec, DefaultLostByRevocation

=============================================================================
