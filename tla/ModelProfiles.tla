---------------------------- MODULE ModelProfiles ----------------------------
(***************************************************************************)
(* The model profiles of one owner: the /model commands that arrive over   *)
(* Discord (app/api/discord.py, app/discord/interactions.py) or with a     *)
(* Feishu setup form, the service and repository that serve them           *)
(* (app/model_profiles/service.py, repository.py), and the dispatches that *)
(* call a model with a profile's key (gateway_factory.py).                 *)
(*                                                                         *)
(* Every command and every dispatch is one transaction.  It reads rows     *)
(* without a lock and keeps what it has read; an UPDATE waits for the      *)
(* transactions that hold its rows, changes the columns it names on the    *)
(* row of now, and holds the row until its own end.  A dispatch holds the  *)
(* profile it has used (mark_used) to its end.                             *)
(*                                                                         *)
(* Left out: listing, the encryption of the key, the provider's checks,    *)
(* and requests refused before they read a profile (signature, guild,      *)
(* channel, options), none of which changes a row.                         *)
(***************************************************************************)
EXTENDS Naturals, FiniteSets

CONSTANTS
    Profiles,      \* rows of user_model_profiles, once made
    Usage,         \* Usage[p]: "chat" or "embedding"
    Name,          \* Name[p]: the display_name
    Commands,      \* concurrent commands of the owner
    Dispatches,    \* concurrent dispatches of the owner's tasks
    Nobody,        \* no profile, or no holder of a row
    MaxCommands,   \* bound on the commands
    MaxDispatches  \* bound on the dispatches

ASSUME ProfileAssumption ==
    /\ Usage \in [Profiles -> {"chat", "embedding"}]
    /\ Nobody \notin Profiles /\ Nobody \notin Commands \cup Dispatches
    /\ Commands \cap Dispatches = {}
    /\ MaxCommands \in Nat /\ MaxDispatches \in Nat

VARIABLES
    profile,    \* profile[p]: status, is_default, last_test_status, key present
    holder,     \* holder[p]: the transaction that has updated the row
    command,    \* command[c]: operation, profile, progress and what it read
    step,       \* step[c]: how far the command is with _clear_default
    cleared,    \* cleared[c]: the rows that its statement updates
    calling,    \* calling[d]: the profile whose key dispatch d calls with
    cache,      \* cache[d]: profiles loaded by the session of dispatch d
    running,    \* the dispatches under way
    gone,       \* gone[d]: history, the profiles revoked when d began
    commands, dispatches  \* history: how many there have been

session == <<step, cleared, calling, cache, running, gone>>
vars == <<profile, holder, command, session, commands, dispatches>>

Rows == [status : {"absent", "active", "revoked"}, default : BOOLEAN,
         test : {"untested", "ok", "failed"}, key : BOOLEAN]
Absent == [status |-> "absent", default |-> FALSE, test |-> "untested", key |-> FALSE]
(* "insert" is an add that does not become the default.                    *)
Ops    == {"add", "insert", "use", "revoke", "test"}
Idle   == [op |-> "idle", of |-> Nobody, was |-> Absent]

TypeOK ==
    /\ profile \in [Profiles -> Rows]
    /\ holder \in [Profiles -> {Nobody} \cup Commands \cup Dispatches]
    /\ command \in [Commands -> [op : Ops \cup {"idle"},
                                 of : Profiles \cup {Nobody}, was : Rows]]
    /\ cleared \in [Commands -> SUBSET Profiles]
    /\ step \in [Commands -> {"read", "clearing", "cleared"}]
    /\ \A c \in Commands : command[c] = Idle => step[c] = "read"
    /\ calling \in [Dispatches -> Profiles \cup {Nobody}]
    /\ cache \in [Dispatches -> SUBSET Profiles]
    /\ gone \in [Dispatches -> SUBSET Profiles]
    /\ running \subseteq Dispatches
    /\ commands \in 0..MaxCommands /\ dispatches \in 0..MaxDispatches
    /\ \A p \in Profiles : holder[p] \in Commands => command[holder[p]] # Idle
    /\ \A p \in Profiles : holder[p] \in Dispatches => holder[p] \in running

Init ==
    /\ profile = [p \in Profiles |-> Absent]
    /\ holder = [p \in Profiles |-> Nobody]
    /\ command = [c \in Commands |-> Idle]
    /\ cleared = [c \in Commands |-> {}]
    /\ step = [c \in Commands |-> "read"]
    /\ calling = [d \in Dispatches |-> Nobody]
    /\ cache = [d \in Dispatches |-> {}]
    /\ running = {}
    /\ gone = [d \in Dispatches |-> {}]
    /\ commands = 0 /\ dispatches = 0

-----------------------------------------------------------------------------
(* What the database keeps apart.                                          *)

Rivals(p) == {q \in Profiles : Usage[q] = Usage[p]}

(* Variant: the index on the default profile is missing.                   *)
UniqueDefaultNone(rows) == TRUE

(* The partial unique index on the default of a usage.                     *)
UniqueDefault(rows) ==
    \A p, q \in Profiles :
        /\ p # q /\ Usage[p] = Usage[q]
        /\ rows[p].status = "active" /\ rows[q].status = "active"
        => ~(rows[p].default /\ rows[q].default)

(* Display names are unique, revoked profiles included.                    *)
UniqueName(rows) ==
    \A p, q \in Profiles :
        p # q /\ rows[p].status # "absent" /\ rows[q].status # "absent" => Name[p] # Name[q]

Free(t, ps) == \A p \in ps : holder[p] \in {Nobody, t}
Release(t) == holder' = [p \in Profiles |-> IF holder[p] = t THEN Nobody ELSE holder[p]]

-----------------------------------------------------------------------------
(* Commands.                                                               *)

(* A command that passed the checks at the door finds its profile by name. *)
(* A new profile stays in the second place only if there is another.       *)
Receive(c, op, p) ==
    /\ command[c] = Idle
    /\ commands < MaxCommands
    /\ commands' = commands + 1
    /\ IF op \in {"add", "insert"}
       THEN profile[p] = Absent /\ \A b \in Commands : command[b].of # p
       ELSE profile[p].status = "active" /\ profile[p].key
    /\ op = "insert" => \E q \in Rivals(p) : profile[q].status = "active"
    /\ command' = [command EXCEPT ![c] = [op |-> op, of |-> p, was |-> profile[p]]]
    /\ UNCHANGED <<profile, holder, session, dispatches>>

(* _clear_default: the UPDATE takes the rows of the usage that are there   *)
(* when the statement starts, then waits for those that others hold; a row *)
(* inserted in the meantime is not reset.                                  *)
StartClearing(c) ==
    /\ command[c].op \in {"add", "use"}
    /\ step[c] = "read"
    /\ step' = [step EXCEPT ![c] = "clearing"]
    /\ cleared' = [cleared EXCEPT ![c] =
                      {q \in Rivals(command[c].of) : profile[q].status # "absent"}]
    /\ UNCHANGED <<profile, holder, command, calling, cache, running, gone, commands, dispatches>>

ClearDefault(c) ==
    /\ step[c] = "clearing"
    /\ Free(c, cleared[c])
    /\ step' = [step EXCEPT ![c] = "cleared"]
    /\ holder' = [q \in Profiles |-> IF q \in cleared[c] THEN c ELSE holder[q]]
    /\ UNCHANGED <<profile, command, cleared, calling, cache, running, gone, commands, dispatches>>

(* Variant: set_default writes the row back as it was read.                *)
TargetRowStale(c) ==
    IF command[c].op \in {"add", "insert"}
    THEN [status |-> "active", default |-> command[c].op = "add", test |-> "untested", key |-> TRUE]
    ELSE [profile[command[c].of] EXCEPT !.default = TRUE, !.status = command[c].was.status]

(* The row of the new or chosen profile; set_default writes is_default on  *)
(* the row of now.                                                         *)
TargetRow(c) ==
    IF command[c].op \in {"add", "insert"}
    THEN [status |-> "active", default |-> command[c].op = "add", test |-> "untested", key |-> TRUE]
    ELSE [profile[command[c].of] EXCEPT !.default = TRUE]

Outcome(c) ==
    [q \in Profiles |-> IF q = command[c].of THEN TargetRow(c)
                        ELSE IF q \in cleared[c] THEN [profile[q] EXCEPT !.default = FALSE]
                        ELSE profile[q]]

EndCommand(c) ==
    /\ Release(c)
    /\ command' = [command EXCEPT ![c] = Idle]
    /\ cleared' = [cleared EXCEPT ![c] = {}]
    /\ step' = [step EXCEPT ![c] = "read"]
    /\ UNCHANGED <<calling, cache, running, gone, commands, dispatches>>

(* create_profile or set_default flushes and commits.                      *)
CommitDefault(c) ==
    /\ command[c].op = "insert" \/ step[c] = "cleared"
    /\ Free(c, {command[c].of})
    /\ UniqueDefault(Outcome(c)) /\ UniqueName(Outcome(c))
    /\ profile' = Outcome(c)
    /\ EndCommand(c)

(* Variant: the error is answered but the transaction is not rolled back.  *)
RefuseDefaultKept(c) ==
    /\ command[c].op = "insert" \/ step[c] = "cleared"
    /\ Free(c, {command[c].of})
    /\ ~(UniqueDefault(Outcome(c)) /\ UniqueName(Outcome(c)))
    /\ profile' = [q \in Profiles |-> IF q \in cleared[c] THEN [profile[q] EXCEPT !.default = FALSE]
                                      ELSE profile[q]]
    /\ EndCommand(c)

(* Variant: a taken name is not an error the command expects.              *)
RefuseDefaultNamed(c) ==
    /\ command[c].op = "insert" \/ step[c] = "cleared"
    /\ Free(c, {command[c].of})
    /\ ~UniqueDefault(Outcome(c))
    /\ profile' = profile
    /\ EndCommand(c)

(* A unique key refuses the flush; the transaction is rolled back.         *)
RefuseDefault(c) ==
    /\ command[c].op = "insert" \/ step[c] = "cleared"
    /\ Free(c, {command[c].of})
    /\ ~(UniqueDefault(Outcome(c)) /\ UniqueName(Outcome(c)))
    /\ profile' = profile
    /\ EndCommand(c)

(* revoke: the flush leaves is_default out when it was FALSE when read.    *)
RevokedRow(r, was) ==
    [r EXCEPT !.status = "revoked", !.key = FALSE, !.default = @ /\ ~was.default]

CommitRevoke(c) ==
    LET p == command[c].of IN
    /\ command[c].op = "revoke"
    /\ Free(c, {p})
    /\ profile' = [profile EXCEPT ![p] = RevokedRow(profile[p], command[c].was)]
    /\ EndCommand(c)

(* test_profile: the model has answered or not; the result is written      *)
(* whatever the profile is by now.                                         *)
CommitTest(c, result) ==
    LET p == command[c].of IN
    /\ command[c].op = "test"
    /\ Free(c, {p})
    /\ profile' = [profile EXCEPT ![p].test = result]
    /\ EndCommand(c)

-----------------------------------------------------------------------------
(* Dispatches.                                                             *)

Revoked == {p \in Profiles : profile[p].status = "revoked"}

BeginDispatch(d) ==
    /\ d \notin running
    /\ dispatches < MaxDispatches
    /\ dispatches' = dispatches + 1
    /\ running' = running \cup {d}
    /\ gone' = [gone EXCEPT ![d] = Revoked]
    /\ UNCHANGED <<profile, holder, command, step, cleared, calling, cache, commands>>

(* get_active_profile: the session gives the row as it has loaded it       *)
(* before, and looks at the database only the first time.                  *)
FoundActive(d, p) == p \in cache[d] \/ (profile[p].status = "active" /\ profile[p].key)

(* build_chat_gateway; a dispatch has one profile.                         *)
CallModel(d, p) ==
    /\ d \in running
    /\ calling[d] = Nobody
    /\ cache[d] \subseteq {p}
    /\ FoundActive(d, p)
    /\ cache' = [cache EXCEPT ![d] = @ \cup {p}]
    /\ calling' = [calling EXCEPT ![d] = p]
    /\ UNCHANGED <<profile, holder, command, step, cleared, running, gone, commands, dispatches>>

(* The model has answered; mark_used updates the row and so holds it.      *)
MarkUsed(d) ==
    /\ calling[d] # Nobody
    /\ Free(d, {calling[d]})
    /\ holder' = [holder EXCEPT ![calling[d]] = d]
    /\ calling' = [calling EXCEPT ![d] = Nobody]
    /\ UNCHANGED <<profile, command, step, cleared, cache, running, gone, commands, dispatches>>

(* Variant: the loaded profiles outlive the session.                       *)
EndDispatchKeepsCache(d) ==
    /\ d \in running
    /\ Release(d)
    /\ running' = running \ {d}
    /\ calling' = [calling EXCEPT ![d] = Nobody]
    /\ UNCHANGED <<profile, command, step, cleared, cache, gone, commands, dispatches>>

(* The dispatch commits, or fails at any point and is rolled back.         *)
EndDispatch(d) ==
    /\ d \in running
    /\ Release(d)
    /\ running' = running \ {d}
    /\ calling' = [calling EXCEPT ![d] = Nobody]
    /\ cache' = [cache EXCEPT ![d] = {}]
    /\ gone' = [gone EXCEPT ![d] = {}]
    /\ UNCHANGED <<profile, command, step, cleared, commands, dispatches>>

CommandStep(c) ==
    \/ StartClearing(c) \/ ClearDefault(c) \/ CommitDefault(c) \/ RefuseDefault(c) \/ CommitRevoke(c)
    \/ \E result \in {"ok", "failed"} : CommitTest(c, result)

Next ==
    \/ \E c \in Commands :
          \/ \E op \in Ops, p \in Profiles : Receive(c, op, p)
          \/ CommandStep(c)
    \/ \E d \in Dispatches :
          \/ BeginDispatch(d) \/ MarkUsed(d) \/ EndDispatch(d)
          \/ \E p \in Profiles : CallModel(d, p)

Spec == Init /\ [][Next]_vars

(* The database grants a row to those who wait for it, and a dispatch ends *)
(* although its calls may fail.                                            *)
FairSpec ==
    /\ Spec
    /\ \A c \in Commands : SF_vars(CommandStep(c))
    /\ \A d \in Dispatches : WF_vars(EndDispatch(d))

-----------------------------------------------------------------------------
(* At most one active profile of a usage is the default, although the      *)
(* reset and the new default are two statements and the reset does not see *)
(* rows that others are about to insert (create_profile, set_default).     *)
OneActiveDefault ==
    \A p, q \in Profiles :
        p # q /\ Usage[p] = Usage[q] /\ profile[p].status = "active" /\ profile[q].status = "active"
        => ~(profile[p].default /\ profile[q].default)

(* An active profile has its key and a revoked one has none (revoke).      *)
KeyIffActive == \A p \in Profiles : profile[p].key <=> profile[p].status = "active"

(* A revoked profile stays revoked, whatever commands read the row before  *)
(* the revocation and write it after (set_default, mark_test_result).      *)
RevocationIsFinal ==
    [][\A p \in Profiles : profile[p].status = "revoked" => profile'[p].status = "revoked"]_vars

(* A dispatch that begins after a revocation never calls a model with the  *)
(* revoked key; one under way may, with the profile it has loaded          *)
(* (build_chat_gateway).                                                   *)
RevokedBeforeIsNotCalled == \A d \in running : calling[d] \notin gone[d]

HasDefault(u) ==
    \E p \in Profiles : Usage[p] = u /\ profile[p].status = "active" /\ profile[p].default

(* An owner with a default is left without one only when a profile of that *)
(* usage is revoked: not by a refused command, and not by one that chooses *)
(* another profile (_clear_default, revoke).                               *)
DefaultLostByRevocation ==
    [][\A u \in {"chat", "embedding"} :
          HasDefault(u) /\ ~HasDefault(u)' =>
             \E c \in Commands : command[c].op \in {"use", "revoke"}
                                 /\ Usage[command[c].of] = u
                                 /\ profile'[command[c].of].status = "revoked"]_vars

(* Every command is answered, although dispatches hold the rows of the     *)
(* profiles they have used.                                                *)
CommandAnswered == \A c \in Commands : command[c] # Idle ~> command[c] = Idle

=============================================================================
