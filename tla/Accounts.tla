------------------------------ MODULE Accounts ------------------------------
(***************************************************************************)
(* Accounts and what guards them: registration and its system setting,     *)
(* login and the rotation of refresh tokens.  Tokens that are still good   *)
(* are kept in the memory of the process that issued them; a restart       *)
(* forgets them.  One user and one e-mail address are modelled.            *)
(***************************************************************************)
EXTENDS Naturals, FiniteSets

CONSTANTS
    Processes,     \* BFF processes
    Logins,       \* concurrent requests
    MaxTokens      \* bound on refresh tokens ever issued

ASSUME AccountsAssumption == MaxTokens \in Nat

NoToken == 0
Tokens == 1 .. MaxTokens
Roles == {"", "admin"}
NoUser == "none"

VARIABLES
    role,       \* role of the user's document, NoUser when there is none
    setting,    \* system/settings: [exists, enabled, announcement]
    envEnabled, \* REGISTRATION_ENABLED, "unset" if it is not set
    active,     \* active[p]: tokens in refreshTokenStore of process p
    family,     \* history: the login a token descends from, by its first token
    issued,     \* tokens issued so far
    client      \* client[c]: a login, refresh or registration

accountVars == <<role, setting, envEnabled, active, family, issued, client>>

AtRest == [at |-> "idle", process |-> NoUser, token |-> NoToken, role |-> ""]

AccountsInit ==
    /\ role = NoUser
    /\ setting = [exists |-> FALSE, enabled |-> "unset", announcement |-> FALSE]
    /\ envEnabled \in {"unset", "true", "false"}
    /\ active = [p \in Processes |-> {}]
    /\ family = [t \in Tokens |-> NoToken]
    /\ issued = 0
    /\ client = [c \in Logins |-> AtRest]

Goes(c, at) == client' = [client EXCEPT ![c].at = at]

-----------------------------------------------------------------------------
(* System settings *)

(* A document without the field counts as closed. *)
Resolve(s) ==
    IF s.exists THEN s.enabled = "true" ELSE envEnabled # "false"

SetRegistrationEnabled(enabled) ==
    /\ setting' = [setting EXCEPT !.exists = TRUE, !.enabled = enabled]
    /\ UNCHANGED <<role, envEnabled, active, family, issued, client>>

(* Only the announcement is merged into the document. *)
PublishAnnouncement ==
    /\ setting' = [setting EXCEPT !.exists = TRUE, !.announcement = ~@]
    /\ UNCHANGED <<role, envEnabled, active, family, issued, client>>

-----------------------------------------------------------------------------
(* Registration and the user's document *)

(* Gate, then GetUserByEmail: any error of the lookup counts as unknown.    *)
RegisterBegins(c) ==
    /\ client[c].at = "idle" /\ Resolve(setting)
    /\ \E found \in {role # NoUser, FALSE} :
           IF found THEN UNCHANGED client ELSE Goes(c, "register")
    /\ UNCHANGED <<role, setting, envEnabled, active, family, issued>>

(* CreateUser; the registration token has no type and no refresh token.     *)
CreateUser(c) ==
    /\ client[c].at = "register"
    /\ role' = ""
    /\ Goes(c, "idle")
    /\ UNCHANGED <<setting, envEnabled, active, family, issued>>

AdminUpdateUser(r) ==
    /\ role # NoUser
    /\ role' = r
    /\ UNCHANGED <<setting, envEnabled, active, family, issued, client>>

UserDeleted ==
    /\ role # NoUser
    /\ role' = NoUser
    /\ UNCHANGED <<setting, envEnabled, active, family, issued, client>>

-----------------------------------------------------------------------------
(* Tokens *)

(* Login: the credentials are checked against the document. *)
LoginHandler(c, p) ==
    /\ client[c].at = "idle" /\ role # NoUser /\ issued < MaxTokens
    /\ client' = [client EXCEPT ![c] = [at |-> "issue", process |-> p,
                                        token |-> NoToken, role |-> role]]
    /\ UNCHANGED <<role, setting, envEnabled, active, family, issued>>

(* Mutant: a refresh token is not consumed.                                *)
ValidateOnly(c, p, t) ==
    /\ client[c].at = "idle" /\ issued < MaxTokens /\ t \in active[p]
    /\ client' = [client EXCEPT ![c] = [AtRest EXCEPT !.at = "lookup", !.process = p, !.token = t]]
    /\ UNCHANGED <<role, setting, envEnabled, active, family, issued>>

(* validateRefreshToken takes the token out of the store under its mutex;   *)
(* one that is not there, or has expired there, is refused.                 *)
validateRefreshToken(c, p, t) ==
    /\ client[c].at = "idle" /\ issued < MaxTokens /\ t \in active[p]
    /\ active' = [active EXCEPT ![p] = @ \ {t}]
    /\ \E expired \in BOOLEAN :
           client' = IF expired THEN client
                     ELSE [client EXCEPT ![c] = [AtRest EXCEPT !.at = "lookup", !.process = p, !.token = t]]
    /\ UNCHANGED <<role, setting, envEnabled, family, issued>>

(* GetUser: without the user, or when it cannot be read, the token is spent *)
(* and nothing takes its place.                                             *)
RefreshLookup(c) ==
    /\ client[c].at = "lookup"
    /\ \/ role # NoUser /\ client' = [client EXCEPT ![c].at = "issue", ![c].role = role]
       \/ client' = [client EXCEPT ![c] = AtRest]
    /\ UNCHANGED <<role, setting, envEnabled, active, family, issued>>

(* GenerateRefreshToken records the token in this process. *)
GenerateRefreshToken(c) ==
    LET t == issued + 1  q == client[c] IN
    /\ q.at = "issue" /\ issued < MaxTokens
    /\ issued' = t
    /\ active' = [active EXCEPT ![q.process] = @ \cup {t}]
    /\ family' = [family EXCEPT ![t] = IF q.token = NoToken THEN t ELSE family[q.token]]
    /\ client' = [client EXCEPT ![c] = AtRest]
    /\ UNCHANGED <<role, setting, envEnabled>>

ProcessRestarts(p) ==
    /\ active' = [active EXCEPT ![p] = {}]
    /\ client' = [c \in Logins |-> IF client[c].process = p THEN AtRest ELSE client[c]]
    /\ UNCHANGED <<role, setting, envEnabled, family, issued>>

-----------------------------------------------------------------------------

AccountsNext ==
    \/ \E b \in {"true", "false"} : SetRegistrationEnabled(b)
    \/ PublishAnnouncement
    \/ \E c \in Logins :
        \/ RegisterBegins(c) \/ CreateUser(c)
        \/ \E p \in Processes : LoginHandler(c, p)
        \/ \E p \in Processes, t \in Tokens : validateRefreshToken(c, p, t)
        \/ RefreshLookup(c) \/ GenerateRefreshToken(c)
    \/ \E r \in Roles : AdminUpdateUser(r)
    \/ UserDeleted
    \/ \E p \in Processes : ProcessRestarts(p)

AccountsSpec == AccountsInit /\ [][AccountsNext]_accountVars

-----------------------------------------------------------------------------
(* Properties *)

(* "The cookie is single-use and is rotated on success": however refreshes  *)
(* overlap, of all tokens that descend from one login at most one is good   *)
(* or about to be issued.                                                   *)
OneTokenPerLogin ==
    LET Good(f) == {t \in UNION {active[p] : p \in Processes} : family[t] = f}
        InFlight(f) == {c \in Logins : client[c].at \in {"lookup", "issue"}
                            /\ client[c].token # NoToken /\ family[client[c].token] = f}
    IN  \A f \in Tokens : Cardinality(Good(f)) + Cardinality(InFlight(f)) <= 1
=============================================================================
