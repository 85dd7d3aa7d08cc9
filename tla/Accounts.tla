------------------------------ MODULE Accounts -------------------------------
(***************************************************************************)
(* One person's account and sessions: registration, signing in with a      *)
(* password or through GitHub, refreshing the session and signing out.     *)
(* The users table holds one refresh token per platform; every handler is  *)
(* a few separate statements, and a person's devices use them at once.     *)
(* Tokens are numbered in the order in which they were stored.             *)
(***************************************************************************)
EXTENDS Naturals

CONSTANTS
  Devices,        \* each sends one request at a time
  PlatformOf,     \* the platform of a device, "web" or "mobile"
  MaxTokens,      \* bound: tokens stored
  AccountFaults   \* the sets of failures a behaviour may be exposed to

Platforms == {"web", "mobile"}
AccountFaultKinds ==
  { "db",      \* a statement fails, and changes nothing
    "lost" }   \* the answer does not reach the device

ASSUME AccountsAssumption ==
  /\ PlatformOf \in [Devices -> Platforms]
  /\ MaxTokens \in Nat
  /\ AccountFaults \subseteq SUBSET AccountFaultKinds

VARIABLES
  accounts,      \* rows of users with this person's email
  tokens,        \* refresh_token_web and refresh_token_mobile, 0 for NULL
  stored,        \* tokens stored so far
  devices,       \* stage of each device's request, its token, the token on its way
  signedOut,     \* history: platforms that signed out
  accountFaults

accountsVars == <<accounts, tokens, stored, devices, signedOut, accountFaults>>

Requests == {"register", "login", "oauth", "refresh", "logout"}
AccountStages == Requests \cup {"idle", "create", "sign up", "save", "answer"}
AccountsTypeOK ==
  /\ accounts \in {0, 1}
  /\ tokens \in [Platforms -> 0..MaxTokens]
  /\ stored \in 0..MaxTokens
  /\ devices \in [Devices -> [stage : AccountStages, held : 0..MaxTokens, coming : 0..MaxTokens]]
  /\ signedOut \subseteq Platforms
  /\ accountFaults \in AccountFaults

AccountsInit ==
  /\ accounts = 0 /\ stored = 0 /\ signedOut = {}
  /\ tokens = [p \in Platforms |-> 0]
  /\ devices = [d \in Devices |-> [stage |-> "idle", held |-> 0, coming |-> 0]]
  /\ accountFaults \in AccountFaults

Goto(d, stage) == devices' = [devices EXCEPT ![d].stage = stage]

\* Refreshing needs a refresh token and signing out an access token; the GitHub
\* callback always signs in on the web.
Ask(d, request) ==
  /\ devices[d].stage = "idle"
  /\ request \in {"refresh", "logout"} => devices[d].held # 0
  /\ request = "oauth" => PlatformOf[d] = "web"
  /\ Goto(d, request)
  /\ UNCHANGED <<accounts, tokens, stored, signedOut, accountFaults>>

\* GetUserByRefreshToken for a refresh, GetUserByEmail for the others.
Known(d) == IF devices[d].stage = "refresh" THEN tokens[PlatformOf[d]] = devices[d].held
            ELSE accounts > 0

WhenKnown == [register |-> "idle", login |-> "save", oauth |-> "save", refresh |-> "save"]
\* A failed lookup is taken for an unknown account: a registration and a GitHub
\* sign-in go on to create it.
WhenUnknown == [register |-> "create", login |-> "idle", oauth |-> "sign up", refresh |-> "idle"]

LookupAccount(d) ==
  LET request == devices[d].stage
  IN /\ request \in DOMAIN WhenKnown
     /\ \/ Known(d) /\ Goto(d, WhenKnown[request])
        \/ (~Known(d) \/ "db" \in accountFaults) /\ Goto(d, WhenUnknown[request])
        \/ Known(d) /\ request = "login" /\ Goto(d, "idle")   \* wrong password
     /\ UNCHANGED <<accounts, tokens, stored, signedOut, accountFaults>>

\* email is UNIQUE: the insert that comes second fails.
CreateUser(d) ==
  /\ devices[d].stage \in {"create", "sign up"}
  /\ \/ /\ accounts = 0
        /\ accounts' = 1
        /\ Goto(d, IF devices[d].stage = "create" THEN "idle" ELSE "save")
     \/ /\ accounts > 0 \/ "db" \in accountFaults
        /\ Goto(d, "idle") /\ UNCHANGED accounts
  /\ UNCHANGED <<tokens, stored, signedOut, accountFaults>>

\* A store that writes the web column whatever the platform.
StoreOnWeb(d, token) == tokens' = [tokens EXCEPT !["web"] = token]

\* UpdateRefreshToken: by the user's id, whatever token is there now.
StoreToken(d, token) == tokens' = [tokens EXCEPT ![PlatformOf[d]] = token]

SaveToken(d) ==
  /\ devices[d].stage = "save"
  /\ \/ /\ stored < MaxTokens
        /\ stored' = stored + 1
        /\ StoreToken(d, stored')
        /\ devices' = [devices EXCEPT ![d].stage = "answer", ![d].coming = stored']
     \/ "db" \in accountFaults /\ Goto(d, "idle") /\ UNCHANGED <<tokens, stored>>
  /\ UNCHANGED <<accounts, signedOut, accountFaults>>

AnswerToken(d) ==
  /\ devices[d].stage = "answer"
  /\ \E arrives \in {TRUE} \cup IF "lost" \in accountFaults THEN {FALSE} ELSE {} :
       devices' = [devices EXCEPT ![d] = [stage |-> "idle", coming |-> 0,
                                          held |-> IF arrives THEN @.coming ELSE @.held]]
  /\ UNCHANGED <<accounts, tokens, stored, signedOut, accountFaults>>

\* DeleteUserRefreshToken: signs the whole platform out.
Logout(d) ==
  /\ devices[d].stage = "logout"
  /\ \/ /\ StoreToken(d, 0)
        /\ signedOut' = signedOut \cup {PlatformOf[d]}
        /\ devices' = [devices EXCEPT ![d].stage = "idle", ![d].held = 0]
     \/ "db" \in accountFaults /\ Goto(d, "idle") /\ UNCHANGED <<tokens, signedOut>>
  /\ UNCHANGED <<accounts, stored, accountFaults>>

AccountsNext == \E d \in Devices :
  \/ \E request \in Requests : Ask(d, request)
  \/ LookupAccount(d) \/ CreateUser(d) \/ SaveToken(d) \/ AnswerToken(d) \/ Logout(d)

AccountsSpec == AccountsInit /\ [][AccountsNext]_accountsVars

-----------------------------------------------------------------------------
On(p) == {d \in Devices : PlatformOf[d] = p}

\* Whatever the requests of several devices interleave to: a stored token is on
\* its way to one device or held by it, so that no sign-in or refresh leaves the
\* account with a session nobody can use, unless an answer was lost; and a
\* device finds its session gone only when another one of its platform has
\* signed in, refreshed or signed out, never by what the other platform does.
SessionHeld == "lost" \notin accountFaults => \A p \in Platforms :
  /\ tokens[p] # 0 => \E d \in On(p) : tokens[p] \in {devices[d].held, devices[d].coming}
  /\ tokens[p] = 0 => p \in signedOut \/ \A d \in On(p) : devices[d].held = 0
  /\ tokens[p] # 0 => accounts = 1
=============================================================================
