------------------------------ MODULE Providers ------------------------------
(***************************************************************************)
(* Provider credentials: the vault's rows (db/queries.rs), the settings    *)
(* panel that edits them and shows what it believes they are, the OAuth    *)
(* login and the token refreshes that boots and gateway requests start in  *)
(* the background (oauth.rs), and what Codex with its auth gateway and     *)
(* opencode are given of them.  A login is a number and a refresh token is *)
(* one login's n-th; refreshing gives the next and the server accepts no   *)
(* other.                                                                  *)
(*                                                                         *)
(* Left out: hosts, labels, encryption and opencode's auth.json.  What a   *)
(* gateway does with a request is Gateway's.  The two reads at the end of a*)
(* refresh are one step with the write after them.  A token the server     *)
(* granted that never reaches the vault ends the login: `lost`.            *)
(***************************************************************************)
EXTENDS Naturals

CONSTANTS Refreshers,   \* tasks that may refresh at one time: boots and gateway requests
          MaxLogins,    \* bound: OAuth logins
          MaxRefreshes  \* bound: refreshes of one login

ASSUME ProvidersAssumption == MaxLogins \in Nat /\ MaxRefreshes \in Nat

OpenAI == "OPENAI_API_KEY"
OpenRouter == "OPENROUTER_API_KEY"
ProviderVars == {OpenAI, OpenRouter}   \* one_of of Codex

VARIABLES vault,    \* secrets: method; value, refresh and id, each a login's (0: an API key's, or
                    \* none); serial of the refresh token; near, about to expire; enabled
          rows,     \* SettingsPanel.secret_rows: saved, method, enabled; per provider
          oauth,    \* status (oauth_status), cancel (is oauth_cancel there), login: "none",
                    \* "spawned", "waiting" (the main thread in join) or "cancelled"
          server,   \* the provider's side: logins so far, and the serial each accepts
          refresher,\* at: "idle", "sent", "answered", or "unheard" (on its way, its caller gone);
                    \* the token sent; the serial granted or 0
          boot,     \* boot_agent_tab under way: at, agent, required, gateway, its refresh
                    \* (task) and the secrets its sandbox is given in plain
          gateway,  \* secret_env_var of the gateway of the agent booted last, if it has one
          overlapped, \* a refresh was outstanding when something else wrote or removed the login
          lost      \* the logins of which the server granted a token that nobody will store
provider_vars == <<vault, rows, oauth, server, refresher, boot, gateway, overlapped, lost>>

NoSecret == [method |-> "none", value |-> 0, refresh |-> 0, serial |-> 0, id |-> 0, near |-> FALSE, enabled |-> TRUE]
NoBoot == [at |-> "none", agent |-> "none", required |-> {}, gateway |-> {}, task |-> {}, given |-> {}]
NoRefresh == [at |-> "idle", login |-> 0, serial |-> 0, granted |-> 0]
ApiKey(enabled) == [NoSecret EXCEPT !.method = "api_key", !.enabled = enabled]
has_secret(p) == vault[p].method # "none"
RowOf(p) == [saved |-> has_secret(p), method |-> IF has_secret(p) THEN vault[p].method ELSE "api_key", enabled |-> vault[p].enabled]
Free == oauth.login # "waiting"     \* the main thread can take an event
\* The controls the panel draws: for OpenAI's login, and in the row of a provider.
OAuthOffers ==
  CASE oauth.status \in {"Idle", "Error"} -> {"start"}
    [] oauth.status = "InProgress" -> {"cancel"}
    [] oauth.status = "Connected" -> {"sign out"}
RowOffers(p) ==
  IF rows[p].saved THEN {"switch"} \cup (IF rows[p].method = "oauth" THEN OAuthOffers \ {"start", "cancel"} ELSE {"remove"})
  ELSE IF rows[p].method = "oauth" THEN {} ELSE {"save"}
InFlight(r) == refresher[r].at \in {"sent", "answered"}     \* a task waits for it
Outstanding == \E r \in Refreshers : InFlight(r)
Overlaps == overlapped' = (overlapped \/ Outstanding)

ProvidersInit ==
  /\ vault = [p \in ProviderVars |-> NoSecret] /\ rows = [p \in ProviderVars |-> RowOf(p)]
  /\ oauth = [status |-> "Idle", cancel |-> FALSE, login |-> "none"]
  /\ server = [logins |-> 0, serial |-> [g \in 1 .. MaxLogins |-> 1]]
  /\ refresher = [r \in Refreshers |-> NoRefresh]
  /\ boot = NoBoot /\ gateway = {} /\ overlapped = FALSE /\ lost = {}

-----------------------------------------------------------------------------
\* The settings panel.  Saving an API key does not touch the other columns of a row
\* that is there; the field is shown only for a provider the panel has as not saved.
save_secret(p) ==
  /\ Free /\ "save" \in RowOffers(p)
  /\ vault' = [vault EXCEPT ![p] = IF has_secret(p) THEN [@ EXCEPT !.value = 0] ELSE ApiKey(TRUE)]
  /\ rows' = [rows EXCEPT ![p] = [saved |-> TRUE, method |-> "api_key", enabled |-> TRUE]]
  /\ oauth' = IF p = OpenAI THEN [oauth EXCEPT !.status = "Idle"] ELSE oauth
  /\ Overlaps
  /\ UNCHANGED <<server, refresher, boot, gateway, lost>>

\* Mistaken: the row keeps its method.
RemovesKeepingMethod(p) ==
  /\ rows[p].saved
  /\ vault' = [vault EXCEPT ![p] = NoSecret]
  /\ rows' = [rows EXCEPT ![p] = [@ EXCEPT !.saved = FALSE, !.enabled = TRUE]]
  /\ oauth' = IF p = OpenAI THEN [oauth EXCEPT !.status = "Idle"] ELSE oauth
  /\ UNCHANGED <<server, refresher, boot, gateway, lost>>

\* RemoveKey, and Sign out for an OAuth login.
remove_secret(p) ==
  /\ rows[p].saved
  /\ vault' = [vault EXCEPT ![p] = NoSecret]
  /\ rows' = [rows EXCEPT ![p] = [saved |-> FALSE, method |-> "api_key", enabled |-> TRUE]]
  /\ oauth' = IF p = OpenAI THEN [oauth EXCEPT !.status = "Idle"] ELSE oauth
  /\ UNCHANGED <<server, refresher, boot, gateway, lost>>
RemoveKey(p) ==
  /\ Free /\ RowOffers(p) \cap {"remove", "sign out"} # {}
  /\ remove_secret(p) /\ Overlaps

set_secret_enabled(p) ==
  /\ Free /\ "switch" \in RowOffers(p)
  /\ rows' = [rows EXCEPT ![p].enabled = ~@]
  /\ vault' = IF has_secret(p) THEN [vault EXCEPT ![p].enabled = ~rows[p].enabled] ELSE vault
  /\ UNCHANGED <<oauth, server, refresher, boot, gateway, overlapped, lost>>

\* Opening the panel reads the vault.  Bound: not while a login is on its way.
ReopenPanel ==
  /\ Free /\ oauth.login = "none"
  /\ rows' = [p \in ProviderVars |-> RowOf(p)]
  /\ oauth' = [oauth EXCEPT !.status = IF vault[OpenAI].method = "oauth" THEN "Connected" ELSE "Idle", !.cancel = FALSE]
  /\ UNCHANGED <<vault, server, refresher, boot, gateway, overlapped, lost>>

-----------------------------------------------------------------------------
\* The login.  Its task joins a thread on the main thread: from its first poll to
\* the callback or the timeout the panel takes no event.
start_oauth_login ==
  /\ Free /\ oauth.login = "none" /\ "start" \in OAuthOffers /\ server.logins < MaxLogins
  /\ oauth' = [status |-> "InProgress", cancel |-> TRUE, login |-> "spawned"]
  /\ UNCHANGED <<vault, rows, server, refresher, boot, gateway, overlapped, lost>>

cancel_oauth_login ==
  /\ Free /\ "cancel" \in OAuthOffers
  /\ oauth' = [status |-> "Idle", cancel |-> FALSE, login |-> "cancelled"]
  /\ UNCHANGED <<vault, rows, server, refresher, boot, gateway, overlapped, lost>>

LoginPolled ==
  /\ \/ oauth.login = "spawned" /\ oauth' = [oauth EXCEPT !.login = "waiting"]
     \/ oauth.login = "cancelled" /\ oauth' = [oauth EXCEPT !.login = "none"]
  /\ UNCHANGED <<vault, rows, server, refresher, boot, gateway, overlapped, lost>>

\* save_oauth_secret writes every column but enabled.
save_oauth_secret(g, serial, id) ==
  [vault[OpenAI] EXCEPT !.method = "oauth", !.value = g, !.refresh = g, !.serial = serial, !.id = id, !.near = FALSE]

LoginSucceeds ==
  LET g == server.logins + 1 IN
  /\ oauth.login = "waiting"
  /\ server' = [server EXCEPT !.logins = g]
  /\ vault' = [vault EXCEPT ![OpenAI] = save_oauth_secret(g, 1, g)]
  /\ rows' = [rows EXCEPT ![OpenAI] = [@ EXCEPT !.saved = TRUE, !.method = "oauth"]]
  /\ oauth' = [status |-> "Connected", cancel |-> FALSE, login |-> "none"]
  /\ Overlaps
  /\ UNCHANGED <<refresher, boot, gateway, lost>>

LoginFails ==
  /\ oauth.login = "waiting"
  /\ oauth' = [oauth EXCEPT !.status = "Error", !.cancel = FALSE, !.login = "none"]
  /\ UNCHANGED <<vault, rows, server, refresher, boot, gateway, overlapped, lost>>

-----------------------------------------------------------------------------
\* A refresh: read the token, ask the server, write what it grants.
NearsExpiry ==
  /\ vault[OpenAI].method = "oauth" /\ ~vault[OpenAI].near
  /\ vault' = [vault EXCEPT ![OpenAI].near = TRUE]
  /\ UNCHANGED <<rows, oauth, server, refresher, boot, gateway, overlapped, lost>>

NeedsRefresh == vault[OpenAI].method = "oauth" /\ vault[OpenAI].near /\ vault[OpenAI].refresh # 0

refresh_if_needed(r) ==
  /\ refresher[r].at = "idle" /\ NeedsRefresh
  /\ refresher' = [refresher EXCEPT ![r] = [at |-> "sent", login |-> vault[OpenAI].refresh,
                                            serial |-> vault[OpenAI].serial, granted |-> 0]]

Grants(r) == refresher[r].serial + 1

Accepts(r) == server.serial[refresher[r].login] = refresher[r].serial /\ refresher[r].serial <= MaxRefreshes
Rotates(g) == server' = [server EXCEPT !.serial[g] = @ + 1]

ServerAnswers(r) ==
  /\ refresher[r].at = "sent"
  /\ \/ /\ Accepts(r) /\ Rotates(refresher[r].login)
        /\ refresher' = [refresher EXCEPT ![r].at = "answered", ![r].granted = Grants(r)]
     \/ ~Accepts(r) /\ refresher' = [refresher EXCEPT ![r].at = "answered"] /\ UNCHANGED server
  /\ UNCHANGED <<vault, rows, oauth, boot, gateway, overlapped, lost>>

\* The caller goes without an answer: the request failed, or the agent that asked the
\* gateway hung up.  The request may still be on its way; one to be refused does not matter.
GivesUp(r) ==
  /\ refresher[r].at = "sent"
  /\ refresher' = [refresher EXCEPT ![r] = IF Accepts(r) THEN [@ EXCEPT !.at = "unheard"] ELSE NoRefresh]
  /\ UNCHANGED <<vault, rows, oauth, server, boot, gateway, overlapped, lost>>

\* The server gets it, and grants a token to nobody, or never does.
UnheardEnds(r) ==
  LET g == refresher[r].login IN
  /\ refresher[r].at = "unheard" /\ refresher' = [refresher EXCEPT ![r] = NoRefresh]
  /\ \/ Accepts(r) /\ Rotates(g) /\ lost' = lost \cup {g}
     \/ UNCHANGED <<server, lost>>
  /\ UNCHANGED <<vault, rows, oauth, boot, gateway, overlapped>>

\* The answer is cut off or unreadable, a read or the write after it fails, or the caller
\* goes between: what was granted is nowhere.
RefreshFails(r) ==
  /\ refresher[r].at = "answered" /\ refresher' = [refresher EXCEPT ![r] = NoRefresh]
  /\ lost' = IF refresher[r].granted # 0 THEN lost \cup {refresher[r].login} ELSE lost
  /\ UNCHANGED <<vault, rows, oauth, server, boot, gateway, overlapped>>

RefreshEnds(r) ==
  LET done == refresher[r] IN
  /\ done.at = "answered"
  /\ refresher' = [refresher EXCEPT ![r] = NoRefresh]
  /\ \/ done.granted = 0 /\ UNCHANGED vault
     \/ \E id \in {done.login, vault[OpenAI].id} :      \* a new id token, or the one that is there
          done.granted # 0 /\ vault' = [vault EXCEPT ![OpenAI] = save_oauth_secret(done.login, done.granted, id)]
  /\ UNCHANGED <<rows, oauth, server, boot, gateway, overlapped, lost>>

-----------------------------------------------------------------------------
\* What an agent is given (provider_resolve.rs).  All that Codex and opencode ask
\* for is optional: one of it must be usable.
load_provider_states == [p \in ProviderVars |-> [has_value |-> has_secret(p), enabled |-> vault[p].enabled]]
is_usable(s) == s.has_value /\ s.enabled
agent_need(required, handled) == [required |-> {}, one_of |-> required, gateway |-> handled]
resolve(states, need) ==
  LET usable == {p \in ProviderVars : is_usable(states[p])} IN
  [missing_required |-> need.required \ usable,
   missing_one_of |-> need.one_of # {} /\ need.one_of \cap usable = {},
   inject |-> ((need.required \cup need.one_of) \cap usable) \ need.gateway]
check_missing(required) ==
  LET r == resolve(load_provider_states, agent_need(required, {})) IN r.missing_required # {} \/ r.missing_one_of
build_secrets_map(required, handled) == resolve(load_provider_states, agent_need(required, handled)).inject

\* opencode takes an OAuth login from a file of its own; Codex goes through a gateway,
\* OpenRouter's if that is saved at all.
filter_required_secrets(agent) ==
  IF agent = "opencode" /\ vault[OpenAI].method = "oauth" THEN {OpenRouter} ELSE ProviderVars
auth_gateway_spec(agent) ==
  IF agent = "opencode" THEN {} ELSE IF has_secret(OpenRouter) THEN {OpenRouter} ELSE {OpenAI}

\* A boot (bound: one at a time).  What is missing is asked for; the boot goes on when
\* the settings close on it or the question is skipped, with the list as it is then.
\* Installing takes minutes; then the gateway is chosen and the logins in the list are
\* refreshed, and then the secrets are read.
boot_agent_tab(agent) ==
  boot' = [NoBoot EXCEPT !.at = "installing", !.agent = agent, !.required = filter_required_secrets(agent)]

BootAgent(agent) ==
  /\ Free /\ boot = NoBoot
  /\ IF check_missing(ProviderVars) THEN boot' = [NoBoot EXCEPT !.at = "prompted", !.agent = agent]
     ELSE boot_agent_tab(agent)
  /\ UNCHANGED <<vault, rows, oauth, server, refresher, gateway, overlapped, lost>>

ResumeBoot ==
  /\ Free /\ boot.at = "prompted" /\ boot_agent_tab(boot.agent)
  /\ UNCHANGED <<vault, rows, oauth, server, refresher, gateway, overlapped, lost>>

BootRefreshes(r) ==
  /\ boot.at = "installing"
  /\ LET gets == [boot EXCEPT !.at = "refreshing", !.gateway = auth_gateway_spec(boot.agent)]
         stale == OpenAI \in boot.required /\ NeedsRefresh
     IN IF stale THEN refresh_if_needed(r) /\ boot' = [gets EXCEPT !.task = {r}]
        ELSE boot' = gets /\ UNCHANGED refresher
  /\ UNCHANGED <<vault, rows, oauth, server, gateway, overlapped, lost>>

BootSecrets ==
  /\ boot.at = "refreshing" /\ \A r \in boot.task : ~InFlight(r)
  /\ boot' = [NoBoot EXCEPT !.at = "booting", !.given = build_secrets_map(boot.required, boot.gateway)]
  /\ gateway' \in {boot.gateway, {}}      \* starting it may fail
  /\ UNCHANGED <<vault, rows, oauth, server, refresher, overlapped, lost>>

SandboxBooted ==
  /\ boot.at = "booting" /\ boot' = NoBoot
  /\ UNCHANGED <<vault, rows, oauth, server, refresher, gateway, overlapped, lost>>

\* Every request through a gateway takes the credential from the vault, refreshed.
GatewayRequest(r) ==
  /\ OpenAI \in gateway /\ NeedsRefresh /\ refresh_if_needed(r)
  /\ UNCHANGED <<vault, rows, oauth, server, boot, gateway, overlapped, lost>>

ProvidersNext ==
  \/ \E p \in ProviderVars : save_secret(p) \/ RemoveKey(p) \/ set_secret_enabled(p)
  \/ ReopenPanel \/ start_oauth_login \/ cancel_oauth_login \/ LoginPolled \/ LoginSucceeds \/ LoginFails
  \/ NearsExpiry \/ (\E agent \in {"codex", "opencode"} : BootAgent(agent)) \/ ResumeBoot \/ BootSecrets \/ SandboxBooted
  \/ \E r \in Refreshers :
        \/ BootRefreshes(r) \/ GatewayRequest(r)
        \/ ServerAnswers(r) \/ RefreshEnds(r) \/ GivesUp(r) \/ UnheardEnds(r) \/ RefreshFails(r)

ProvidersSpec == ProvidersInit /\ [][ProvidersNext]_provider_vars

-----------------------------------------------------------------------------
\* As long as no removal, key or login was written under a refresh in flight, every row
\* of the panel says what the vault holds: refreshes, failed and cancelled logins
\* and switches never leave it behind (save_secret, remove_secret, start_oauth_login).
PanelTellsTruth == ~overlapped => \A p \in ProviderVars : rows[p] = RowOf(p)

\* Under the same condition the stored tokens are of one login, and its refresh token is
\* the one the server accepts, or the next one is on its way to the vault, or was granted
\* and lost: refreshes that race for one token do not sign the user out by themselves.
StoredLoginIsLive ==
  LET s == vault[OpenAI] IN
  (s.method = "oauth" /\ ~overlapped) =>
    /\ s.value = s.id /\ s.refresh = s.id
    /\ \/ s.serial = server.serial[s.refresh]
       \/ \E r \in Refreshers : refresher[r].granted = server.serial[s.refresh]
       \/ s.refresh \in lost

\* The panel, the vault and, until a granted token is lost, the provider's server agree
\* on the login.
LoginIsTrue == PanelTellsTruth /\ StoredLoginIsLive

\* What follows is said of the code, and the code does not keep it (README, section 7).

\* secrets.rs: "A secret that's saved but disabled in settings counts as missing - the user
\* has explicitly opted out of it for this provider."
OptedOutIsUnused == [][\A p \in gateway' \ gateway : vault[p].enabled]_provider_vars

\* opencode.rs: "Drop OPENAI_API_KEY from the MITM-proxy secrets list when it's stored
\* as OAuth".
OAuthIsNotInjected ==
  [][boot.agent = "opencode" /\ boot.at = "refreshing" /\ boot'.at = "booting" /\ OpenAI \in boot'.given
     => vault[OpenAI].method # "oauth"]_provider_vars
=============================================================================
