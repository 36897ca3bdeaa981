------------------------------- MODULE Session -------------------------------
(***************************************************************************)
(* Signing in and staying signed in.  The browser side is the token in     *)
(* localStorage, which every tab of the browser shares, and what a tab     *)
(* does when the API answers 401 (app/lib/auth.ts, app/lib/api-client.ts,  *)
(* AuthProvider, AuthSplash).  The server side is the row of `users` with  *)
(* the Google tokens of the login stored last, from which every invocation *)
(* builds its Gmail client, and the silent refreshes those clients make:   *)
(* a refreshed token is written back by a listener nobody waits for        *)
(* (src/providers/gmail/auth.ts).                                          *)
(*                                                                         *)
(* One account.  A login is numbered; its number stands for the JWT it     *)
(* ends with and for the grant, that is the refresh token, that Google     *)
(* gives it.  An access token is known by its grant and by whether its     *)
(* expiry date, stored with it, has come.                                  *)
(***************************************************************************)
EXTENDS Naturals, FiniteSets

CONSTANTS Tabs,       \* tabs of one browser
          Workers,    \* serverless invocations that need Gmail
          MaxLogins   \* bound: logins through Google's consent page

ASSUME MaxLoginsAssumption == MaxLogins \in Nat

VARIABLES token,    \* localStorage "vm-token": the login it was issued to,
                    \* Stale when it is older than seven days, or None
          page,     \* where each tab is
          reason,   \* sessionStorage "vm-signout-reason" of the tab is set
          login,    \* the login the tab is in the middle of, or None
          call,     \* the token the tab's open request carries, or NoCall
          logins,   \* number of logins that got past the consent page
          live,     \* grants that Google has not revoked
          user,     \* the tokens in the row of users, or NoUser
          writes,   \* grants of the refreshed tokens on their way to the row
          job       \* the Gmail request of each invocation

vars == <<token, page, reason, login, call, logins, live, user, writes, job>>
browser == <<token, page, reason, call>>
server == <<user, writes, job>>

Logins == 1 .. MaxLogins
None == 0
NoCall == MaxLogins + 1
Stale == MaxLogins + 2
Tokens == Logins \cup {None, Stale}
NoUser == [stored |-> FALSE]

\* An access token that Google issued under a grant; `due`: its expiry date
\* (token_expires_at, a few minutes early) has come.
AccessToken == [grant : Logins, due : BOOLEAN]
TokenRow == [access : AccessToken, refresh : Logins]
Idle == [at |-> "idle"]
Failed == [at |-> "failed"]
Client == [at : {"ready"}, access : AccessToken, refresh : Logins]

\* What the tab has on the screen, and the two stages of the server's half of a
\* login; "leaving" is a document whose location has been set but which still runs.
InMail == {"folder", "search"}
SigningIn == {"exchange", "persisted"}
Pages == InMail \cup SigningIn
         \cup {"splash", "notice", "error", "leaving"}

-----------------------------------------------------------------------------
\* verifyJwt: no token, or one past its seven days, is a 401.
Refused(t) == t \in {None, Stale}

\* forceSignOut: drop the shared token, keep or clear the reason, and go to "/".
ForceSignOut(t, isExpired) ==
    /\ token' = None
    /\ reason' = [reason EXCEPT ![t] = isExpired]
    /\ page' = [page EXCEPT ![t] = "leaving"]

\* "/" loads: AuthProvider looks for a token; without one AuthSplash takes the
\* reason, once.  The requests of the document that was left are gone.
Load(t) ==
    /\ page[t] \in {"leaving", "error"}
    /\ call' = [call EXCEPT ![t] = NoCall]
    /\ IF token # None
       THEN /\ page' = [page EXCEPT ![t] = "folder"]
            /\ UNCHANGED reason
       ELSE /\ page' = [page EXCEPT ![t] = IF reason[t] THEN "notice" ELSE "splash"]
            /\ reason' = [reason EXCEPT ![t] = FALSE]
    /\ UNCHANGED <<token, login, logins, live, server>>

\* "Continue with Google": the user agrees on the consent page, which with
\* access_type=offline and prompt=consent is a new grant ...
Consent(t) ==
    /\ page[t] \in {"splash", "notice"}
    /\ logins < MaxLogins
    /\ logins' = logins + 1
    /\ live' = live \cup {logins'}
    /\ login' = [login EXCEPT ![t] = logins']
    /\ page' = [page EXCEPT ![t] = "exchange"]
    /\ UNCHANGED <<token, reason, call, server>>

\* ... or denies, and the callback answers with an error.
Deny(t) ==
    /\ page[t] \in {"splash", "notice"}
    /\ page' = [page EXCEPT ![t] = "error"]
    /\ UNCHANGED <<token, reason, login, call, logins, live, server>>

\* exchangeCode stores both tokens and the expiry date in one upsert.
PersistTokens(t) ==
    /\ page[t] = "exchange"
    /\ user' = [access |-> [grant |-> login[t], due |-> FALSE], refresh |-> login[t]]
    /\ page' = [page EXCEPT ![t] = "persisted"]
    /\ UNCHANGED <<token, reason, login, call, logins, live, writes, job>>

\* Any step of the exchange, the watch or the first import fails: the tab shows
\* the error envelope, whether or not the tokens are stored by then.
ExchangeFails(t) ==
    /\ page[t] \in {"exchange", "persisted"}
    /\ page' = [page EXCEPT ![t] = "error"]
    /\ login' = [login EXCEPT ![t] = None]
    /\ UNCHANGED <<token, reason, call, logins, live, server>>

\* The handler signs a JWT and redirects to /auth/callback?token=...;
\* CallbackInner stores the token for every tab, this one shows the mail.
StoreToken(t) ==
    /\ page[t] = "persisted"
    /\ token' = login[t]
    /\ login' = [login EXCEPT ![t] = None]
    /\ page' = [page EXCEPT ![t] = "folder"]
    /\ UNCHANGED <<reason, call, logins, live, server>>

-----------------------------------------------------------------------------
\* The tab searches, which stops the poll, or goes back to a folder.
Search(t) ==
    /\ page[t] \in InMail
    /\ page' = [page EXCEPT ![t] = IF @ = "folder" THEN "search" ELSE "folder"]
    /\ UNCHANGED <<token, reason, login, call, logins, live, server>>

SignOut(t) ==
    /\ page[t] \in InMail
    /\ ForceSignOut(t, FALSE)
    /\ UNCHANGED <<login, call, logins, live, server>>

Reload(t) ==
    /\ page[t] \in InMail
    /\ page' = [page EXCEPT ![t] = "leaving"]
    /\ UNCHANGED <<token, reason, login, call, logins, live, server>>

\* apiFetch: the request carries the token that is stored now, if any.
ApiFetch(t) ==
    /\ call[t] = NoCall
    /\ call' = [call EXCEPT ![t] = token]
    /\ UNCHANGED <<token, page, reason, login, logins, live, server>>

\* The timer of the folder view; it goes on in a document that is being left.
Poll(t) == page[t] \in {"folder", "leaving"} /\ ApiFetch(t)

\* Search as you type, an action, Load more: no timer behind it.
UserCalls(t) == page[t] = "search" /\ ApiFetch(t)

\* Mutant of Unauthorized: the error is thrown and nobody signs out.
Unauthorized_Thrown(t) ==
    /\ page[t] \in InMail \cup {"leaving"}
    /\ call[t] # NoCall
    /\ Refused(call[t])
    /\ call' = [call EXCEPT ![t] = NoCall]
    /\ UNCHANGED <<token, page, reason, login, logins, live, server>>

\* parseResponse on a 401: sign out whoever is signed in by now.
Unauthorized(t) ==
    /\ page[t] \in InMail \cup {"leaving"}
    /\ call[t] # NoCall
    /\ Refused(call[t])
    /\ call' = [call EXCEPT ![t] = NoCall]
    /\ ForceSignOut(t, TRUE)
    /\ UNCHANGED <<login, logins, live, server>>

\* Any other answer, or none: the list or an error message is shown.
Answered(t) ==
    /\ call[t] # NoCall
    /\ ~ Refused(call[t])
    /\ call' = [call EXCEPT ![t] = NoCall]
    /\ UNCHANGED <<token, page, reason, login, logins, live, server>>

NetworkFails(t) ==
    /\ call[t] # NoCall
    /\ call' = [call EXCEPT ![t] = NoCall]
    /\ UNCHANGED <<token, page, reason, login, logins, live, server>>

-----------------------------------------------------------------------------
\* An invocation (a route or a delivery of the webhook, which needs no JWT)
\* builds its client from the row.
LoadOAuth2Client(w) ==
    /\ job[w] = Idle
    /\ user # NoUser
    /\ job' = [job EXCEPT ![w] =
                 [at |-> "ready", access |-> user.access, refresh |-> user.refresh]]
    /\ UNCHANGED <<browser, login, logins, live, user, writes>>

\* The client sees that the expiry date has come and refreshes before it asks;
\* its listener starts the write and does not wait for it.
SilentRefresh(w) ==
    /\ job[w].at = "ready"
    /\ job[w].access.due
    /\ job[w].refresh \in live
    /\ job' = [job EXCEPT ![w].access = [grant |-> job[w].refresh, due |-> FALSE]]
    /\ writes' = writes \cup {job[w].refresh}
    /\ UNCHANGED <<browser, login, logins, live, user>>

\* Gmail answers the request, or refuses it because the grant was revoked; a
\* refresh under a revoked grant fails as well.
GmailAnswers(w) ==
    /\ job[w].at = "ready"
    /\ ~ job[w].access.due
    /\ job' = [job EXCEPT ![w] =
                 IF job[w].access.grant \in live THEN Idle ELSE Failed]
    /\ UNCHANGED <<browser, login, logins, live, user, writes>>

RefreshFails(w) ==
    /\ job[w].at = "ready"
    /\ job[w].access.due
    /\ job[w].refresh \notin live
    /\ job' = [job EXCEPT ![w] = Failed]
    /\ UNCHANGED <<browser, login, logins, live, user, writes>>

\* The error is answered (502, 500), never a 401.
Returns(w) ==
    /\ job[w] = Failed
    /\ job' = [job EXCEPT ![w] = Idle]
    /\ UNCHANGED <<browser, login, logins, live, user, writes>>

\* Mutant of UpdateUserTokens: the listener also writes the refresh token its
\* client was built with.
UpdateUserTokens_Both(g) ==
    /\ g \in writes
    /\ user' = [access |-> [grant |-> g, due |-> FALSE], refresh |-> g]
    /\ writes' = writes \ {g}
    /\ UNCHANGED <<browser, login, logins, live, job>>

\* updateUserTokens, called by the listener: the access token and its expiry
\* date, in one update; the refresh token of the row stays.
UpdateUserTokens(g) ==
    /\ g \in writes
    /\ user' = [user EXCEPT !.access = [grant |-> g, due |-> FALSE]]
    /\ writes' = writes \ {g}
    /\ UNCHANGED <<browser, login, logins, live, job>>

\* The invocation is over before the write is: it is lost.
WriteLost(g) ==
    /\ g \in writes
    /\ writes' = writes \ {g}
    /\ UNCHANGED <<browser, login, logins, live, user, job>>

-----------------------------------------------------------------------------
\* An hour passes for the stored access token, a week for a JWT.
AccessTokenExpires ==
    /\ user # NoUser
    /\ ~ user.access.due
    /\ user' = [user EXCEPT !.access.due = TRUE]
    /\ UNCHANGED <<browser, login, logins, live, writes, job>>

JwtExpires(l) ==
    /\ l \in {token} \cup {call[t] : t \in Tabs}
    /\ token' = IF token = l THEN Stale ELSE token
    /\ call' = [t \in Tabs |-> IF call[t] = l THEN Stale ELSE call[t]]
    /\ UNCHANGED <<page, reason, login, logins, live, server>>

\* The user removes the app's access in the Google account, which ends every
\* grant; not in the seconds another tab's login takes.
Revoke ==
    /\ live # {}
    /\ \A t \in Tabs : login[t] = None
    /\ live' = {}
    /\ UNCHANGED <<browser, login, logins, server>>

-----------------------------------------------------------------------------
Init ==
    /\ token = None
    /\ page = [t \in Tabs |-> "splash"]
    /\ reason = [t \in Tabs |-> FALSE]
    /\ login = [t \in Tabs |-> None]
    /\ call = [t \in Tabs |-> NoCall]
    /\ logins = 0
    /\ live = {}
    /\ user = NoUser
    /\ writes = {}
    /\ job = [w \in Workers |-> Idle]

Next ==
    \/ \E t \in Tabs :
          \/ Load(t) \/ Consent(t) \/ Deny(t)
          \/ PersistTokens(t) \/ ExchangeFails(t)
          \/ StoreToken(t) \/ Search(t) \/ SignOut(t) \/ Reload(t)
          \/ Poll(t) \/ UserCalls(t)
          \/ Unauthorized(t) \/ Answered(t) \/ NetworkFails(t)
    \/ \E w \in Workers :
          \/ LoadOAuth2Client(w) \/ SilentRefresh(w)
          \/ GmailAnswers(w) \/ RefreshFails(w) \/ Returns(w)
    \/ \E g \in Logins : UpdateUserTokens(g) \/ WriteLost(g) \/ JwtExpires(g)
    \/ AccessTokenExpires
    \/ Revoke

\* A document that is being left unloads and the poll's timer runs; the API
\* answers, and the network does not swallow every refusal; invocations and
\* their writes end; an hour passes.  Nothing is assumed of the user.
Fairness ==
    /\ \A t \in Tabs : /\ WF_vars(Load(t))
                       /\ WF_vars(Poll(t))
                       /\ WF_vars(Answered(t))
                       /\ SF_vars(Unauthorized(t))
    /\ \A w \in Workers : /\ WF_vars(SilentRefresh(w))
                          /\ WF_vars(GmailAnswers(w))
                          /\ WF_vars(RefreshFails(w))
                          /\ WF_vars(Returns(w))
    /\ \A g \in Logins : WF_vars(UpdateUserTokens(g))
    /\ WF_vars(AccessTokenExpires)

Spec == Init /\ [][Next]_vars /\ Fairness

-----------------------------------------------------------------------------
\* Types of the variables; a JWT is only ever stored after its login's tokens
\* are in the row, so a stored token implies a row.
TypeOK ==
    /\ token \in Tokens
    /\ page \in [Tabs -> Pages]
    /\ reason \in [Tabs -> BOOLEAN]
    /\ login \in [Tabs -> Logins \cup {None}]
    /\ call \in [Tabs -> Tokens \cup {NoCall}]
    /\ logins \in 0 .. MaxLogins
    /\ live \subseteq 1 .. logins
    /\ user \in TokenRow \cup {NoUser}
    /\ writes \subseteq Logins
    /\ job \in [Workers -> Client \cup {Idle, Failed}]
    /\ token # None => user # NoUser

\* Once the user is signed in by a login whose grant Google keeps, Gmail
\* requests stop failing, whatever an older login's invocations still write
\* into the row: a late silent refresh can put back an access token of a dead
\* grant for an hour, never the refresh token (auth.ts attachTokensListener).
RequestsRecover ==
    <>[](token \in live) => <>[](\A w \in Workers : job[w] # Failed)

\* No tab goes on showing a folder with a session that is over: whether the
\* JWT expired or another tab signed out, the poll's next answer takes the tab
\* to the sign-in page (api-client.ts parseResponse), unless a login in another
\* tab renews the session first.
SessionEnds ==
    \A t \in Tabs : []<>(page[t] # "folder" \/ ~ Refused(token))

\* "An expired or invalid JWT is unrecoverable in-app: drop the token"
\* (api-client.ts:62): what is dropped is the token stored at that time.  Not
\* checked by a run: a late 401 for the old token ends the session that a login
\* in another tab has just begun.
DroppedOnlyIfRefused ==
    [][\A t \in Tabs : Unauthorized(t) => Refused(token)]_vars
=============================================================================
