-------------------------------- MODULE Sessions --------------------------------
(***************************************************************************)
(* The session of one user: refresh tokens and their rotation, password    *)
(* reset, the cookies of one browser, and the web client's api() with its  *)
(* refresh on 401 and its retry on a CSRF 403, in one or more tabs.        *)
(*                                                                         *)
(* A call in flight is a record with its next step: a step of the client,  *)
(* a request and its answer, or one statement of the server's transaction. *)
(* Cookies change when an answer arrives.  Other calls run in between.     *)
(*                                                                         *)
(* Left out: the password itself and its comparison, choosing a tenant by  *)
(* slug, throttling, and the two-day lifetime of the refresh cookie.       *)
(***************************************************************************)
EXTENDS Naturals, FiniteSets

CONSTANTS
  Token,        \* refresh tokens, in order of issue
  Link,         \* password reset tokens, in order of issue
  Call,         \* executions of api() that may be in flight together
  Tab,          \* tabs of the browser
  Csrf,         \* values of the CSRF token
  Limits,       \* instances: the tab of each call, calls together, faults, operations,
                \* and whether the page may read the CSRF cookie of the API's origin
  NoToken, NoCall

Operations == {"me", "read", "write", "logout"}
Public == {"login", "forgot", "reset"}

ASSUME TokenAssumption ==
  /\ IsFiniteSet(Token) /\ Token = 1 .. Cardinality(Token) /\ Token # {}
  /\ IsFiniteSet(Link) /\ Link = 1 .. Cardinality(Link)
ASSUME NamesAssumption == NoToken \notin Token \cup Link \cup Csrf /\ NoCall \notin Call
ASSUME LimitsAssumption ==
  Limits \subseteq [tab : [Call -> Tab], serial : BOOLEAN, legible : BOOLEAN, faults : 0 .. 2, calls : 1 .. 5,
                    ops : SUBSET (Operations \cup Public \cup {"deactivate"})]

VARIABLES
  token,     \* refresh_tokens: "none", "live" or "revoked"
  holder,    \* the call whose transaction has written a token's row
  link,      \* password_reset_tokens: "none", "live" or "used"
  active,    \* users.isActive, and neither the user nor the tenant deleted
  cookie,    \* the browser's jar: access, refresh, csrf
  memory,    \* csrfTokenMemory of each tab
  screen,    \* AuthProvider's status of each tab
  call,      \* calls in flight
  begun,     \* calls made
  limits, faults,
  \* History, read by nobody:
  parent,    \* the token a token replaced
  early,     \* tokens that were live when a password reset ended the sessions
  crossed    \* tokens whose refresh committed while a reset was about to end theirs

serverVars == <<token, holder, link, active>>
vars == <<serverVars, cookie, memory, screen, call, begun, limits, faults, parent, early, crossed>>

Jar == [access : BOOLEAN, refresh : Token \cup {NoToken}, csrf : Csrf \cup {NoToken}]
Steps == {"idle", "ensure", "csrf", "send", "served", "unauthorized", "forbidden",
          "again", "fresh", "rensure", "rcsrf", "post", "rread", "revoke", "commit", "rotated",
          "renew", "fetch", "renewed", "expired", "out", "left", "gone", "issue",
          "signed", "warm", "wcsrf", "warmed", "kick", "kicked"}
Calling == [pc : Steps, op : Operations \cup Public, retried : BOOLEAN,
            csrfRetried : BOOLEAN, header : Csrf \cup {NoToken},
            t : Token \cup {NoToken}, seen : SUBSET Token, l : Link \cup {NoToken}]
Silent == [pc |-> "idle", op |-> "read", retried |-> FALSE, csrfRetried |-> FALSE,
           header |-> NoToken, t |-> NoToken, seen |-> {}, l |-> NoToken]

Live == {t \in Token : token[t] = "live"}
Unused(S, f) == {x \in S : f[x] = "none"}
FirstOf(S) == CHOOSE x \in S : \A y \in S : x <= y

\* The browser holds the first refresh token; where /auth/me is no operation of
\* the instance the dashboard has loaded.
Init ==
  /\ limits \in Limits
  /\ token = [t \in Token |-> IF t = 1 THEN "live" ELSE "none"]
  /\ holder = [t \in Token |-> NoCall]
  /\ link = [l \in Link |-> "none"]
  /\ active = TRUE
  /\ \E a \in BOOLEAN : cookie = [access |-> a, refresh |-> 1, csrf |-> NoToken]
  /\ memory = [b \in Tab |-> NoToken]
  /\ screen = [b \in Tab |-> IF "me" \in limits.ops THEN "loading" ELSE "authenticated"]
  /\ call = [k \in Call |-> Silent]
  /\ begun = 0 /\ faults = 0
  /\ parent = [t \in Token |-> NoToken]
  /\ early = {} /\ crossed = {}

At(k, l) == call[k].pc = l
Goto(k, l) == call' = [call EXCEPT ![k].pc = l]
End(k) == call' = [call EXCEPT ![k] = Silent]
TabOf(k) == limits.tab[k]
Fault == faults < limits.faults /\ faults' = faults + 1
history == <<parent, early, crossed>>
client == <<cookie, memory, screen>>

\* A call begins: in a serial instance, only when no other is in flight.
Start(k, op, pc) ==
  /\ op \in limits.ops /\ At(k, "idle") /\ begun < limits.calls
  /\ limits.serial => \A k2 \in Call : At(k2, "idle")
  /\ call' = [call EXCEPT ![k] = [Silent EXCEPT !.op = op, !.pc = pc]]
  /\ begun' = begun + 1

\* A new CSRF value: any that no cookie, tab or request has now.
Fresh == {c \in Csrf : /\ c # cookie.csrf
                       /\ \A b \in Tab : memory[b] # c
                       /\ \A k \in Call : call[k].header # c}
NewCsrf == CHOOSE c \in Fresh : TRUE

\* What the answers to a login, a refresh and a logout do to the jar.
SetAuthCookies(t) == cookie' = [access |-> TRUE, refresh |-> t, csrf |-> NewCsrf]
ClearAuthCookies == cookie' = [access |-> FALSE, refresh |-> NoToken, csrf |-> NoToken]

--------------------------------------------------------------------------------
(* The client: api().                                                      *)

Begin(k, op) ==
  /\ Start(k, op, IF op \in {"me", "read"} THEN "send" ELSE "ensure")
  /\ op \in Operations
  /\ screen[TabOf(k)] = IF op = "me" THEN "loading" ELSE "authenticated"
  /\ UNCHANGED <<serverVars, client, limits, faults, history>>

\* ensureCsrfToken: what the tab remembers, or what it reads in the cookie, or else
\* what the API gives it.
getCachedCsrfToken(k) ==
  LET m == memory[TabOf(k)] IN IF m = NoToken /\ limits.legible THEN cookie.csrf ELSE m
EnsureCsrf(k, here, fetch, next) ==
  LET c == getCachedCsrfToken(k) IN
  /\ At(k, here) /\ memory' = [memory EXCEPT ![TabOf(k)] = c]
  /\ call' = [call EXCEPT ![k].pc = IF c = NoToken THEN fetch ELSE next, ![k].header = c]
  /\ UNCHANGED <<serverVars, cookie, screen, begun, limits, faults, history>>

\* GET /auth/csrf sets a new value in the cookie, and the tab remembers it; or the
\* request fails.
FetchCsrf(k, here, next, failed) ==
  /\ At(k, here) /\ Fresh # {}
  /\ \/ /\ cookie' = [cookie EXCEPT !.csrf = NewCsrf]
        /\ memory' = [memory EXCEPT ![TabOf(k)] = NewCsrf]
        /\ call' = [call EXCEPT ![k].pc = next, ![k].header = NewCsrf]
        /\ UNCHANGED faults
     \/ Fault /\ Goto(k, failed) /\ UNCHANGED <<cookie, memory>>
  /\ UNCHANGED <<serverVars, screen, begun, limits, history>>

\* CsrfGuard asks for a matching header only when the session's cookie is there.
CsrfGuard(k) == cookie.access => call[k].header # NoToken /\ call[k].header = cookie.csrf

\* JwtStrategy.validate looks the user up on every request.
Validate == cookie.access /\ active

\* The request reaches the server: the guards answer, or the handler does.
Send(k) ==
  /\ At(k, "send") /\ call[k].op # "logout"
  /\ \/ /\ Goto(k, IF ~Validate THEN "unauthorized"
                   ELSE IF call[k].op = "write" /\ ~CsrfGuard(k) THEN "forbidden"
                   ELSE "served")
        /\ UNCHANGED faults
     \/ Fault /\ Goto(k, "gone")  \* no answer: the call throws
  /\ UNCHANGED <<serverVars, client, begun, limits, history>>

\* AuthProvider shows the dashboard once /auth/me has answered, and asks for a
\* CSRF token beforehand.
Served(k) ==
  /\ At(k, "served")
  /\ IF call[k].op = "me"
     THEN Goto(k, "warm") /\ screen' = [screen EXCEPT ![TabOf(k)] = "authenticated"]
     ELSE End(k) /\ UNCHANGED screen
  /\ UNCHANGED <<serverVars, cookie, memory, begun, limits, faults, history>>

\* The login page leaves for the dashboard once it has asked too.
Warmed(k) ==
  /\ At(k, "warmed") /\ End(k)
  /\ screen' = IF call[k].op = "login" THEN [screen EXCEPT ![TabOf(k)] = "loading"] ELSE screen
  /\ UNCHANGED <<serverVars, cookie, memory, begun, limits, faults, history>>

\* A call that throws.  The tab forgets the session when the call was /auth/me,
\* and when it was the logout, whatever became of the token.
Gone(k) ==
  /\ At(k, "gone") /\ End(k)
  /\ IF call[k].op \in {"me", "logout"}
     THEN /\ memory' = [memory EXCEPT ![TabOf(k)] = NoToken]
          /\ screen' = [screen EXCEPT ![TabOf(k)] = "anonymous"]
     ELSE UNCHANGED <<memory, screen>>
  /\ UNCHANGED <<serverVars, cookie, begun, limits, faults, history>>

\* A 401 is answered by one refresh and one more try.
Unauthorized(k) ==
  /\ At(k, "unauthorized")
  /\ Goto(k, IF call[k].retried THEN "expired" ELSE "rensure")
  /\ UNCHANGED <<serverVars, client, begun, limits, faults, history>>

\* Mutant: every 403 is answered by one more try.
Forbidden_Always(k) ==
  /\ At(k, "forbidden")
  /\ memory' = [memory EXCEPT ![TabOf(k)] = NoToken]
  /\ call' = [call EXCEPT ![k].pc = "again", ![k].header = NoToken]
  /\ UNCHANGED <<serverVars, cookie, screen, begun, limits, faults, history>>

\* Mutant: the retry sends the token that was refused.
Forbidden_KeepsToken(k) ==
  /\ At(k, "forbidden")
  /\ IF call[k].csrfRetried THEN Goto(k, "gone")
     ELSE call' = [call EXCEPT ![k].pc = "again", ![k].csrfRetried = TRUE]
  /\ UNCHANGED <<serverVars, client, begun, limits, faults, history>>

\* A CSRF 403 is answered by a new token and one more try; without one it throws.
Forbidden(k) ==
  /\ At(k, "forbidden")
  /\ IF call[k].csrfRetried THEN Goto(k, "gone") /\ UNCHANGED memory
     ELSE /\ memory' = [memory EXCEPT ![TabOf(k)] = NoToken]
          /\ call' = [call EXCEPT ![k].pc = "again", ![k].csrfRetried = TRUE,
                                  ![k].header = NoToken]
  /\ UNCHANGED <<serverVars, cookie, screen, begun, limits, faults, history>>

\* tryRefresh posts the jar's refresh cookie as it is when the request leaves.
PostRefresh(k) ==
  /\ At(k, "post")
  /\ IF CsrfGuard(k) /\ cookie.refresh # NoToken
     THEN call' = [call EXCEPT ![k].pc = "rread", ![k].t = cookie.refresh]
     ELSE Goto(k, "expired")
  /\ UNCHANGED <<serverVars, client, begun, limits, faults, history>>

Again(k) ==
  call' = [call EXCEPT ![k].pc = IF call[k].op \in {"me", "read"} THEN "send" ELSE "ensure",
                       ![k].retried = TRUE, ![k].header = NoToken, ![k].t = NoToken,
                       ![k].seen = {}]

\* The answer to a refresh: new cookies, and the tab forgets its CSRF token.  A
\* lost answer counts as a failed refresh, although the token was rotated.
Rotated(k) ==
  /\ At(k, "rotated") /\ Fresh # {}
  /\ \/ /\ SetAuthCookies(call[k].t)
        /\ memory' = [memory EXCEPT ![TabOf(k)] = NoToken]
        /\ Goto(k, "renew") /\ UNCHANGED faults
     \/ Fault /\ Goto(k, "expired") /\ UNCHANGED <<cookie, memory>>
  /\ UNCHANGED <<serverVars, screen, begun, limits, history>>

Renewed(k) ==
  /\ At(k, "renewed") /\ Again(k)
  /\ UNCHANGED <<serverVars, client, begun, limits, faults, history>>

\* handleSessionExpired: the tab forgets the session and goes to /login; the
\* cookies stay, the script cannot touch them.
Expired(k) ==
  /\ At(k, "expired")
  /\ memory' = [memory EXCEPT ![TabOf(k)] = NoToken]
  /\ screen' = [screen EXCEPT ![TabOf(k)] = "anonymous"]
  /\ End(k)
  /\ UNCHANGED <<serverVars, cookie, begun, limits, faults, history>>

--------------------------------------------------------------------------------
(* The server: AuthService.                                                *)

\* refresh() reads the row in its transaction.  A revoked token is refused: the
\* statement that would revoke the user's other tokens is in the transaction
\* that the refusal rolls back.
RefreshRead(k) ==
  LET t == call[k].t IN
  /\ At(k, "rread")
  /\ IF active /\ token[t] = "live" THEN Goto(k, "revoke") ELSE Goto(k, "expired")
  /\ UNCHANGED <<serverVars, client, begun, limits, faults, history>>

\* Mutant: the update names the row only, not that it must be live.
RefreshRevoke_ById(k) ==
  LET t == call[k].t IN
  /\ At(k, "revoke") /\ holder[t] = NoCall
  /\ holder' = [holder EXCEPT ![t] = k] /\ Goto(k, "commit")
  /\ UNCHANGED <<token, link, active, client, begun, limits, faults, history>>

\* It revokes the row if it is still live; a row another transaction has written
\* is waited for.
RefreshRevoke(k) ==
  LET t == call[k].t IN
  /\ At(k, "revoke") /\ holder[t] = NoCall
  /\ IF token[t] = "live"
     THEN holder' = [holder EXCEPT ![t] = k] /\ Goto(k, "commit")
     ELSE Goto(k, "expired") /\ UNCHANGED holder
  /\ UNCHANGED <<token, link, active, client, begun, limits, faults, history>>

\* The new token and the revocation become visible together.
RefreshCommit(k) ==
  LET t == call[k].t
      n == FirstOf(Unused(Token, token)) IN
  /\ At(k, "commit") /\ Unused(Token, token) # {}
  /\ token' = [token EXCEPT ![t] = "revoked", ![n] = "live"]
  /\ holder' = [holder EXCEPT ![t] = NoCall]
  /\ parent' = [parent EXCEPT ![n] = t]
  /\ crossed' = IF \E j \in Call : At(j, "kicked") /\ t \in call[j].seen
                 THEN crossed \cup {n} ELSE crossed
  /\ call' = [call EXCEPT ![k].pc = "rotated", ![k].t = n]
  /\ UNCHANGED <<link, active, client, begun, limits, faults, early>>

\* The browser's own logout: CsrfGuard, then the handler with the jar's token.
PostLogout(k) ==
  /\ At(k, "send") /\ call[k].op = "logout"
  /\ \/ /\ call' = [call EXCEPT ![k].t = cookie.refresh,
                      ![k].pc = IF ~CsrfGuard(k) THEN "forbidden"
                                ELSE IF cookie.refresh = NoToken THEN "left" ELSE "out"]
        /\ UNCHANGED faults
     \/ Fault /\ Goto(k, "gone")
  /\ UNCHANGED <<serverVars, client, begun, limits, history>>

LogoutRevoke(k) ==
  LET t == call[k].t IN
  /\ At(k, "out") /\ holder[t] = NoCall
  /\ token' = [token EXCEPT ![t] = "revoked"]
  /\ Goto(k, "left")
  /\ UNCHANGED <<holder, link, active, client, begun, limits, faults, history>>

\* The answer to the logout clears the cookies.
Left(k) ==
  /\ At(k, "left") /\ Goto(k, "gone")
  /\ \/ /\ ClearAuthCookies
        /\ UNCHANGED faults
     \/ Fault /\ UNCHANGED cookie
  /\ UNCHANGED <<serverVars, memory, screen, begun, limits, history>>

\* /login: the account is looked up, a token is issued, the answer sets cookies.
Login(k) ==
  /\ Start(k, "login", "issue")
  /\ screen[TabOf(k)] = "anonymous" /\ active
  /\ UNCHANGED <<serverVars, client, limits, faults, history>>

IssueTokens(k) ==
  LET n == FirstOf(Unused(Token, token)) IN
  /\ At(k, "issue") /\ Unused(Token, token) # {}
  /\ token' = [token EXCEPT ![n] = "live"]
  /\ call' = [call EXCEPT ![k].pc = "signed", ![k].t = n]
  /\ UNCHANGED <<holder, link, active, client, begun, limits, faults, history>>

\* The login page keeps the CSRF token the tab already has.
SignedIn(k) ==
  /\ At(k, "signed") /\ Fresh # {}
  /\ \/ SetAuthCookies(call[k].t) /\ Goto(k, "warm") /\ UNCHANGED faults
     \/ Fault /\ Goto(k, "gone") /\ UNCHANGED cookie
  /\ UNCHANGED <<serverVars, memory, screen, begun, limits, history>>

\* forgotPassword: one transaction ends the links sent before and adds one.
ForgotPassword(k) ==
  LET n == FirstOf(Unused(Link, link)) IN
  /\ Start(k, "forgot", "idle") /\ active /\ Unused(Link, link) # {}
  /\ link' = [l \in Link |-> IF l = n THEN "live"
                             ELSE IF link[l] = "live" THEN "used" ELSE link[l]]
  /\ UNCHANGED <<token, holder, active, client, limits, faults, history>>

\* resetPassword reads the link outside its transaction.
ResetRead(k, l) ==
  /\ At(k, "idle") /\ "reset" \in limits.ops /\ begun < limits.calls
  /\ limits.serial => \A k2 \in Call : At(k2, "idle")
  /\ link[l] = "live" /\ begun' = begun + 1
  /\ call' = [call EXCEPT ![k] = [Silent EXCEPT !.op = "reset", !.pc = "kick", !.l = l]]
  /\ UNCHANGED <<serverVars, client, limits, faults, history>>

\* The transaction's last statement looks for the live tokens; the transactions
\* of two resets follow one another, for each writes the user's row first.
ResetKick(k) ==
  /\ At(k, "kick") /\ \A k2 \in Call : ~At(k2, "kicked")
  /\ call' = [call EXCEPT ![k].pc = "kicked", ![k].seen = Live]
  /\ UNCHANGED <<serverVars, client, begun, limits, faults, history>>

\* Mutant: the reset changes the password and leaves the sessions.
ResetCommit_KeepsSessions(k) ==
  /\ At(k, "kicked") /\ link' = [link EXCEPT ![call[k].l] = "used"]
  /\ early' = early \cup call[k].seen
  /\ End(k)
  /\ UNCHANGED <<token, holder, active, client, begun, limits, faults, parent, crossed>>

\* Mutant: the reset writes a status no reader of refresh tokens knows.
ResetCommit_NewStatus(k) ==
  /\ At(k, "kicked") /\ \A t \in call[k].seen : holder[t] = NoCall
  /\ token' = [t \in Token |-> IF t \in call[k].seen THEN "expired" ELSE token[t]]
  /\ link' = [link EXCEPT ![call[k].l] = "used"]
  /\ early' = early \cup call[k].seen
  /\ End(k)
  /\ UNCHANGED <<holder, active, client, begun, limits, faults, parent, crossed>>

\* It waits for the rows a refresh has written, then ends those still live.
ResetCommit(k) ==
  /\ At(k, "kicked") /\ \A t \in call[k].seen : holder[t] = NoCall
  /\ token' = [t \in Token |-> IF t \in call[k].seen THEN "revoked" ELSE token[t]]
  /\ link' = [link EXCEPT ![call[k].l] = "used"]
  /\ early' = early \cup call[k].seen
  /\ End(k)
  /\ UNCHANGED <<holder, active, client, begun, limits, faults, parent, crossed>>

\* The access cookie and the JWT in it expire together; in a serial instance no
\* call is so slow that the token it has just renewed expires in it.
AccessExpires ==
  /\ cookie.access
  /\ limits.serial => \A k \in Call : ~call[k].retried /\ call[k].t = NoToken
  /\ cookie' = [cookie EXCEPT !.access = FALSE]
  /\ UNCHANGED <<serverVars, memory, screen, call, begun, limits, faults, history>>

\* The owner deactivates the member, or deletes the account.
Deactivate ==
  /\ "deactivate" \in limits.ops /\ active
  /\ active' = FALSE
  /\ UNCHANGED <<token, holder, link, client, call, begun, limits, faults, history>>

--------------------------------------------------------------------------------
CallStep(k) ==
  \/ EnsureCsrf(k, "ensure", "csrf", "send") \/ FetchCsrf(k, "csrf", "send", "send")
  \/ Send(k) \/ Served(k) \/ Gone(k) \/ Unauthorized(k) \/ Forbidden(k)
  \/ EnsureCsrf(k, "again", "fresh", "ensure") \/ FetchCsrf(k, "fresh", "ensure", "gone")
  \/ EnsureCsrf(k, "rensure", "rcsrf", "post") \/ FetchCsrf(k, "rcsrf", "post", "post")
  \/ PostRefresh(k) \/ RefreshRead(k) \/ RefreshRevoke(k) \/ RefreshCommit(k)
  \/ Rotated(k)
  \/ EnsureCsrf(k, "renew", "fetch", "renewed") \/ FetchCsrf(k, "fetch", "renewed", "renewed")
  \/ Renewed(k) \/ Expired(k)
  \/ EnsureCsrf(k, "warm", "wcsrf", "warmed") \/ FetchCsrf(k, "wcsrf", "warmed", "warmed")
  \/ Warmed(k)
  \/ PostLogout(k) \/ LogoutRevoke(k) \/ Left(k)
  \/ IssueTokens(k) \/ SignedIn(k) \/ ResetKick(k) \/ ResetCommit(k)

Next ==
  \/ \E k \in Call : CallStep(k)
  \/ \E k \in Call, op \in Operations : Begin(k, op)
  \/ \E k \in Call : Login(k) \/ ForgotPassword(k)
  \/ \E k \in Call, l \in Link : ResetRead(k, l)
  \/ AccessExpires \/ Deactivate

Spec == Init /\ [][Next]_vars

\* Requests are answered, or time out as faults; users need not begin any.
Fairness == \A k \in Call : WF_vars(CallStep(k))
FairSpec == Spec /\ Fairness

--------------------------------------------------------------------------------
(* Properties.                                                             *)

\* Every variable has its type.
TypeOK ==
  /\ token \in [Token -> {"none", "live", "revoked"}]
  /\ holder \in [Token -> Call \cup {NoCall}]
  /\ link \in [Link -> {"none", "live", "used"}]
  /\ active \in BOOLEAN /\ cookie \in Jar
  /\ memory \in [Tab -> Csrf \cup {NoToken}]
  /\ screen \in [Tab -> {"loading", "authenticated", "anonymous"}]
  /\ call \in [Call -> Calling]
  /\ begun \in 0 .. limits.calls /\ limits \in Limits /\ faults \in 0 .. limits.faults
  /\ parent \in [Token -> Token \cup {NoToken}] /\ early \subseteq Token
  /\ crossed \subseteq Token

\* Rotation is atomic: however many calls present the same refresh token, at
\* most one of them gets a successor for it (the updateMany with revokedAt: null).
OneSuccessor == \A m, n \in Token : parent[m] = parent[n] /\ parent[m] # NoToken => m = n

\* Once a reset has committed, no session that was open when its statement ran is
\* open, nor has it been renewed, not even by a refresh that had already read its
\* token as good; but for the successor that a refresh committed while the reset was
\* waiting for that token's row (auth.service.ts:182-202 against 309-313).
ResetStopsRenewal ==
  \A t \in early : token[t] = "revoked" /\ \A n \in Token : parent[n] = t => n \in crossed

\* One call at a time and no failure: browser and server stay in step.  No call of
\* an active user is sent to the login page or refused for its CSRF token, whatever
\* expires in between and whichever tab calls; and the server never keeps a session
\* open that the browser has lost, by a rotation or by a logout.
BrowserInStep ==
  limits.serial /\ limits.faults = 0 =>
    /\ active /\ limits.ops \cap {"logout", "reset"} = {} =>
         \A k \in Call : ~At(k, "expired") /\ ~(At(k, "forbidden") /\ call[k].csrfRetried)
    /\ "login" \notin limits.ops /\ (\A k \in Call : At(k, "idle")) =>
         Live \subseteq {cookie.refresh}

\* Every call ends, however its retries after a 401 and a 403 follow each other.
CallsEnd == \A k \in Call : ~At(k, "idle") ~> At(k, "idle")
================================================================================
