----------------------------- MODULE SessionsProofs -----------------------------
(***************************************************************************)
(* Rotation of refresh tokens: one successor for each token, and none for  *)
(* a token that a password reset has ended but the one written while the   *)
(* reset waited for it, however many calls and tabs present it together.   *)
(* And, at the end, browser and server in step: what one call at a time,   *)
(* without a failure, never does to an active user.                        *)
(*                                                                         *)
(* OneSuccessor alone is not inductive.  It rests on three facts: a token  *)
(* that has a successor is revoked (Spent), a revoked token never becomes  *)
(* live again, and between the guarded update of a refresh and its commit  *)
(* the row lock keeps the token as it was found (Rotating).                *)
(* ResetStopsRenewal needs the same, and what a reset under way has seen   *)
(* (Kicking): a token it found live had no successor, so that any it gets  *)
(* is written during the reset.                                            *)
(***************************************************************************)
EXTENDS Sessions, FiniteSetTheorems, WellFoundedInduction, TLAPS

\* The steps that use a refresh token; a call at one of them carries one.
WithToken == {"rread", "revoke", "commit", "rotated", "out", "signed"}
Fits(c) == c.pc \in WithToken => c.t \in Token
Carries == \A k \in Call : Fits(call[k])

\* TypeOK without the calls in flight.
RestOK ==
  /\ token \in [Token -> {"none", "live", "revoked"}]
  /\ holder \in [Token -> Call \cup {NoCall}]
  /\ link \in [Link -> {"none", "live", "used"}]
  /\ active \in BOOLEAN /\ cookie \in Jar
  /\ memory \in [Tab -> Csrf \cup {NoToken}]
  /\ screen \in [Tab -> {"loading", "authenticated", "anonymous"}]
  /\ begun \in 0 .. limits.calls /\ limits \in Limits /\ faults \in 0 .. limits.faults
  /\ parent \in [Token -> Token \cup {NoToken}] /\ early \subseteq Token
  /\ crossed \subseteq Token

\* A refresh that is about to commit holds the row of a live token.
Rotating ==
  \A k \in Call :
    At(k, "commit") => holder[call[k].t] = k /\ token[call[k].t] = "live"

\* A token with a successor is revoked, and so is one that a reset has ended.
Spent ==
  /\ \A n \in Token : parent[n] # NoToken => token[parent[n]] = "revoked"
  /\ ResetStopsRenewal

\* The successors of what a reset under way is about to end.
Crossing(c) == \A t \in c.seen, n \in Token : parent[n] = t => n \in crossed
Kicking == \A k \in Call : At(k, "kicked") => Crossing(call[k])

\* The inductive strengthening of OneSuccessor and of ResetStopsRenewal.
SessionInv == TypeOK /\ Carries /\ Rotating /\ Spent /\ Kicking /\ OneSuccessor

--------------------------------------------------------------------------------
\* The first of a set of tokens or links is one of them.
LEMMA FirstOfIn ==
  ASSUME NEW S, S \subseteq Nat, S # {}
  PROVE  FirstOf(S) \in S
<1> DEFINE R == {ss \in Nat \X Nat : ss[1] < ss[2]}
<1>1. R = OpToRel(<, Nat) BY DEF OpToRel
<1>2. IsWellFoundedOn(R, Nat) BY <1>1, NatLessThanWellFounded
<1>3. PICK x \in S : \A y \in S : ~(<<y, x>> \in R)
  <2> HIDE DEF R
  <2> QED BY <1>2, WFMin
<1>4. ASSUME NEW y \in S PROVE x <= y
  <2>1. x \in Nat /\ y \in Nat OBVIOUS
  <2>2. <<y, x>> \in Nat \X Nat /\ ~(<<y, x>> \in R) BY <1>3, <2>1
  <2>3. ~(y < x) BY <2>1, <2>2
  <2> QED BY <2>1, <2>3
<1> QED BY <1>4 DEF FirstOf

\* While a token is unused, the first of them is one.
LEMMA FirstTokenIn ==
  ASSUME Unused(Token, token) # {}
  PROVE  FirstOf(Unused(Token, token)) \in Token /\ token[FirstOf(Unused(Token, token))] = "none"
<1>1. Token \subseteq Nat
  <2> DEFINE N == Cardinality(Token)
  <2>1. N \in Nat BY TokenAssumption, FS_CardinalityType
  <2> QED BY <2>1, TokenAssumption
<1>2. Unused(Token, token) \subseteq Nat BY <1>1 DEF Unused
<1>3. FirstOf(Unused(Token, token)) \in Unused(Token, token) BY <1>2, FirstOfIn
<1> QED BY <1>3 DEF Unused

\* A new CSRF value is one.
LEMMA NewCsrfIn == ASSUME Fresh # {} PROVE NewCsrf \in Csrf
  BY DEF NewCsrf, Fresh

--------------------------------------------------------------------------------
(* Calls in flight: how the record of one changes.                         *)

\* TypeOK, split into the calls and the rest.
LEMMA SplitTypes ==
  /\ TypeOK <=> RestOK /\ call \in [Call -> Calling]
  /\ TypeOK' <=> RestOK' /\ call' \in [Call -> Calling]
  BY DEF TypeOK, RestOK

\* It becomes a well-formed record,
LEMMA RecStep ==
  ASSUME TypeOK, Carries, NEW k \in Call, NEW rec \in Calling, Fits(rec),
         call' = [call EXCEPT ![k] = rec]
  PROVE  call' \in [Call -> Calling] /\ Carries'
<1>1. call \in [Call -> Calling] BY SplitTypes
<1>2. call' \in [Call -> Calling] BY <1>1
<1>3. ASSUME NEW k2 \in Call PROVE Fits(call[k2])'
  <2>1. CASE k2 = k BY <1>1, <2>1 DEF Fits
  <2>2. CASE k2 # k BY <1>1, <2>2 DEF Fits, Carries
  <2> QED BY <2>1, <2>2
<1> QED BY <1>2, <1>3 DEF Carries

\* it moves on,
LEMMA GotoStep ==
  ASSUME TypeOK, Carries, NEW k \in Call, NEW l \in Steps, Goto(k, l),
         l \in WithToken => call[k].t \in Token
  PROVE  call' \in [Call -> Calling] /\ Carries'
<1>1. call \in [Call -> Calling] BY SplitTypes
<1> DEFINE rec == [call[k] EXCEPT !.pc = l]
<1>2. rec \in Calling BY <1>1 DEF Calling
<1>3. Fits(rec) BY <1>1 DEF Fits, Calling
<1>4. call' = [call EXCEPT ![k] = rec] BY <1>1 DEF Goto
<1> QED BY <1>2, <1>3, <1>4, RecStep

\* or it ends.
LEMMA SilentType == Silent \in Calling /\ Fits(Silent)
  BY DEF Silent, Calling, Steps, Operations, Public, Fits, WithToken

\* A call that ends keeps the types of calls.
LEMMA EndStep ==
  ASSUME TypeOK, Carries, NEW k \in Call, End(k)
  PROVE  call' \in [Call -> Calling] /\ Carries'
  BY SilentType, RecStep DEF End

\* A fault keeps the count within its bound.
LEMMA FaultType ==
  ASSUME TypeOK, Fault, UNCHANGED limits
  PROVE  faults' \in 0 .. limits'.faults
<1>1. limits.faults \in 0 .. 2 BY LimitsAssumption DEF TypeOK
<1> QED BY <1>1 DEF TypeOK, Fault

\* A call that begins does too.
LEMMA BegunType ==
  ASSUME TypeOK, begun < limits.calls, begun' = begun + 1, UNCHANGED limits
  PROVE  begun' \in 0 .. limits'.calls
<1>1. limits.calls \in 1 .. 5 BY LimitsAssumption DEF TypeOK
<1> QED BY <1>1 DEF TypeOK

--------------------------------------------------------------------------------
(* Types and what a call carries, action by action.                        *)

\* A step of a call alone.
LEMMA RestKept ==
  ASSUME TypeOK, UNCHANGED <<serverVars, client, begun, limits, faults, history>>
  PROVE  RestOK'
  BY DEF TypeOK, RestOK, serverVars, client, history

\* The steps that fetch a CSRF token keep types.
LEMMA CsrfTypes ==
  ASSUME TypeOK, Carries, NEW k \in Call, NEW here, NEW fetch \in Steps \ WithToken,
         NEW next \in Steps \ WithToken, NEW failed \in Steps \ WithToken,
         EnsureCsrf(k, here, fetch, next) \/ FetchCsrf(k, here, next, failed)
  PROVE  TypeOK' /\ Carries'
<1>0. call \in [Call -> Calling] BY SplitTypes
<1>1. CASE EnsureCsrf(k, here, fetch, next)
  <2> DEFINE m == getCachedCsrfToken(k)
             rec == [call[k] EXCEPT !.pc = IF m = NoToken THEN fetch ELSE next, !.header = m]
  <2>1. m \in Csrf \cup {NoToken}
    <3>1. TabOf(k) \in Tab BY LimitsAssumption DEF TypeOK, TabOf
    <3> QED BY <3>1 DEF TypeOK, Jar, getCachedCsrfToken
  <2>4. call' = [call EXCEPT ![k] = rec] /\ memory' = [memory EXCEPT ![TabOf(k)] = m]
    BY <1>0, <1>1 DEF EnsureCsrf
  <2> HIDE DEF m
  <2>2. rec \in Calling BY <1>0, <2>1 DEF Calling
  <2>3. Fits(rec) BY <1>0 DEF Fits, Calling
  <2>6. memory' \in [Tab -> Csrf \cup {NoToken}] BY <2>1, <2>4 DEF TypeOK
  <2>5. RestOK' BY <1>1, <2>6 DEF EnsureCsrf, TypeOK, RestOK, serverVars, history
  <2> QED BY <2>2, <2>3, <2>4, <2>5, RecStep, SplitTypes
<1>2. CASE FetchCsrf(k, here, next, failed)
  <2>1. NewCsrf \in Csrf BY <1>2, NewCsrfIn DEF FetchCsrf
  <2>2. CASE UNCHANGED faults /\ cookie' = [cookie EXCEPT !.csrf = NewCsrf]
             /\ memory' = [memory EXCEPT ![TabOf(k)] = NewCsrf]
             /\ call' = [call EXCEPT ![k].pc = next, ![k].header = NewCsrf]
    <3> DEFINE rec == [call[k] EXCEPT !.pc = next, !.header = NewCsrf]
    <3>1. rec \in Calling BY <1>0, <2>1 DEF Calling
    <3>2. Fits(rec) BY <1>0 DEF Fits, Calling
    <3>3. call' = [call EXCEPT ![k] = rec] BY <1>0, <2>2
    <3>4. cookie' \in Jar BY <2>1, <2>2 DEF TypeOK, Jar
    <3>5. memory' \in [Tab -> Csrf \cup {NoToken}] BY <2>1, <2>2 DEF TypeOK
    <3>6. RestOK' BY <1>2, <2>2, <3>4, <3>5 DEF FetchCsrf, RestOK, TypeOK, serverVars, history
    <3> QED BY <3>1, <3>2, <3>3, <3>6, RecStep, SplitTypes
  <2>3. CASE Fault /\ Goto(k, failed) /\ UNCHANGED <<cookie, memory>>
    <3>1. RestOK' BY <1>2, <2>3, FaultType DEF FetchCsrf, RestOK, TypeOK, serverVars, history
    <3> QED BY <2>3, <3>1, GotoStep, SplitTypes
  <2> QED BY <1>2, <2>2, <2>3 DEF FetchCsrf
<1> QED BY <1>1, <1>2

\* The steps of the client between requests keep types.
LEMMA ClientTypes ==
  ASSUME TypeOK, Carries, NEW k \in Call,
         \/ Send(k) \/ Served(k) \/ Warmed(k) \/ Gone(k) \/ Unauthorized(k) \/ Forbidden(k)
         \/ Expired(k) \/ Left(k)
  PROVE  TypeOK' /\ Carries'
<1>0. call \in [Call -> Calling] BY SplitTypes
<1>1. CASE Send(k)
  <2>1. RestOK' BY <1>1, RestKept, FaultType DEF Send, RestOK, TypeOK, serverVars, client, history
  <2>2. \E l \in Steps \ WithToken : Goto(k, l)
    BY <1>1 DEF Send, Steps, WithToken
  <2> QED BY <2>1, <2>2, GotoStep, SplitTypes
<1>2. CASE Served(k)
  <2>1. RestOK' BY <1>2 DEF Served, RestOK, TypeOK, serverVars, history
  <2>2. Goto(k, "warm") \/ End(k) BY <1>2 DEF Served
  <2>3. "warm" \in Steps \ WithToken BY DEF Steps, WithToken
  <2> QED BY <2>1, <2>2, <2>3, GotoStep, EndStep, SplitTypes
<1>3. CASE Warmed(k) \/ Gone(k) \/ Expired(k)
  <2>1. RestOK' BY <1>3 DEF Warmed, Gone, Expired, RestOK, TypeOK, serverVars, history
  <2>2. End(k) BY <1>3 DEF Warmed, Gone, Expired
  <2> QED BY <2>1, <2>2, EndStep, SplitTypes
<1>4. CASE Unauthorized(k)
  <2>1. RestOK' BY <1>4, RestKept DEF Unauthorized
  <2>2. \E l \in Steps \ WithToken : Goto(k, l)
    BY <1>4 DEF Unauthorized, Steps, WithToken
  <2> QED BY <2>1, <2>2, GotoStep, SplitTypes
<1>5. CASE Forbidden(k)
  <2>1. RestOK' BY <1>5 DEF Forbidden, RestOK, TypeOK, serverVars, history
  <2>2. CASE Goto(k, "gone")
    <3>1. "gone" \in Steps \ WithToken BY DEF Steps, WithToken
    <3> QED BY <2>1, <2>2, <3>1, GotoStep, SplitTypes
  <2>3. CASE ~Goto(k, "gone")
    <3> DEFINE rec == [call[k] EXCEPT !.pc = "again", !.csrfRetried = TRUE, !.header = NoToken]
    <3>1. rec \in Calling /\ rec.pc = "again"
      <4>1. call[k] \in Calling /\ "again" \in Steps BY <1>0 DEF Steps
      <4> QED BY <4>1 DEF Calling
    <3>2. Fits(rec) BY <3>1 DEF Fits, WithToken
    <3>3. call' = [call EXCEPT ![k] = rec] BY <1>0, <1>5, <2>3 DEF Forbidden
    <3> QED BY <2>1, <3>1, <3>2, <3>3, RecStep, SplitTypes
  <2> QED BY <2>2, <2>3
<1>6. CASE Left(k)
  <2>1. RestOK'
    <3>1. cookie' \in Jar
      <4>1. CASE UNCHANGED cookie BY <4>1 DEF TypeOK
      <4>2. CASE ClearAuthCookies BY <4>2 DEF ClearAuthCookies, Jar
      <4> QED BY <1>6, <4>1, <4>2 DEF Left
    <3>2. faults' \in 0 .. limits'.faults BY <1>6, FaultType DEF Left, TypeOK
    <3> QED BY <1>6, <3>1, <3>2 DEF Left, RestOK, TypeOK, serverVars, history
  <2>2. "gone" \in Steps \ WithToken BY DEF Steps, WithToken
  <2> QED BY <1>6, <2>1, <2>2, GotoStep, SplitTypes DEF Left
<1> QED BY <1>1, <1>2, <1>3, <1>4, <1>5, <1>6

\* The steps of a rotation keep types.
LEMMA RefreshTypes ==
  ASSUME TypeOK, Carries, NEW k \in Call,
         \/ PostRefresh(k) \/ RefreshRead(k) \/ RefreshRevoke(k) \/ RefreshCommit(k)
         \/ Rotated(k) \/ Renewed(k)
  PROVE  TypeOK' /\ Carries'
<1>0. call \in [Call -> Calling] /\ call[k] \in Calling BY SplitTypes
<1>1. {"rread", "revoke", "commit", "rotated", "expired", "renew"} \subseteq Steps
  BY DEF Steps
<1>2. "expired" \notin WithToken /\ "renew" \notin WithToken BY DEF WithToken
<1>3. CASE PostRefresh(k)
  <2>1. RestOK' BY <1>3, RestKept DEF PostRefresh
  <2>2. CASE Goto(k, "expired") BY <1>1, <1>2, <2>1, <2>2, GotoStep, SplitTypes
  <2>3. CASE ~Goto(k, "expired")
    <3> DEFINE rec == [call[k] EXCEPT !.pc = "rread", !.t = cookie.refresh]
    <3>1. cookie.refresh \in Token BY <1>3, <2>3 DEF PostRefresh, TypeOK, Jar
    <3>2. rec \in Calling /\ Fits(rec) BY <1>0, <1>1, <3>1 DEF Calling, Fits
    <3>3. call' = [call EXCEPT ![k] = rec] BY <1>0, <1>3, <2>3 DEF PostRefresh
    <3> QED BY <2>1, <3>2, <3>3, RecStep, SplitTypes
  <2> QED BY <2>2, <2>3
<1>4. CASE RefreshRead(k)
  <2>1. RestOK' BY <1>4, RestKept DEF RefreshRead
  <2>2. call[k].t \in Token BY <1>4 DEF RefreshRead, At, Carries, Fits, WithToken
  <2>3. Goto(k, "revoke") \/ Goto(k, "expired") BY <1>4 DEF RefreshRead
  <2> QED BY <1>1, <1>2, <2>1, <2>2, <2>3, GotoStep, SplitTypes
<1>5. CASE RefreshRevoke(k)
  <2>1. RestOK' BY <1>5 DEF RefreshRevoke, TypeOK, RestOK, client, history
  <2>2. call[k].t \in Token BY <1>5 DEF RefreshRevoke, At, Carries, Fits, WithToken
  <2>3. Goto(k, "commit") \/ Goto(k, "expired") BY <1>5 DEF RefreshRevoke
  <2> QED BY <1>1, <1>2, <2>1, <2>2, <2>3, GotoStep, SplitTypes
<1>6. CASE RefreshCommit(k)
  <2> DEFINE n == FirstOf(Unused(Token, token))
             rec == [call[k] EXCEPT !.pc = "rotated", !.t = n]
  <2>1. n \in Token BY <1>6, FirstTokenIn DEF RefreshCommit
  <2>2. call[k].t \in Token BY <1>6 DEF RefreshCommit, At, Carries, Fits, WithToken
  <2>3. RestOK'
    <3> HIDE DEF n
    <3>1. /\ token' = [token EXCEPT ![call[k].t] = "revoked", ![n] = "live"]
          /\ holder' = [holder EXCEPT ![call[k].t] = NoCall]
          /\ parent' = [parent EXCEPT ![n] = call[k].t]
          /\ crossed' = crossed \/ crossed' = crossed \cup {n}
      BY <1>6 DEF RefreshCommit, n
    <3> QED BY <1>6, <2>1, <2>2, <3>1 DEF RefreshCommit, TypeOK, RestOK, client
  <2>4. rec \in Calling /\ Fits(rec)
    <3> HIDE DEF n
    <3> QED BY <1>0, <1>1, <2>1 DEF Calling, Fits
  <2>5. call' = [call EXCEPT ![k] = rec] BY <1>0, <1>6 DEF RefreshCommit
  <2> QED BY <2>3, <2>4, <2>5, RecStep, SplitTypes
<1>7. CASE Rotated(k)
  <2>1. NewCsrf \in Csrf BY <1>7, NewCsrfIn DEF Rotated
  <2>2. call[k].t \in Token BY <1>7 DEF Rotated, At, Carries, Fits, WithToken
  <2>3. RestOK'
    <3>1. cookie' \in Jar
      <4>1. CASE UNCHANGED cookie BY <4>1 DEF TypeOK
      <4>2. CASE SetAuthCookies(call[k].t)
        BY <2>1, <2>2, <4>2 DEF SetAuthCookies, Jar
      <4> QED BY <1>7, <4>1, <4>2 DEF Rotated
    <3>2. memory' \in [Tab -> Csrf \cup {NoToken}] BY <1>7 DEF Rotated, TypeOK
    <3>3. faults' \in 0 .. limits'.faults BY <1>7, FaultType DEF Rotated, TypeOK
    <3> QED BY <1>7, <3>1, <3>2, <3>3 DEF Rotated, RestOK, TypeOK, serverVars, history
  <2>4. Goto(k, "renew") \/ Goto(k, "expired") BY <1>7 DEF Rotated
  <2> QED BY <1>1, <1>2, <2>3, <2>4, GotoStep, SplitTypes
<1>8. CASE Renewed(k)
  <2>1. RestOK' BY <1>8, RestKept DEF Renewed
  <2> DEFINE l == IF call[k].op \in {"me", "read"} THEN "send" ELSE "ensure"
             rec == [call[k] EXCEPT !.pc = l, !.retried = TRUE, !.header = NoToken,
                                    !.t = NoToken, !.seen = {}]
  <2>2. l \in Steps \ WithToken BY DEF Steps, WithToken
  <2>3. rec \in Calling /\ Fits(rec)
    <3> HIDE DEF l
    <3> QED BY <1>0, <2>2 DEF Calling, Fits
  <2>4. call' = [call EXCEPT ![k] = rec] BY <1>0, <1>8 DEF Renewed, Again
  <2> QED BY <2>1, <2>3, <2>4, RecStep, SplitTypes
<1> QED BY <1>3, <1>4, <1>5, <1>6, <1>7, <1>8

\* Leaving, signing in and resetting a password keep types.
LEMMA AccountTypes ==
  ASSUME TypeOK, Carries, NEW k \in Call,
         \/ PostLogout(k) \/ LogoutRevoke(k) \/ IssueTokens(k) \/ SignedIn(k)
         \/ ResetKick(k) \/ ResetCommit(k)
  PROVE  TypeOK' /\ Carries'
<1>0. call \in [Call -> Calling] /\ call[k] \in Calling BY SplitTypes
<1>1. {"forbidden", "left", "out", "gone", "signed", "warm", "kicked"} \subseteq Steps
  BY DEF Steps
<1>2. {"forbidden", "left", "gone", "warm", "kicked"} \cap WithToken = {} BY DEF WithToken
<1>3. CASE PostLogout(k)
  <2>1. RestOK' BY <1>3, RestKept, FaultType DEF PostLogout, RestOK, TypeOK, serverVars, client, history
  <2>2. CASE Goto(k, "gone") BY <1>1, <1>2, <2>1, <2>2, GotoStep, SplitTypes
  <2>3. CASE ~Goto(k, "gone")
    <3> DEFINE l == IF ~CsrfGuard(k) THEN "forbidden"
                    ELSE IF cookie.refresh = NoToken THEN "left" ELSE "out"
               rec == [call[k] EXCEPT !.t = cookie.refresh, !.pc = l]
    <3>1. cookie.refresh \in Token \cup {NoToken} BY DEF TypeOK, Jar
    <3>2. l \in Steps /\ (l \in WithToken => cookie.refresh \in Token) BY <1>1, <1>2, <3>1
    <3>3. rec \in Calling /\ Fits(rec)
      <4> HIDE DEF l
      <4> QED BY <1>0, <3>1, <3>2 DEF Calling, Fits
    <3>4. call' = [call EXCEPT ![k] = rec] BY <1>0, <1>3, <2>3 DEF PostLogout
    <3> QED BY <2>1, <3>3, <3>4, RecStep, SplitTypes
  <2> QED BY <2>2, <2>3
<1>4. CASE LogoutRevoke(k)
  <2>1. RestOK' BY <1>4 DEF LogoutRevoke, TypeOK, RestOK, client, history
  <2> QED BY <1>1, <1>2, <1>4, <2>1, GotoStep, SplitTypes DEF LogoutRevoke
<1>5. CASE IssueTokens(k)
  <2> DEFINE n == FirstOf(Unused(Token, token))
             rec == [call[k] EXCEPT !.pc = "signed", !.t = n]
  <2>1. n \in Token BY <1>5, FirstTokenIn DEF IssueTokens
  <2>2. RestOK'
    <3>1. token' = [token EXCEPT ![n] = "live"] BY <1>5 DEF IssueTokens
    <3> HIDE DEF n
    <3> QED BY <1>5, <2>1, <3>1 DEF IssueTokens, TypeOK, RestOK, client, history
  <2>3. rec \in Calling /\ Fits(rec)
    <3> HIDE DEF n
    <3> QED BY <1>0, <1>1, <2>1 DEF Calling, Fits
  <2>4. call' = [call EXCEPT ![k] = rec] BY <1>0, <1>5 DEF IssueTokens
  <2> QED BY <2>2, <2>3, <2>4, RecStep, SplitTypes
<1>6. CASE SignedIn(k)
  <2>1. NewCsrf \in Csrf BY <1>6, NewCsrfIn DEF SignedIn
  <2>2. call[k].t \in Token BY <1>6 DEF SignedIn, At, Carries, Fits, WithToken
  <2>3. RestOK'
    <3>1. cookie' \in Jar
      <4>1. CASE UNCHANGED cookie BY <4>1 DEF TypeOK
      <4>2. CASE SetAuthCookies(call[k].t)
        BY <2>1, <2>2, <4>2 DEF SetAuthCookies, Jar
      <4> QED BY <1>6, <4>1, <4>2 DEF SignedIn
    <3>2. faults' \in 0 .. limits'.faults BY <1>6, FaultType DEF SignedIn, TypeOK
    <3> QED BY <1>6, <3>1, <3>2 DEF SignedIn, RestOK, TypeOK, serverVars, history
  <2>4. Goto(k, "warm") \/ Goto(k, "gone") BY <1>6 DEF SignedIn
  <2> QED BY <1>1, <1>2, <2>3, <2>4, GotoStep, SplitTypes
<1>7. CASE ResetKick(k)
  <2>1. RestOK' BY <1>7, RestKept DEF ResetKick
  <2> DEFINE rec == [call[k] EXCEPT !.pc = "kicked", !.seen = Live]
  <2>2. rec \in Calling /\ Fits(rec)
    <3>1. Live \in SUBSET Token BY DEF Live
    <3> QED BY <1>0, <1>1, <1>2, <3>1 DEF Calling, Fits
  <2>3. call' = [call EXCEPT ![k] = rec] BY <1>0, <1>7 DEF ResetKick
  <2> QED BY <2>1, <2>2, <2>3, RecStep, SplitTypes
<1>8. CASE ResetCommit(k)
  <2>1. call[k].seen \subseteq Token BY <1>0 DEF Calling
  <2>2. RestOK' BY <1>8, <2>1 DEF ResetCommit, TypeOK, RestOK, client
  <2> QED BY <1>8, <2>2, EndStep, SplitTypes DEF ResetCommit
<1> QED BY <1>3, <1>4, <1>5, <1>6, <1>7, <1>8

\* The beginnings of calls keep types.
LEMMA BeginTypes ==
  ASSUME TypeOK, Carries, NEW k \in Call,
         \/ \E op \in Operations : Begin(k, op)
         \/ Login(k) \/ ForgotPassword(k) \/ \E l \in Link : ResetRead(k, l)
  PROVE  TypeOK' /\ Carries'
<1>1. {"send", "ensure", "issue", "idle", "kick"} \subseteq Steps \ WithToken
  BY DEF Steps, WithToken
<1>2. ASSUME NEW op \in Operations \cup Public, NEW pc \in Steps \ WithToken, Start(k, op, pc)
      PROVE  call' \in [Call -> Calling] /\ Carries'
  <2> DEFINE rec == [Silent EXCEPT !.op = op, !.pc = pc]
  <2>1. rec \in Calling /\ Fits(rec) BY SilentType DEF Calling, Fits
  <2> QED BY <1>2, <2>1, RecStep DEF Start
<1>3. ASSUME NEW op \in Operations, Begin(k, op) PROVE TypeOK' /\ Carries'
  <2>1. RestOK' BY <1>3, BegunType DEF Begin, Start, RestOK, TypeOK, serverVars, client, history
  <2> QED BY <1>1, <1>2, <1>3, <2>1, SplitTypes DEF Begin
<1>4. CASE Login(k)
  <2>1. RestOK' BY <1>4, BegunType DEF Login, Start, RestOK, TypeOK, serverVars, client, history
  <2> QED BY <1>1, <1>2, <1>4, <2>1, SplitTypes DEF Login, Public
<1>5. CASE ForgotPassword(k)
  <2>1. RestOK' BY <1>5, BegunType DEF ForgotPassword, Start, RestOK, TypeOK, client, history
  <2> QED BY <1>1, <1>2, <1>5, <2>1, SplitTypes DEF ForgotPassword, Public
<1>6. ASSUME NEW l \in Link, ResetRead(k, l) PROVE TypeOK' /\ Carries'
  <2>1. RestOK' BY <1>6, BegunType DEF ResetRead, RestOK, TypeOK, serverVars, client, history
  <2> DEFINE rec == [Silent EXCEPT !.op = "reset", !.pc = "kick", !.l = l]
  <2>2. rec \in Calling /\ Fits(rec) BY <1>1, SilentType DEF Calling, Fits, Public
  <2> QED BY <1>6, <2>1, <2>2, RecStep, SplitTypes DEF ResetRead
<1> QED BY <1>3, <1>4, <1>5, <1>6

\* Every step keeps types.
LEMMA NextTypes ==
  ASSUME TypeOK, Carries, [Next]_vars
  PROVE  TypeOK' /\ Carries'
<1>1. ASSUME NEW k \in Call, CallStep(k) PROVE TypeOK' /\ Carries'
  <2>1. {"csrf", "send", "fresh", "ensure", "gone", "rcsrf", "post", "fetch", "renewed",
         "wcsrf", "warmed"} \subseteq Steps \ WithToken
    BY DEF Steps, WithToken
  <2> QED BY <1>1, <2>1, CsrfTypes, ClientTypes, RefreshTypes, AccountTypes DEF CallStep
<1>2. CASE AccessExpires \/ Deactivate \/ UNCHANGED vars
  <2>1. cookie' \in Jar /\ active' \in BOOLEAN
    BY <1>2 DEF AccessExpires, Deactivate, vars, serverVars, client, TypeOK, Jar
  <2>2. RestOK' /\ call' = call
    BY <1>2, <2>1 DEF AccessExpires, Deactivate, vars, serverVars, client, history, TypeOK, RestOK
  <2> QED BY <2>2, SplitTypes DEF Carries
<1>3. ASSUME NEW k \in Call,
             \/ \E op \in Operations : Begin(k, op)
             \/ Login(k) \/ ForgotPassword(k) \/ \E l \in Link : ResetRead(k, l)
      PROVE  TypeOK' /\ Carries'
  BY <1>3, BeginTypes
<1> QED BY <1>1, <1>2, <1>3 DEF Next

--------------------------------------------------------------------------------
(* The rotation.                                                           *)

\* Most steps leave the rows and the lineage of tokens alone and start neither a commit
\* nor a reset.
Quiet ==
  /\ UNCHANGED <<token, holder, history>>
  /\ \A k \in Call : call'[k].pc \in {"commit", "kicked"} => call'[k] = call[k]

\* What the steps of a rotation must give.
Rotates ==
  Rotating' /\ Spent' /\ Kicking' /\ OneSuccessor'

\* A step that issues no token rotates none.
LEMMA QuietRotates ==
  ASSUME SessionInv, Quiet
  PROVE  Rotates
  BY DEF SessionInv, Quiet, Rotates, Rotating, Spent, Kicking, Crossing, ResetStopsRenewal,
       OneSuccessor, history, At

\* A call that goes elsewhere than to its commit or its reset.
LEMMA Elsewhere ==
  ASSUME TypeOK, NEW k \in Call, NEW rec, call' = [call EXCEPT ![k] = rec], rec.pc \notin {"commit", "kicked"}
  PROVE  \A k2 \in Call : call'[k2].pc \in {"commit", "kicked"} => call'[k2] = call[k2]
  BY DEF TypeOK

\* A call that moves elsewhere leaves the rotations and resets about to commit.
LEMMA GotoElsewhere ==
  ASSUME TypeOK, NEW k \in Call, NEW l, Goto(k, l), l \notin {"commit", "kicked"}
  PROVE  \A k2 \in Call : call'[k2].pc \in {"commit", "kicked"} => call'[k2] = call[k2]
  BY DEF TypeOK, Goto, Calling

\* A call that ends leaves the rotations and resets about to commit.
LEMMA EndElsewhere ==
  ASSUME TypeOK, NEW k \in Call, End(k)
  PROVE  \A k2 \in Call : call'[k2].pc \in {"commit", "kicked"} => call'[k2] = call[k2]
  BY DEF TypeOK, End, Silent

\* Only six steps write tokens of a session, or look for them to end them.
LEMMA QuietSteps ==
  ASSUME TypeOK, [Next]_vars,
         ~\E k \in Call : \/ RefreshRevoke(k) \/ RefreshCommit(k) \/ LogoutRevoke(k)
                          \/ IssueTokens(k) \/ ResetCommit(k) \/ ResetKick(k)
  PROVE  Quiet
<1> DEFINE Calls == \A k2 \in Call : call'[k2].pc \in {"commit", "kicked"} => call'[k2] = call[k2]
<1>0. call \in [Call -> Calling] BY SplitTypes
<1>1. ASSUME NEW k \in Call,
             \/ Send(k) \/ Served(k) \/ Gone(k) \/ Unauthorized(k) \/ RefreshRead(k)
             \/ Rotated(k) \/ Expired(k) \/ Warmed(k) \/ Left(k) \/ SignedIn(k)
      PROVE  Quiet
  <2>1. Calls
    BY <1>1, GotoElsewhere, EndElsewhere DEF Send, Served, Gone, Unauthorized, RefreshRead,
         Rotated, Expired, Warmed, Left, SignedIn
  <2>2. UNCHANGED <<token, holder, history>>
    BY <1>1 DEF Send, Served, Gone, Unauthorized, RefreshRead, Rotated, Expired, Warmed,
         Left, SignedIn, serverVars, history
  <2> QED BY <2>1, <2>2 DEF Quiet
<1>2. ASSUME NEW k \in Call, NEW here, NEW fetch, NEW next, EnsureCsrf(k, here, fetch, next),
             fetch \notin {"commit", "kicked"}, next \notin {"commit", "kicked"}
      PROVE  Quiet
  <2>1. Calls BY <1>0, <1>2 DEF EnsureCsrf, Calling
  <2>2. UNCHANGED <<token, holder, history>> BY <1>2 DEF EnsureCsrf, serverVars, history
  <2> QED BY <2>1, <2>2 DEF Quiet
<1>7. ASSUME NEW k \in Call, NEW here, NEW next, NEW failed, FetchCsrf(k, here, next, failed),
             next \notin {"commit", "kicked"}, failed \notin {"commit", "kicked"}
      PROVE  Quiet
  <2>1. UNCHANGED <<token, holder, history>> BY <1>7 DEF FetchCsrf, serverVars, history
  <2>2. Calls
    <3>1. CASE Goto(k, failed) BY <1>7, <3>1, GotoElsewhere
    <3>2. CASE ~Goto(k, failed) BY <1>0, <1>7, <3>2 DEF FetchCsrf, Calling
    <3> QED BY <3>1, <3>2
  <2> QED BY <2>1, <2>2 DEF Quiet
<1>3. ASSUME NEW k \in Call, Forbidden(k) \/ PostRefresh(k) \/ Renewed(k) \/ PostLogout(k)
      PROVE  Quiet
  <2>1. Calls
    <3>1. CASE \E l \in {"gone", "expired"} : Goto(k, l) BY <3>1, GotoElsewhere
    <3>2. CASE ~\E l \in {"gone", "expired"} : Goto(k, l)
      <4>1. CASE Forbidden(k) BY <1>0, <3>2, <4>1 DEF Forbidden, Calling
      <4>2. CASE PostRefresh(k) BY <1>0, <3>2, <4>2 DEF PostRefresh, Calling
      <4>3. CASE Renewed(k) BY <1>0, <4>3 DEF Renewed, Again, Calling
      <4>4. CASE PostLogout(k) BY <1>0, <3>2, <4>4 DEF PostLogout, Calling
      <4> QED BY <1>3, <4>1, <4>2, <4>3, <4>4
    <3> QED BY <3>1, <3>2
  <2>2. UNCHANGED <<token, holder, history>>
    BY <1>3 DEF Forbidden, PostRefresh, Renewed, PostLogout, serverVars, history
  <2> QED BY <2>1, <2>2 DEF Quiet
<1>4. ASSUME NEW k \in Call,
             \/ \E op \in Operations : Begin(k, op)
             \/ Login(k) \/ ForgotPassword(k) \/ \E l \in Link : ResetRead(k, l)
      PROVE  Quiet
  <2>1. Calls
    <3>1. ASSUME NEW op, NEW l \in {"send", "ensure", "issue", "idle"}, Start(k, op, l) PROVE Calls
      BY <1>0, <3>1 DEF Start, Silent
    <3>2. CASE \E op \in Operations : Begin(k, op)
      <4>1. PICK op \in Operations : Start(k, op, "send") \/ Start(k, op, "ensure")
        BY <3>2 DEF Begin
      <4> QED BY <3>1, <4>1
    <3>3. CASE Login(k) BY <3>1, <3>3 DEF Login
    <3>4. CASE ForgotPassword(k) BY <3>1, <3>4 DEF ForgotPassword
    <3>5. CASE \E l \in Link : ResetRead(k, l) BY <1>0, <3>5 DEF ResetRead, Silent
    <3> QED BY <1>4, <3>2, <3>3, <3>4, <3>5
  <2>2. UNCHANGED <<token, holder, history>>
    BY <1>4 DEF Begin, Login, ForgotPassword, ResetRead, serverVars, history
  <2> QED BY <2>1, <2>2 DEF Quiet
<1>5. CASE AccessExpires \/ Deactivate \/ UNCHANGED vars
  BY <1>5 DEF AccessExpires, Deactivate, vars, serverVars, history, Quiet
<1>6. ASSUME NEW k \in Call, CallStep(k) PROVE Quiet
  <2>1. CASE \/ EnsureCsrf(k, "ensure", "csrf", "send") \/ FetchCsrf(k, "csrf", "send", "send")
             \/ EnsureCsrf(k, "again", "fresh", "ensure") \/ FetchCsrf(k, "fresh", "ensure", "gone")
             \/ EnsureCsrf(k, "rensure", "rcsrf", "post") \/ FetchCsrf(k, "rcsrf", "post", "post")
             \/ EnsureCsrf(k, "renew", "fetch", "renewed") \/ FetchCsrf(k, "fetch", "renewed", "renewed")
             \/ EnsureCsrf(k, "warm", "wcsrf", "warmed") \/ FetchCsrf(k, "wcsrf", "warmed", "warmed")
    <3>1. \A f \in {"csrf", "fresh", "rcsrf", "fetch", "wcsrf", "send", "ensure", "post",
                   "renewed", "warmed", "gone"} : f \notin {"commit", "kicked"}
      OBVIOUS
    <3> QED BY <1>2, <1>7, <2>1, <3>1
  <2> QED BY <1>1, <1>3, <1>6, <2>1 DEF CallStep
<1> QED BY <1>4, <1>5, <1>6 DEF Next

\* The statements that write a token's row.
LEMMA RevokeRotates ==
  ASSUME SessionInv, NEW k \in Call, RefreshRevoke(k)
  PROVE  Rotates
<1>1. call \in [Call -> Calling] BY SplitTypes DEF SessionInv
<1>2. call[k].t \in Token BY DEF SessionInv, RefreshRevoke, At, Carries, Fits, WithToken
<1>3. UNCHANGED <<token, parent, early, crossed>> BY DEF RefreshRevoke, history
<1>0. Kicking'
  <2>1. \E l \in {"commit", "expired"} : Goto(k, l) BY DEF RefreshRevoke
  <2>2. ASSUME NEW k2 \in Call, At(k2, "kicked")' PROVE call'[k2] = call[k2]
    BY <1>1, <2>1, <2>2 DEF Goto, At, Calling
  <2> QED BY <1>3, <2>2 DEF SessionInv, Kicking, Crossing, At
<1>4. Rotating'
  <2>1. CASE token[call[k].t] = "live"
    <3>1. holder[call[k].t] = NoCall /\ holder' = [holder EXCEPT ![call[k].t] = k]
      BY <2>1 DEF RefreshRevoke
    <3>2. ASSUME NEW k2 \in Call, (At(k2, "commit"))'
          PROVE  (holder[call[k2].t] = k2 /\ token[call[k2].t] = "live")'
      <4>1. CASE k2 = k
        BY <1>1, <1>2, <1>3, <2>1, <3>1, <4>1 DEF RefreshRevoke, Goto, SessionInv, TypeOK, Calling
      <4>2. CASE k2 # k
        <5>1. call'[k2] = call[k2] /\ At(k2, "commit")
          BY <1>1, <3>2, <4>2 DEF RefreshRevoke, Goto, At
        <5>2. holder[call[k2].t] = k2 /\ token[call[k2].t] = "live"
          BY <5>1 DEF SessionInv, Rotating
        <5>3. call[k2].t # call[k].t BY <3>1, <5>2, NamesAssumption
        <5> QED BY <1>3, <3>1, <5>1, <5>2, <5>3 DEF SessionInv, TypeOK
      <4> QED BY <4>1, <4>2
    <3> QED BY <3>2 DEF Rotating
  <2>2. CASE token[call[k].t] # "live"
    <3>1. UNCHANGED holder /\ Goto(k, "expired") BY <2>2 DEF RefreshRevoke
    <3>2. \A k2 \in Call : call'[k2].pc \in {"commit", "kicked"} => call'[k2] = call[k2]
      BY <3>1, GotoElsewhere DEF SessionInv
    <3> QED BY <1>3, <3>1, <3>2 DEF SessionInv, Rotating, At
  <2> QED BY <2>1, <2>2
<1> QED BY <1>0, <1>3, <1>4 DEF SessionInv, Rotates, Spent, ResetStopsRenewal, OneSuccessor

\* A commit ends one live token and gives it its one successor.
LEMMA CommitRotates ==
  ASSUME SessionInv, NEW k \in Call, RefreshCommit(k)
  PROVE  Rotates
<1> DEFINE n == FirstOf(Unused(Token, token))
           t == call[k].t
<1>1. call \in [Call -> Calling] BY SplitTypes DEF SessionInv
<1>2. n \in Token /\ token[n] = "none" BY FirstTokenIn DEF RefreshCommit
<1>3. t \in Token /\ token[t] = "live" /\ holder[t] = k
  BY DEF SessionInv, RefreshCommit, At, Carries, Fits, WithToken, Rotating
<1>4. /\ token' = [token EXCEPT ![t] = "revoked", ![n] = "live"]
      /\ holder' = [holder EXCEPT ![t] = NoCall]
      /\ parent' = [parent EXCEPT ![n] = t]
      /\ call' = [call EXCEPT ![k].pc = "rotated", ![k].t = n]
      /\ early' = early
      /\ crossed' = IF \E j \in Call : At(j, "kicked") /\ t \in call[j].seen
                     THEN crossed \cup {n} ELSE crossed
  BY DEF RefreshCommit
<1> HIDE DEF n, t
<1>5. \A u \in Token : token[u] = "revoked" => token'[u] = "revoked"
  BY <1>2, <1>3, <1>4 DEF SessionInv, TypeOK
<1>6. token'[t] = "revoked" BY <1>2, <1>3, <1>4 DEF SessionInv, TypeOK
<1>7. ASSUME NEW k2 \in Call, (At(k2, "commit"))'
      PROVE  (holder[call[k2].t] = k2 /\ token[call[k2].t] = "live")'
  <2>1. k2 # k BY <1>1, <1>4, <1>7 DEF At
  <2>2. call'[k2] = call[k2] /\ At(k2, "commit") BY <1>1, <1>4, <1>7, <2>1 DEF At
  <2>3. call[k2].t \in Token /\ holder[call[k2].t] = k2 /\ token[call[k2].t] = "live"
    BY <2>2 DEF SessionInv, Rotating, Carries, Fits, At, WithToken
  <2>4. call[k2].t # t /\ call[k2].t # n BY <1>2, <1>3, <2>1, <2>3
  <2> QED BY <1>4, <2>2, <2>3, <2>4 DEF SessionInv, TypeOK
<1>8. \A m \in Token : parent[m] # t
  BY <1>3, NamesAssumption DEF SessionInv, Spent
<1>9. Spent'
  <2>1. \A m \in Token : parent'[m] # NoToken => token'[parent'[m]] = "revoked"
    BY <1>2, <1>4, <1>5, <1>6 DEF SessionInv, Spent, TypeOK
  <2>2. ASSUME NEW u \in early'
        PROVE  token'[u] = "revoked" /\ \A m \in Token : parent'[m] = u => m \in crossed'
    <3>1. u \in Token /\ token[u] = "revoked" /\ \A m \in Token : parent[m] = u => m \in crossed
      BY <1>4, <2>2 DEF SessionInv, Spent, ResetStopsRenewal, TypeOK
    <3>2. u # t BY <1>3, <3>1
    <3>3. \A m \in Token : parent'[m] = u => parent[m] = u
      BY <1>2, <1>4, <3>2 DEF SessionInv, TypeOK
    <3> QED BY <1>4, <1>5, <3>1, <3>3
  <2> QED BY <2>1, <2>2 DEF Spent, ResetStopsRenewal
<1>10. OneSuccessor' BY <1>2, <1>4, <1>8 DEF SessionInv, OneSuccessor, TypeOK
<1>11. ASSUME NEW k2 \in Call, At(k2, "kicked")' PROVE Crossing(call[k2])'
  <2>1. call'[k2] = call[k2] /\ At(k2, "kicked") BY <1>1, <1>4, <1>11 DEF At, Calling
  <2>2. Crossing(call[k2]) BY <2>1 DEF SessionInv, Kicking
  <2>3. ASSUME NEW u \in call[k2].seen, NEW m \in Token, parent'[m] = u PROVE m \in crossed'
    <3>1. CASE m = n
      <4>1. u = t BY <1>2, <1>4, <2>3, <3>1 DEF SessionInv, TypeOK
      <4> QED BY <1>4, <2>1, <2>3, <3>1, <4>1
    <3>2. CASE m # n
      <4>1. parent[m] = u BY <1>4, <2>3, <3>2 DEF SessionInv, TypeOK
      <4> QED BY <1>4, <2>2, <2>3, <4>1 DEF Crossing
    <3> QED BY <3>1, <3>2
  <2> QED BY <2>1, <2>3 DEF Crossing
<1> QED BY <1>7, <1>9, <1>10, <1>11 DEF Rotates, Rotating, Kicking

\* A reset that begins to end sessions finds none that has a successor.
LEMMA KickRotates ==
  ASSUME SessionInv, NEW k \in Call, ResetKick(k)
  PROVE  Rotates
<1>1. /\ call \in [Call -> Calling] /\ UNCHANGED <<token, holder, parent, early, crossed>>
      /\ call' = [call EXCEPT ![k].pc = "kicked", ![k].seen = Live]
  BY SplitTypes DEF SessionInv, ResetKick, serverVars, history
<1>2. call'[k].pc = "kicked" /\ call'[k].seen = Live BY <1>1 DEF Calling
<1>3. \A k2 \in Call : k2 # k => call'[k2] = call[k2] BY <1>1
<1>4. Rotating'
  <2>1. \A k2 \in Call : At(k2, "commit")' => call'[k2] = call[k2] BY <1>2, <1>3 DEF At
  <2> QED BY <1>1, <2>1 DEF SessionInv, Rotating, At
<1>5. Crossing(call[k])'
  <2>1. ASSUME NEW t \in Live, NEW n \in Token, parent[n] = t PROVE FALSE
    BY <2>1, NamesAssumption DEF SessionInv, Spent, Live
  <2> QED BY <1>1, <1>2, <2>1 DEF Crossing
<1>6. ASSUME NEW k2 \in Call, At(k2, "kicked")', k2 # k PROVE Crossing(call[k2])'
  BY <1>1, <1>3, <1>6 DEF SessionInv, Kicking, Crossing, At
<1> QED BY <1>1, <1>4, <1>5, <1>6
        DEF SessionInv, Rotates, Spent, Kicking, ResetStopsRenewal, OneSuccessor

\* The other statements spare a row that a refresh holds, and revive none.
LEMMA OthersRotate ==
  ASSUME SessionInv, NEW k \in Call, LogoutRevoke(k) \/ IssueTokens(k) \/ ResetCommit(k)
  PROVE  Rotates
<1>1. call \in [Call -> Calling] BY SplitTypes DEF SessionInv
<1>2. UNCHANGED <<holder, parent>> BY DEF LogoutRevoke, IssueTokens, ResetCommit, history
<1>3. \A k2 \in Call : call'[k2].pc \in {"commit", "kicked"} => call'[k2] = call[k2]
  BY <1>1, GotoElsewhere, EndElsewhere
     DEF SessionInv, LogoutRevoke, IssueTokens, ResetCommit, Calling
<1>4. /\ \A u \in Token : token[u] = "revoked" => token'[u] = "revoked"
      /\ \A u \in Token : token[u] = "live" /\ holder[u] # NoCall => token'[u] = "live"
      /\ \A u \in early' : token'[u] = "revoked"
                            /\ \A n \in Token : parent[n] = u => n \in crossed
      /\ crossed' = crossed
  <2>1. CASE LogoutRevoke(k)
    <3>1. call[k].t \in Token BY <2>1 DEF LogoutRevoke, At, SessionInv, Carries, Fits, WithToken
    <3> QED BY <2>1, <3>1 DEF LogoutRevoke, SessionInv, TypeOK, Spent, ResetStopsRenewal, history
  <2>2. CASE IssueTokens(k)
    <3> DEFINE n == FirstOf(Unused(Token, token))
    <3>1. n \in Token /\ token[n] = "none" BY <2>2, FirstTokenIn DEF IssueTokens
    <3>2. token' = [token EXCEPT ![n] = "live"] /\ early' = early /\ crossed' = crossed
      BY <2>2 DEF IssueTokens, history
    <3> HIDE DEF n
    <3> QED BY <3>1, <3>2 DEF SessionInv, TypeOK, Spent, ResetStopsRenewal
  <2>3. CASE ResetCommit(k)
    <3>1. call[k].seen \subseteq Token BY <1>1 DEF Calling
    <3>2. Crossing(call[k]) BY <2>3 DEF ResetCommit, SessionInv, Kicking
    <3> QED BY <2>3, <3>1, <3>2 DEF ResetCommit, SessionInv, TypeOK, Spent, ResetStopsRenewal, Crossing
  <2> QED BY <2>1, <2>2, <2>3
<1>5. Rotating'
  <2> SUFFICES ASSUME NEW k2 \in Call, (At(k2, "commit"))'
               PROVE  (holder[call[k2].t] = k2 /\ token[call[k2].t] = "live")'
    BY DEF Rotating
  <2>1. call'[k2] = call[k2] /\ At(k2, "commit") BY <1>3 DEF At
  <2>2. call[k2].t \in Token /\ holder[call[k2].t] = k2 /\ token[call[k2].t] = "live"
    BY <2>1 DEF SessionInv, Rotating, Carries, Fits, At, WithToken
  <2>3. k2 # NoCall BY NamesAssumption
  <2> QED BY <1>2, <1>4, <2>1, <2>2, <2>3
<1>6. Spent'
  BY <1>2, <1>4 DEF SessionInv, Spent, ResetStopsRenewal, TypeOK
<1>7. Kicking'
  BY <1>2, <1>3, <1>4 DEF SessionInv, Kicking, Crossing, At
<1> QED BY <1>2, <1>5, <1>6, <1>7 DEF SessionInv, Rotates, OneSuccessor

--------------------------------------------------------------------------------
(* The theorems.                                                           *)

\* Every step keeps the sessions' invariant and rotates one token for another.
LEMMA SessionStep ==
  ASSUME SessionInv, [Next]_vars
  PROVE  SessionInv' /\ Rotates
<1>1. Rotates
  BY QuietSteps, QuietRotates, RevokeRotates, CommitRotates, OthersRotate, KickRotates DEF SessionInv
<1>2. TypeOK' /\ Carries' BY NextTypes DEF SessionInv
<1> QED BY <1>1, <1>2 DEF SessionInv, Rotates

\* The browser's first token is the only one, and nobody has renewed it yet.
LEMMA InitSession ==
  ASSUME Init
  PROVE  SessionInv
<1>1. 1 \in Token
  <2> DEFINE N == Cardinality(Token)
  <2>1. N \in Nat BY TokenAssumption, FS_CardinalityType
  <2>2. N >= 1 BY <2>1, TokenAssumption
  <2> QED BY <2>1, <2>2, TokenAssumption
<1>2. limits.calls \in 1 .. 5 /\ limits.faults \in 0 .. 2
  BY LimitsAssumption DEF Init
<1>3. cookie \in Jar BY <1>1 DEF Init, Jar
<1>4. RestOK BY <1>2, <1>3 DEF Init, RestOK
<1>5. call \in [Call -> Calling] /\ Carries BY SilentType DEF Init, Carries
<1>6. Rotating /\ Spent /\ Kicking /\ OneSuccessor
  BY DEF Init, Rotating, At, Silent, Spent, ResetStopsRenewal, Kicking, OneSuccessor
<1> QED BY <1>4, <1>5, <1>6, SplitTypes DEF SessionInv

\* Rotation and what it rests on hold in every reachable state, for any number of
\* tokens, calls and tabs.
THEOREM SessionsSound == Spec => []SessionInv
<1>1. SessionInv /\ [Next]_vars => SessionInv' BY SessionStep
<1> QED BY InitSession, <1>1, PTL DEF Spec

\* Every variable of Sessions keeps its type.
THEOREM SessionTypes == Spec => []TypeOK
<1>1. SessionInv => TypeOK BY DEF SessionInv
<1> QED BY <1>1, SessionsSound, PTL

\* However many calls and tabs present one refresh token at the same time, at most
\* one gets a successor for it (AuthService.refresh: updateMany with revokedAt: null).
THEOREM AtMostOneSuccessor == Spec => []OneSuccessor
<1>1. SessionInv => OneSuccessor BY DEF SessionInv
<1> QED BY <1>1, SessionsSound, PTL

\* Once a password reset has committed, every session that was open when its statement
\* ran is ended and none of them has been renewed, by a refresh that had read its token
\* as good before either; the one successor such a session can have is of a refresh
\* that had written its row and committed while the reset waited for that row
\* (auth.service.ts:182-202 against 309-313).
THEOREM NoRenewalAfterReset == Spec => []ResetStopsRenewal
<1>1. SessionInv => ResetStopsRenewal BY DEF SessionInv, Spent
<1> QED BY <1>1, SessionsSound, PTL

--------------------------------------------------------------------------------
(* Browser and server in step: one call at a time and no failure.          *)
(*                                                                         *)
(* BrowserInStep says nothing of the tokens, cookies and CSRF values that  *)
(* keep a call from the login page, so it is not inductive.  Aware says,   *)
(* step by step, what the call in flight knows of the jar; Kept, that the  *)
(* jar's refresh token is live but while its successor travels; Owned,     *)
(* that the server has no other live token.                                *)

OneByOne == limits.serial /\ limits.faults = 0
Solo(k) == \A j \in Call : j # k => At(j, "idle")
Lone == \A k \in Call : ~At(k, "idle") => Solo(k)
Stays == limits.ops \cap {"logout", "reset"} = {}
Refreshing == {"rread", "revoke", "commit"}

\* What a call of an active user can rely on at each of its steps.
Aware(k) ==
  LET c == call[k]
      m == memory[TabOf(k)] IN
  c.pc # "idle" =>
  /\ c.pc \notin {"expired", "out", "left", "kick", "kicked"} /\ c.op # "logout"
  /\ c.pc = "forbidden" => ~c.csrfRetried
  /\ c.retried => cookie.access
  /\ c.pc \in {"unauthorized", "rensure", "rcsrf", "post"} => ~cookie.access
  /\ c.pc \in {"renew", "fetch", "renewed"} => cookie.access /\ c.t # NoToken
  /\ c.pc \in Refreshing => c.t = cookie.refresh
  /\ c.pc \in {"rotated", "signed"} => token[c.t] = "live"
  /\ c.pc \in {"renew", "again"} => m = NoToken
  /\ c.pc = "renewed" => m = cookie.csrf
  /\ c.csrfRetried /\ c.pc = "ensure" => m \in {NoToken, cookie.csrf}
  /\ c.csrfRetried /\ c.pc = "send" /\ c.op = "write" =>
       c.header # NoToken /\ c.header = cookie.csrf

\* The jar's refresh token is live, but for the time its successor travels.
Kept == (\A k \in Call : ~At(k, "rotated")) =>
          cookie.refresh \in Token /\ token[cookie.refresh] = "live"

\* The only live token is the jar's, or the successor on its way to it.
Owned ==
  /\ \A k \in Call : /\ call[k].pc \in Refreshing \cup {"out"} => call[k].t = cookie.refresh
                     /\ call[k].pc = "left" => Live = {}
                     /\ call[k].pc \notin {"issue", "signed"}
                     /\ At(k, "rotated") => Live \subseteq {call[k].t}
  /\ (\A k \in Call : ~At(k, "rotated")) => Live \subseteq {cookie.refresh}

\* The inductive strengthening of BrowserInStep.
InStep ==
  OneByOne => /\ Lone
              /\ active /\ Stays => Kept /\ \A k \in Call : Aware(k)
              /\ "login" \notin limits.ops => Owned

\* Without faults every request is answered.
LEMMA NoFault ==
  ASSUME TypeOK, OneByOne
  PROVE  ~Fault
  BY DEF TypeOK, OneByOne, Fault

\* What one user's call or its beginning does to the calls in flight.
Acts(k) == \/ CallStep(k) \/ (\E op \in Operations : Begin(k, op)) \/ Login(k)
           \/ ForgotPassword(k) \/ \E l \in Link : ResetRead(k, l)

\* A step of one call leaves the other calls as they were.
LEMMA OthersRest ==
  ASSUME TypeOK, NEW k \in Call, Acts(k)
  PROVE  /\ limits' = limits
         /\ \A j \in Call : j # k => call'[j] = call[j]
<1>0. call \in [Call -> Calling] BY SplitTypes
<1>1. CASE CallStep(k)
  <2>1. CASE \/ Send(k) \/ Served(k) \/ Gone(k) \/ Unauthorized(k) \/ Forbidden(k)
             \/ PostRefresh(k) \/ RefreshRead(k) \/ RefreshRevoke(k) \/ RefreshCommit(k)
    BY <1>0, <2>1 DEF Send, Served, Gone, Unauthorized, Forbidden, PostRefresh, RefreshRead,
         RefreshRevoke, RefreshCommit, Goto, End
  <2>2. CASE \/ Rotated(k) \/ Renewed(k) \/ Expired(k) \/ Warmed(k) \/ PostLogout(k)
             \/ LogoutRevoke(k) \/ Left(k) \/ IssueTokens(k) \/ SignedIn(k) \/ ResetKick(k)
             \/ ResetCommit(k)
    BY <1>0, <2>2 DEF Rotated, Renewed, Again, Expired, Warmed, PostLogout, LogoutRevoke, Left,
         IssueTokens, SignedIn, ResetKick, ResetCommit, Goto, End
  <2>3. CASE \/ EnsureCsrf(k, "ensure", "csrf", "send") \/ FetchCsrf(k, "csrf", "send", "send")
             \/ EnsureCsrf(k, "again", "fresh", "ensure") \/ FetchCsrf(k, "fresh", "ensure", "gone")
             \/ EnsureCsrf(k, "rensure", "rcsrf", "post") \/ FetchCsrf(k, "rcsrf", "post", "post")
             \/ EnsureCsrf(k, "renew", "fetch", "renewed") \/ FetchCsrf(k, "fetch", "renewed", "renewed")
             \/ EnsureCsrf(k, "warm", "wcsrf", "warmed") \/ FetchCsrf(k, "wcsrf", "warmed", "warmed")
    BY <1>0, <2>3 DEF EnsureCsrf, FetchCsrf, Goto
  <2> QED BY <1>1, <2>1, <2>2, <2>3 DEF CallStep
<1>2. CASE ~CallStep(k)
  BY <1>0, <1>2 DEF Acts, Begin, Login, ForgotPassword, ResetRead, Start
<1> QED BY <1>1, <1>2

\* A step of a call is never one of an idle call.
LEMMA StepsAreBusy ==
  ASSUME NEW k \in Call, CallStep(k)
  PROVE  ~At(k, "idle")
  BY DEF CallStep, EnsureCsrf, FetchCsrf, Send, Served, Gone, Unauthorized, Forbidden,
       PostRefresh, RefreshRead, RefreshRevoke, RefreshCommit, Rotated, Renewed, Expired,
       Warmed, PostLogout, LogoutRevoke, Left, IssueTokens, SignedIn, ResetKick, ResetCommit, At

\* Who acts is alone, and stays so.
LEMMA ActorIsAlone ==
  ASSUME TypeOK, OneByOne, Lone, NEW k \in Call, Acts(k)
  PROVE  Solo(k) /\ Solo(k)' /\ Lone'
<1>1. Solo(k)
  <2>1. CASE CallStep(k) BY <2>1, StepsAreBusy DEF Lone
  <2>2. CASE ~CallStep(k)
    BY <2>2 DEF Acts, Begin, Login, ForgotPassword, ResetRead, Start, OneByOne, Solo
  <2> QED BY <2>1, <2>2
<1>2. Solo(k)' BY <1>1, OthersRest DEF Solo, At
<1>3. Lone' BY <1>2 DEF Lone, Solo
<1> QED BY <1>1, <1>2, <1>3

\* What a step starts from, where a call of an active user is the only one.
Ready(k) ==
  /\ TypeOK /\ Carries /\ OneByOne /\ Solo(k) /\ active /\ Stays /\ Kept /\ Aware(k)

\* The jar's token and its row are kept by a step that writes neither and does not
\* come from a rotation.
LEMMA KeptStays ==
  ASSUME NEW k \in Call, Ready(k), ~At(k, "rotated"), UNCHANGED token,
         cookie'.refresh = cookie.refresh
  PROVE  cookie.refresh \in Token /\ token[cookie.refresh] = "live" /\ Kept'
<1>1. \A j \in Call : ~At(j, "rotated") BY DEF Ready, Solo, At
<1> QED BY <1>1 DEF Ready, Kept

\* The token the client has at hand is the tab's, or the legible cookie's.
LEMMA CachedToken ==
  ASSUME NEW k \in Call
  PROVE  \/ getCachedCsrfToken(k) = memory[TabOf(k)]
         \/ memory[TabOf(k)] = NoToken /\ getCachedCsrfToken(k) = cookie.csrf
<1>1. CASE memory[TabOf(k)] = NoToken /\ limits.legible BY <1>1 DEF getCachedCsrfToken
<1>2. CASE ~(memory[TabOf(k)] = NoToken /\ limits.legible) BY <1>2 DEF getCachedCsrfToken
<1> QED BY <1>1, <1>2

\* Fetching a CSRF token keeps the browser in step.
LEMMA CsrfAware ==
  ASSUME NEW k \in Call, Ready(k),
         NEW here, NEW fetch, NEW next, NEW failed,
         <<here, fetch, next>> \in {<<"ensure", "csrf", "send">>, <<"again", "fresh", "ensure">>,
                                    <<"rensure", "rcsrf", "post">>, <<"renew", "fetch", "renewed">>,
                                    <<"warm", "wcsrf", "warmed">>},
         EnsureCsrf(k, here, fetch, next) \/ FetchCsrf(k, fetch, next, failed)
  PROVE  Aware(k)' /\ Kept'
<1>0. /\ call \in [Call -> Calling] /\ call[k] \in Calling /\ cookie \in Jar
      /\ memory \in [Tab -> Csrf \cup {NoToken}] /\ TabOf(k) \in Tab
      /\ limits' = limits
  BY LimitsAssumption DEF Ready, TypeOK, TabOf, EnsureCsrf, FetchCsrf
<1>1. CASE EnsureCsrf(k, here, fetch, next)
  <2> DEFINE m == getCachedCsrfToken(k)
  <2>1. /\ call' = [call EXCEPT ![k].pc = IF m = NoToken THEN fetch ELSE next, ![k].header = m]
        /\ memory' = [memory EXCEPT ![TabOf(k)] = m]
    BY <1>1 DEF EnsureCsrf
  <2>6. m = memory[TabOf(k)] \/ (memory[TabOf(k)] = NoToken /\ m = cookie.csrf)
    BY CachedToken
  <2> HIDE DEF m
  <2>2. /\ call'[k].pc = IF m = NoToken THEN fetch ELSE next
        /\ call'[k].header = m /\ call'[k].op = call[k].op /\ call'[k].t = call[k].t
        /\ call'[k].retried = call[k].retried /\ call'[k].csrfRetried = call[k].csrfRetried
    BY <1>0, <2>1 DEF Calling
  <2>3. /\ UNCHANGED <<cookie, token>> /\ TabOf(k)' = TabOf(k) /\ call[k].pc = here
        /\ memory'[TabOf(k)] = m
    BY <1>0, <1>1, <2>1 DEF EnsureCsrf, serverVars, TabOf, At
  <2>4. Kept' BY <2>3, KeptStays DEF At
  <2>5. Aware(k)' BY <2>2, <2>3, <2>6 DEF Aware, Ready, Refreshing
  <2> QED BY <2>4, <2>5
<1>2. CASE FetchCsrf(k, fetch, next, failed)
  <2>1. NewCsrf \in Csrf /\ NewCsrf # NoToken
    BY <1>2, NewCsrfIn, NamesAssumption DEF FetchCsrf
  <2>2. /\ cookie' = [cookie EXCEPT !.csrf = NewCsrf]
        /\ memory' = [memory EXCEPT ![TabOf(k)] = NewCsrf]
        /\ call' = [call EXCEPT ![k].pc = next, ![k].header = NewCsrf]
    BY <1>2, NoFault DEF FetchCsrf, Ready
  <2>3. /\ call'[k].pc = next /\ call'[k].header = NewCsrf
        /\ call'[k].op = call[k].op /\ call'[k].t = call[k].t
        /\ call'[k].retried = call[k].retried /\ call'[k].csrfRetried = call[k].csrfRetried
    BY <1>0, <2>2 DEF Calling
  <2>4. /\ cookie'.csrf = NewCsrf /\ cookie'.access = cookie.access
        /\ cookie'.refresh = cookie.refresh /\ memory'[TabOf(k)] = NewCsrf
    BY <1>0, <2>2 DEF Jar
  <2>5. UNCHANGED token /\ TabOf(k)' = TabOf(k) /\ call[k].pc = fetch
    BY <1>0, <1>2 DEF FetchCsrf, serverVars, TabOf, At
  <2>6. Kept' BY <2>4, <2>5, KeptStays DEF At
  <2>7. Aware(k)' BY <2>1, <2>3, <2>4, <2>5 DEF Aware, Ready, Refreshing
  <2> QED BY <2>6, <2>7
<1> QED BY <1>1, <1>2

\* What Goto does to the call.
LEMMA GotoRec ==
  ASSUME TypeOK, NEW k \in Call, NEW l, Goto(k, l)
  PROVE  /\ call'[k].pc = l /\ call'[k].header = call[k].header
         /\ call'[k].op = call[k].op /\ call'[k].t = call[k].t
         /\ call'[k].retried = call[k].retried /\ call'[k].csrfRetried = call[k].csrfRetried
  BY DEF TypeOK, Goto, Calling

\* Sending a request and reading its answer keep the browser in step.
LEMMA ClientAware ==
  ASSUME NEW k \in Call, Ready(k),
         \/ Send(k) \/ Served(k) \/ Gone(k) \/ Unauthorized(k) \/ Forbidden(k) \/ Warmed(k)
  PROVE  Aware(k)' /\ Kept'
<1>0. /\ call \in [Call -> Calling] /\ call[k] \in Calling /\ TypeOK /\ limits' = limits
      /\ cookie' = cookie /\ token' = token /\ TabOf(k)' = TabOf(k) /\ TabOf(k) \in Tab
  BY LimitsAssumption DEF Ready, TypeOK, Send, Served, Gone, Unauthorized, Forbidden, Warmed,
       serverVars, client, TabOf
<1>1. ~At(k, "rotated") BY DEF Send, Served, Gone, Unauthorized, Forbidden, Warmed, At
<1>2. Kept' BY <1>0, <1>1, KeptStays
<1>3. CASE End(k)
  <2>1. call'[k].pc = "idle" BY <1>0, <1>3 DEF End, Silent
  <2> QED BY <1>2, <2>1 DEF Aware
<1>4. CASE Send(k)
  <2>1. Goto(k, IF ~Validate THEN "unauthorized"
                ELSE IF call[k].op = "write" /\ ~CsrfGuard(k) THEN "forbidden" ELSE "served")
    BY <1>4, NoFault DEF Send, Ready
  <2>2. call[k].pc = "send" BY <1>4 DEF Send, At
  <2>3. CASE ~Validate
    <3>1. Goto(k, "unauthorized") BY <2>1, <2>3
    <3> QED BY <1>0, <1>2, <2>2, <2>3, <3>1, GotoRec DEF Aware, Ready, Refreshing, Validate
  <2>4. CASE Validate /\ call[k].op = "write" /\ ~CsrfGuard(k)
    <3>1. Goto(k, "forbidden") BY <2>1, <2>4
    <3>2. ~call[k].csrfRetried BY <2>2, <2>4 DEF Aware, Ready, CsrfGuard
    <3> QED BY <1>0, <1>2, <2>2, <3>1, <3>2, GotoRec DEF Aware, Ready, Refreshing
  <2>5. CASE Validate /\ ~(call[k].op = "write" /\ ~CsrfGuard(k))
    <3>1. Goto(k, "served") BY <2>1, <2>5
    <3> QED BY <1>0, <1>2, <2>2, <3>1, GotoRec DEF Aware, Ready, Refreshing
  <2> QED BY <2>3, <2>4, <2>5
<1>5. CASE Served(k) /\ ~End(k)
  <2>1. Goto(k, "warm") /\ call[k].pc = "served" BY <1>5 DEF Served, At
  <2> QED BY <1>0, <1>2, <2>1, GotoRec DEF Aware, Ready, Refreshing
<1>6. CASE Unauthorized(k)
  <2>1. call[k].pc = "unauthorized" /\ ~call[k].retried
    BY <1>6 DEF Unauthorized, At, Aware, Ready
  <2>2. Goto(k, "rensure") BY <1>6, <2>1 DEF Unauthorized
  <2> QED BY <1>0, <1>2, <2>1, <2>2, GotoRec DEF Aware, Ready, Refreshing
<1>7. CASE Forbidden(k)
  <2>1. call[k].pc = "forbidden" /\ ~call[k].csrfRetried
    BY <1>7 DEF Forbidden, At, Aware, Ready
  <2>2. /\ memory' = [memory EXCEPT ![TabOf(k)] = NoToken]
        /\ call' = [call EXCEPT ![k].pc = "again", ![k].csrfRetried = TRUE, ![k].header = NoToken]
    BY <1>7, <2>1 DEF Forbidden
  <2>3. memory'[TabOf(k)] = NoToken BY <1>0, <2>2 DEF TypeOK
  <2>4. /\ call'[k].pc = "again" /\ call'[k].op = call[k].op /\ call'[k].t = call[k].t
        /\ call'[k].retried = call[k].retried
    BY <1>0, <2>2 DEF Calling
  <2> QED BY <1>0, <1>2, <2>1, <2>3, <2>4 DEF Aware, Ready, Refreshing
<1> QED BY <1>3, <1>4, <1>5, <1>6, <1>7 DEF Gone, Warmed

\* Asking for a rotation keeps the browser in step until it commits.
LEMMA RefreshAware ==
  ASSUME NEW k \in Call, Ready(k), PostRefresh(k) \/ RefreshRead(k) \/ RefreshRevoke(k)
  PROVE  Aware(k)' /\ Kept'
<1>0. /\ call \in [Call -> Calling] /\ call[k] \in Calling /\ TypeOK /\ active
      /\ cookie' = cookie /\ token' = token /\ limits' = limits /\ TabOf(k)' = TabOf(k)
  BY DEF Ready, TypeOK, PostRefresh, RefreshRead, RefreshRevoke, serverVars, client, TabOf
<1>1. ~At(k, "rotated") BY DEF PostRefresh, RefreshRead, RefreshRevoke, At
<1>2. Kept' /\ cookie.refresh \in Token /\ token[cookie.refresh] = "live"
  BY <1>0, <1>1, KeptStays
<1>3. CASE PostRefresh(k)
  <2>1. call[k].pc = "post" /\ ~cookie.access BY <1>3 DEF PostRefresh, At, Aware, Ready
  <2>2. CsrfGuard(k) /\ cookie.refresh # NoToken
    BY <1>2, <2>1, NamesAssumption DEF CsrfGuard
  <2>3. call' = [call EXCEPT ![k].pc = "rread", ![k].t = cookie.refresh]
    BY <1>3, <2>2 DEF PostRefresh
  <2>4. /\ call'[k].pc = "rread" /\ call'[k].op = call[k].op /\ call'[k].t = cookie.refresh
        /\ call'[k].retried = call[k].retried /\ call'[k].csrfRetried = call[k].csrfRetried
    BY <1>0, <2>3 DEF Calling
  <2> QED BY <1>0, <1>2, <2>1, <2>4 DEF Aware, Ready, Refreshing
<1>4. CASE RefreshRead(k)
  <2>1. call[k].pc = "rread" BY <1>4 DEF RefreshRead, At
  <2>2. token[call[k].t] = "live" BY <1>2, <2>1 DEF Aware, Ready, Refreshing
  <2>3. Goto(k, "revoke") BY <1>0, <1>4, <2>2 DEF RefreshRead
  <2> QED BY <1>0, <1>2, <2>1, <2>3, GotoRec DEF Aware, Ready, Refreshing
<1>5. CASE RefreshRevoke(k)
  <2>1. call[k].pc = "revoke" BY <1>5 DEF RefreshRevoke, At
  <2>2. token[call[k].t] = "live" BY <1>2, <2>1 DEF Aware, Ready, Refreshing
  <2>3. Goto(k, "commit") BY <1>0, <1>5, <2>2 DEF RefreshRevoke
  <2> QED BY <1>0, <1>2, <2>1, <2>3, GotoRec DEF Aware, Ready, Refreshing
<1> QED BY <1>3, <1>4, <1>5

\* A rotation that commits is known to its own call, which renews the cookies.
LEMMA RotationAware ==
  ASSUME NEW k \in Call, Ready(k),
         RefreshCommit(k) \/ Rotated(k) \/ Renewed(k) \/ IssueTokens(k) \/ SignedIn(k)
  PROVE  Aware(k)' /\ Kept'
<1>0. /\ call \in [Call -> Calling] /\ call[k] \in Calling /\ TypeOK /\ limits' = limits
      /\ TabOf(k)' = TabOf(k) /\ TabOf(k) \in Tab /\ token \in [Token -> {"none", "live", "revoked"}]
      /\ cookie \in Jar
  BY LimitsAssumption DEF Ready, TypeOK, RefreshCommit, Rotated, Renewed, IssueTokens,
       SignedIn, serverVars, client, TabOf
<1>1. CASE RefreshCommit(k)
  <2> DEFINE n == FirstOf(Unused(Token, token))
  <2>1. n \in Token BY <1>1, FirstTokenIn DEF RefreshCommit
  <2>2. /\ token' = [token EXCEPT ![call[k].t] = "revoked", ![n] = "live"]
        /\ call' = [call EXCEPT ![k].pc = "rotated", ![k].t = n]
        /\ call[k].pc = "commit" /\ cookie' = cookie /\ memory' = memory
    BY <1>1 DEF RefreshCommit, At, client
  <2> HIDE DEF n
  <2>3. /\ call'[k].pc = "rotated" /\ call'[k].op = call[k].op /\ call'[k].t = n
        /\ call'[k].retried = call[k].retried /\ call'[k].csrfRetried = call[k].csrfRetried
    BY <1>0, <2>2 DEF Calling
  <2>4. token'[n] = "live" BY <1>0, <2>1, <2>2
  <2>5. Kept' BY <2>3 DEF Kept, At
  <2>6. Aware(k)' BY <1>0, <2>2, <2>3, <2>4 DEF Aware, Ready, Refreshing
  <2> QED BY <2>5, <2>6
<1>2. ASSUME NEW l, SetAuthCookies(call[k].t), Goto(k, l), Fresh # {}, UNCHANGED token,
             l \in {"renew", "warm"}, call[k].pc \in {"rotated", "signed"},
             l = "renew" => memory'[TabOf(k)] = NoToken
      PROVE  Aware(k)' /\ Kept'
  <2>1. call[k].t \in Token /\ token[call[k].t] = "live" /\ call[k].t # NoToken
    BY <1>2, NamesAssumption DEF Ready, Carries, Fits, WithToken, Aware
  <2>2. cookie'.access /\ cookie'.refresh = call[k].t BY <1>2 DEF SetAuthCookies
  <2>3. Kept' BY <1>2, <2>1, <2>2 DEF Kept
  <2>4. Aware(k)' BY <1>0, <1>2, <2>1, <2>2, GotoRec DEF Aware, Ready, Refreshing
  <2> QED BY <2>3, <2>4
<1>3. CASE Rotated(k)
  <2>1. /\ SetAuthCookies(call[k].t) /\ Goto(k, "renew") /\ Fresh # {} /\ UNCHANGED token
        /\ memory' = [memory EXCEPT ![TabOf(k)] = NoToken] /\ call[k].pc = "rotated"
    BY <1>3, NoFault DEF Rotated, Ready, serverVars, At
  <2>2. memory'[TabOf(k)] = NoToken BY <1>0, <2>1 DEF TypeOK
  <2> QED BY <1>2, <2>1, <2>2
<1>4. CASE SignedIn(k)
  <2>1. /\ SetAuthCookies(call[k].t) /\ Goto(k, "warm") /\ Fresh # {} /\ UNCHANGED token
        /\ call[k].pc = "signed"
    BY <1>4, NoFault DEF SignedIn, Ready, serverVars, At
  <2> QED BY <1>2, <2>1
<1>5. CASE Renewed(k)
  <2>1. /\ call[k].pc = "renewed" /\ UNCHANGED <<token, cookie, memory>>
        /\ call' = [call EXCEPT ![k].pc = IF call[k].op \in {"me", "read"} THEN "send" ELSE "ensure",
                       ![k].retried = TRUE, ![k].header = NoToken, ![k].t = NoToken,
                       ![k].seen = {}]
    BY <1>5 DEF Renewed, Again, At, serverVars, client
  <2>2. /\ call'[k].pc = IF call[k].op \in {"me", "read"} THEN "send" ELSE "ensure"
        /\ call'[k].op = call[k].op /\ call'[k].csrfRetried = call[k].csrfRetried
    BY <1>0, <2>1 DEF Calling
  <2>3. Kept' BY <2>1, KeptStays DEF At
  <2>4. cookie.access /\ memory[TabOf(k)] = cookie.csrf /\ call[k].op # "logout"
    BY <2>1 DEF Aware, Ready
  <2>5. Aware(k)'
    <3>1. CASE call[k].op \in {"me", "read"}
      BY <1>0, <2>1, <2>2, <2>4, <3>1 DEF Aware, Refreshing
    <3>2. CASE call[k].op \notin {"me", "read"}
      BY <1>0, <2>1, <2>2, <2>4, <3>2 DEF Aware, Refreshing
    <3> QED BY <3>1, <3>2
  <2> QED BY <2>3, <2>5
<1>6. CASE IssueTokens(k)
  <2> DEFINE n == FirstOf(Unused(Token, token))
  <2>1. n \in Token /\ token[n] = "none" BY <1>6, FirstTokenIn DEF IssueTokens
  <2>2. /\ token' = [token EXCEPT ![n] = "live"]
        /\ call' = [call EXCEPT ![k].pc = "signed", ![k].t = n]
        /\ call[k].pc = "issue" /\ cookie' = cookie /\ memory' = memory
    BY <1>6 DEF IssueTokens, At, client
  <2> HIDE DEF n
  <2>3. /\ call'[k].pc = "signed" /\ call'[k].op = call[k].op /\ call'[k].t = n
        /\ call'[k].retried = call[k].retried /\ call'[k].csrfRetried = call[k].csrfRetried
    BY <1>0, <2>2 DEF Calling
  <2>4. \A j \in Call : ~At(j, "rotated") BY <2>2 DEF Ready, Solo, At
  <2>5. cookie.refresh \in Token /\ token[cookie.refresh] = "live" BY <2>4 DEF Ready, Kept
  <2>6. token'[n] = "live" /\ token'[cookie.refresh] = "live" BY <1>0, <2>1, <2>2, <2>5
  <2>7. Kept' BY <2>2, <2>5, <2>6 DEF Kept
  <2>8. Aware(k)' BY <1>0, <2>2, <2>3, <2>6 DEF Aware, Ready, Refreshing
  <2> QED BY <2>7, <2>8
<1> QED BY <1>1, <1>3, <1>4, <1>5, <1>6

\* A call that begins knows nothing yet.
LEMMA BeginAware ==
  ASSUME NEW k \in Call, Ready(k),
         \/ \E op \in Operations : Begin(k, op)
         \/ Login(k) \/ ForgotPassword(k) \/ \E l \in Link : ResetRead(k, l)
  PROVE  Aware(k)' /\ Kept'
<1>0. /\ call \in [Call -> Calling] /\ At(k, "idle") /\ limits' = limits
      /\ UNCHANGED <<token, cookie>>
  BY SplitTypes DEF Ready, Begin, Login, ForgotPassword, ResetRead, Start, serverVars, client
<1>1. Kept' BY <1>0, KeptStays DEF At
<1>2. PICK op \in {"me", "read", "write", "login", "forgot"}, pc \in {"send", "ensure", "issue", "idle"} :
        call'[k] = [Silent EXCEPT !.op = op, !.pc = pc]
  <2>1. ASSUME NEW op, Start(k, op, "send") \/ Start(k, op, "ensure") \/ Start(k, op, "issue")
                         \/ Start(k, op, "idle")
        PROVE  op \in limits.ops
               /\ \E pc \in {"send", "ensure", "issue", "idle"} :
                    call'[k] = [Silent EXCEPT !.op = op, !.pc = pc]
    BY <1>0, <2>1 DEF Start
  <2>2. "logout" \notin limits.ops /\ "reset" \notin limits.ops BY DEF Ready, Stays
  <2>3. CASE \E op \in Operations : Begin(k, op)
    <3>1. PICK op \in Operations : Begin(k, op) BY <2>3
    <3>2. Start(k, op, "send") \/ Start(k, op, "ensure") BY <3>1 DEF Begin
    <3>3. op \in {"me", "read", "write"} BY <2>1, <2>2, <3>2 DEF Operations
    <3> QED BY <2>1, <3>2, <3>3
  <2>4. CASE Login(k) BY <2>1, <2>4 DEF Login
  <2>5. CASE ForgotPassword(k) BY <2>1, <2>5 DEF ForgotPassword
  <2>6. ~\E l \in Link : ResetRead(k, l) BY <2>2 DEF ResetRead
  <2> QED BY <2>3, <2>4, <2>5, <2>6
<1>3. /\ call'[k].pc = pc /\ call'[k].op = op /\ ~call'[k].retried /\ ~call'[k].csrfRetried
  BY <1>2 DEF Silent
<1>4. Aware(k)' BY <1>3 DEF Aware, Refreshing
<1> QED BY <1>1, <1>4

\* Every step of a call alone keeps the browser in step.
LEMMA AwareStep ==
  ASSUME NEW k \in Call, Ready(k), Acts(k)
  PROVE  Kept' /\ \A j \in Call : Aware(j)'
<1>0. \/ call[k].pc \notin {"expired", "out", "left", "kick", "kicked"} /\ call[k].op # "logout"
      \/ At(k, "idle")
  BY DEF Ready, Aware, At
<1>1. Aware(k)' /\ Kept'
  <2>1. CASE CallStep(k)
    <3>1. ~(Expired(k) \/ PostLogout(k) \/ LogoutRevoke(k) \/ Left(k) \/ ResetKick(k) \/ ResetCommit(k))
      BY <1>0, <2>1, StepsAreBusy
         DEF Expired, PostLogout, LogoutRevoke, Left, ResetKick, ResetCommit, At
    <3> QED
      BY <2>1, <3>1, CsrfAware, ClientAware, RefreshAware, RotationAware DEF CallStep
  <2>2. CASE ~CallStep(k) BY <2>2, BeginAware DEF Acts
  <2> QED BY <2>1, <2>2
<1>2. Solo(k)' BY OthersRest DEF Ready, Solo, At
<1>3. ASSUME NEW j \in Call, j # k PROVE Aware(j)'
  BY <1>2, <1>3 DEF Solo, At, Aware
<1> QED BY <1>1, <1>2, <1>3

\* The same for the tokens: an instance without logins.
LEMMA OwnedStep ==
  ASSUME TypeOK, Carries, OneByOne, NEW k \in Call, Acts(k), Solo(k), Solo(k)',
         "login" \notin limits.ops, Owned
  PROVE  Owned'
<1>0. /\ call \in [Call -> Calling] /\ call[k] \in Calling /\ cookie \in Jar
      /\ token \in [Token -> {"none", "live", "revoked"}]
  BY DEF TypeOK
<1>1. /\ call[k].pc \in Refreshing \cup {"out"} => call[k].t = cookie.refresh
      /\ call[k].pc = "left" => Live = {}
      /\ call[k].pc \notin {"issue", "signed"}
      /\ call[k].pc # "rotated" => Live \subseteq {cookie.refresh}
      /\ call[k].pc = "rotated" => Live \subseteq {call[k].t}
  BY DEF Owned, Solo, At
<1> DEFINE Mine == /\ call'[k].pc \in Refreshing \cup {"out"} => call'[k].t = cookie'.refresh
                   /\ call'[k].pc = "left" => Live' = {}
                   /\ call'[k].pc \notin {"issue", "signed"}
<1>2. ASSUME Mine, IF call'[k].pc = "rotated" THEN Live' \subseteq {call'[k].t}
                                                 ELSE Live' \subseteq {cookie'.refresh}
      PROVE  Owned'
  <2>1. \A j \in Call : j # k => call'[j].pc = "idle" BY DEF Solo, At
  <2> QED BY <1>2, <2>1 DEF Owned, At, Refreshing
<1>3. ASSUME NEW l, call'[k].pc = l, l \notin Refreshing \cup {"out", "left", "issue", "signed", "rotated"},
             UNCHANGED token, cookie'.refresh = cookie.refresh, call[k].pc # "rotated"
      PROVE  Owned'
  <2>1. Live' = Live BY <1>3 DEF Live
  <2>2. Mine BY <1>3
  <2> QED BY <1>1, <1>2, <1>3, <2>1, <2>2
<1>4. CASE \/ Send(k) \/ Served(k) \/ Gone(k) \/ Unauthorized(k) \/ Forbidden(k) \/ Warmed(k)
           \/ Expired(k)
  <2>1. UNCHANGED <<token, cookie>> /\ call[k].pc # "rotated"
    BY <1>4 DEF Send, Served, Gone, Unauthorized, Forbidden, Warmed, Expired, serverVars,
         client, At
  <2>2. call'[k].pc \in {"unauthorized", "forbidden", "served", "gone", "warm", "idle",
                         "expired", "rensure", "again"}
    BY <1>0, <1>4 DEF Send, Served, Gone, Unauthorized, Forbidden, Warmed, Expired, Goto, End,
         Calling, Silent
  <2> QED BY <1>3, <2>1, <2>2 DEF Refreshing
<1>5. ASSUME NEW here, NEW fetch, NEW next, NEW failed,
             <<here, fetch, next>> \in {<<"ensure", "csrf", "send">>, <<"again", "fresh", "ensure">>,
                                        <<"rensure", "rcsrf", "post">>, <<"renew", "fetch", "renewed">>,
                                        <<"warm", "wcsrf", "warmed">>},
             EnsureCsrf(k, here, fetch, next) \/ FetchCsrf(k, fetch, next, failed)
      PROVE  Owned'
  <2>1. UNCHANGED token /\ cookie'.refresh = cookie.refresh /\ call[k].pc # "rotated"
    BY <1>0, <1>5, NoFault DEF EnsureCsrf, FetchCsrf, serverVars, client, At, Jar
  <2>2. call'[k].pc \in {fetch, next}
    BY <1>0, <1>5, NoFault DEF EnsureCsrf, FetchCsrf, Calling
  <2> QED BY <1>3, <1>5, <2>1, <2>2 DEF Refreshing
<1>6. CASE PostRefresh(k) \/ RefreshRead(k) \/ RefreshRevoke(k)
  <2>1. UNCHANGED <<token, cookie>> /\ Live' = Live /\ call[k].pc # "rotated"
    BY <1>6 DEF PostRefresh, RefreshRead, RefreshRevoke, serverVars, client, At, Live
  <2>2. /\ call'[k].pc \in {"rread", "expired", "revoke", "commit"}
        /\ call'[k].pc # "expired" => call'[k].t = cookie.refresh
    BY <1>0, <1>1, <1>6 DEF PostRefresh, RefreshRead, RefreshRevoke, Goto, Calling, At, Refreshing
  <2>3. Mine BY <2>1, <2>2 DEF Refreshing
  <2> QED BY <1>1, <1>2, <2>1, <2>2, <2>3
<1>7. CASE RefreshCommit(k)
  <2> DEFINE n == FirstOf(Unused(Token, token))
  <2>1. n \in Token BY <1>7, FirstTokenIn DEF RefreshCommit
  <2>2. /\ token' = [token EXCEPT ![call[k].t] = "revoked", ![n] = "live"]
        /\ call' = [call EXCEPT ![k].pc = "rotated", ![k].t = n] /\ call[k].pc = "commit"
    BY <1>7 DEF RefreshCommit, At
  <2> HIDE DEF n
  <2>3. call[k].t \in Token BY <2>2 DEF Carries, Fits, WithToken
  <2>4. Live \subseteq {call[k].t} BY <1>1, <2>2 DEF Refreshing
  <2>5. Live' \subseteq {n} BY <1>0, <2>1, <2>2, <2>3, <2>4 DEF Live
  <2>6. call'[k].pc = "rotated" /\ call'[k].t = n BY <1>0, <2>2 DEF Calling
  <2>7. Mine BY <2>6 DEF Refreshing
  <2> QED BY <1>2, <2>5, <2>6, <2>7
<1>8. CASE Rotated(k)
  <2>1. /\ cookie'.refresh = call[k].t /\ call'[k].pc = "renew" /\ UNCHANGED token
        /\ call[k].pc = "rotated"
    BY <1>0, <1>8, NoFault DEF Rotated, SetAuthCookies, Goto, Calling, serverVars, At
  <2>2. Mine BY <2>1 DEF Refreshing
  <2>3. Live' \subseteq {cookie'.refresh} BY <1>1, <2>1 DEF Live
  <2> QED BY <1>2, <2>1, <2>2, <2>3
<1>9. CASE Renewed(k)
  <2>1. UNCHANGED <<token, cookie>> /\ call[k].pc = "renewed"
    BY <1>9 DEF Renewed, At, serverVars, client
  <2>2. call'[k].pc \in {"send", "ensure"} BY <1>0, <1>9 DEF Renewed, Again, Calling
  <2> QED BY <1>3, <2>1, <2>2 DEF Refreshing
<1>10. CASE PostLogout(k)
  <2>1. /\ UNCHANGED <<token, cookie>> /\ call[k].pc = "send" /\ Live' = Live
        /\ call' = [call EXCEPT ![k].t = cookie.refresh,
                      ![k].pc = IF ~CsrfGuard(k) THEN "forbidden"
                                ELSE IF cookie.refresh = NoToken THEN "left" ELSE "out"]
    BY <1>10, NoFault DEF PostLogout, At, serverVars, client, Live
  <2>2. /\ call'[k].pc \in {"forbidden", "left", "out"} /\ call'[k].t = cookie.refresh
        /\ call'[k].pc = "left" => cookie.refresh = NoToken
    BY <1>0, <2>1 DEF Calling
  <2>3. Live \subseteq {cookie.refresh} BY <1>1, <2>1
  <2>4. cookie.refresh = NoToken => Live = {} BY <2>3, NamesAssumption DEF Live
  <2>5. Mine BY <2>1, <2>2, <2>4
  <2> QED BY <1>2, <2>1, <2>2, <2>3, <2>5
<1>11. CASE LogoutRevoke(k)
  <2>1. /\ token' = [token EXCEPT ![call[k].t] = "revoked"] /\ call'[k].pc = "left"
        /\ call[k].pc = "out"
    BY <1>0, <1>11 DEF LogoutRevoke, Goto, Calling, At
  <2>2. call[k].t \in Token /\ Live \subseteq {call[k].t}
    BY <1>1, <2>1 DEF Carries, Fits, WithToken
  <2>3. Live' = {} BY <1>0, <2>1, <2>2 DEF Live
  <2>4. Mine BY <2>1, <2>3 DEF Refreshing
  <2> QED BY <1>2, <2>3, <2>4
<1>12. CASE Left(k)
  <2>1. UNCHANGED token /\ call'[k].pc = "gone" /\ call[k].pc = "left"
    BY <1>0, <1>12 DEF Left, Goto, Calling, At, serverVars
  <2>2. Live' = {} BY <1>1, <2>1 DEF Live
  <2>3. Mine BY <2>1 DEF Refreshing
  <2> QED BY <1>2, <2>2, <2>3
<1>13. CASE ResetKick(k)
  <2>1. UNCHANGED <<token, cookie>> /\ call[k].pc = "kick" /\ call'[k].pc = "kicked"
    BY <1>0, <1>13 DEF ResetKick, At, serverVars, client, Calling
  <2> QED BY <1>3, <2>1 DEF Refreshing
<1>14. CASE ResetCommit(k)
  <2>1. /\ token' = [t \in Token |-> IF t \in call[k].seen THEN "revoked" ELSE token[t]]
        /\ UNCHANGED cookie /\ call[k].pc = "kicked" /\ call'[k].pc = "idle"
    BY <1>0, <1>14 DEF ResetCommit, At, client, End, Silent
  <2>2. Live' \subseteq Live BY <2>1 DEF Live
  <2>3. Mine BY <2>1 DEF Refreshing
  <2> QED BY <1>1, <1>2, <2>1, <2>2, <2>3
<1>15. CASE \/ \E op \in Operations : Begin(k, op)
            \/ ForgotPassword(k) \/ \E l \in Link : ResetRead(k, l)
  <2>1. UNCHANGED <<token, cookie>> /\ call[k].pc = "idle"
    BY <1>15 DEF Begin, ForgotPassword, ResetRead, Start, serverVars, client, At
  <2>2. call'[k].pc \in {"send", "ensure", "idle", "kick"}
    <3>1. \A op, l : [Silent EXCEPT !.op = op, !.pc = l].pc = l BY SilentType DEF Calling
    <3>2. \A op, l, x : [Silent EXCEPT !.op = op, !.pc = l, !.l = x].pc = l
      BY SilentType DEF Calling
    <3>3. \A op, l : Start(k, op, l) => call'[k].pc = l BY <1>0, <3>1 DEF Start
    <3>4. CASE \E op \in Operations : Begin(k, op) BY <3>3, <3>4 DEF Begin
    <3>5. CASE ForgotPassword(k) BY <3>3, <3>5 DEF ForgotPassword
    <3>6. CASE \E l \in Link : ResetRead(k, l) BY <1>0, <3>2, <3>6 DEF ResetRead
    <3> QED BY <1>15, <3>4, <3>5, <3>6
  <2> QED BY <1>3, <2>1, <2>2 DEF Refreshing
<1>16. ~(IssueTokens(k) \/ SignedIn(k) \/ Login(k))
  BY <1>1 DEF IssueTokens, SignedIn, Login, Start, At
<1>17. CASE CallStep(k)
  BY <1>4, <1>5, <1>6, <1>7, <1>8, <1>9, <1>10, <1>11, <1>12, <1>13, <1>14, <1>16, <1>17 DEF CallStep
<1>18. CASE ~CallStep(k) BY <1>15, <1>16, <1>18 DEF Acts
<1> QED BY <1>17, <1>18

\* What happens to the account and to the access cookie leaves the calls alone.
LEMMA OutsideStep ==
  ASSUME TypeOK, InStep, AccessExpires \/ Deactivate \/ UNCHANGED vars
  PROVE  InStep'
<1>0. call' = call /\ limits' = limits /\ token' = token /\ memory' = memory
      /\ cookie'.refresh = cookie.refresh /\ cookie'.csrf = cookie.csrf /\ (active' => active)
  BY DEF AccessExpires, Deactivate, vars, serverVars, client, TypeOK, Jar
<1>1. Lone' <=> Lone BY <1>0 DEF Lone, Solo, At
<1>2. Kept => Kept' BY <1>0 DEF Kept, At
<1>3. Owned => Owned' BY <1>0 DEF Owned, At, Live
<1>4. ASSUME OneByOne, NEW k \in Call, Aware(k) PROVE Aware(k)'
  <2>1. CASE AccessExpires
    <3>1. ~call[k].retried /\ call[k].t = NoToken /\ cookie.access /\ ~cookie'.access
      BY <1>4, <2>1 DEF AccessExpires, OneByOne, TypeOK, Jar
    <3> QED BY <1>0, <1>4, <3>1 DEF Aware, TabOf
  <2>2. CASE ~AccessExpires
    <3>1. cookie' = cookie BY <2>2 DEF Deactivate, vars, client
    <3> QED BY <1>0, <1>4, <3>1 DEF Aware, TabOf
  <2> QED BY <2>1, <2>2
<1> QED BY <1>0, <1>1, <1>2, <1>3, <1>4 DEF InStep, OneByOne, Stays

\* Every step keeps InStep: one call after another, no cookie is left behind.
LEMMA InStepStep ==
  ASSUME SessionInv, InStep, [Next]_vars
  PROVE  InStep'
<1>1. ASSUME NEW k \in Call, Acts(k) PROVE InStep'
  <2> SUFFICES ASSUME OneByOne'
               PROVE  /\ Lone'
                      /\ (active /\ Stays)' => (Kept /\ \A j \in Call : Aware(j))'
                      /\ ("login" \notin limits.ops)' => Owned'
    BY DEF InStep
  <2>1. OneByOne /\ limits' = limits BY <1>1, OthersRest DEF SessionInv, OneByOne
  <2>2. Solo(k) /\ Solo(k)' /\ Lone' BY <1>1, <2>1, ActorIsAlone DEF SessionInv, InStep
  <2>3. ASSUME (active /\ Stays)' PROVE (Kept /\ \A j \in Call : Aware(j))'
    <3>1. active' = active
      BY <1>1 DEF Acts, CallStep, EnsureCsrf, FetchCsrf, Send, Served, Gone, Unauthorized,
         Forbidden, PostRefresh, RefreshRead, RefreshRevoke, RefreshCommit, Rotated, Renewed,
         Expired, Warmed, PostLogout, LogoutRevoke, Left, IssueTokens, SignedIn, ResetKick,
         ResetCommit, Begin, Login, ForgotPassword, ResetRead, serverVars
    <3>2. active /\ Stays BY <2>1, <2>3, <3>1 DEF Stays
    <3>3. Ready(k) BY <2>1, <2>2, <3>2 DEF Ready, SessionInv, InStep
    <3> QED BY <1>1, <3>3, AwareStep
  <2>4. ASSUME ("login" \notin limits.ops)' PROVE Owned'
    BY <1>1, <2>1, <2>2, <2>4, OwnedStep DEF SessionInv, InStep
  <2> QED BY <2>2, <2>3, <2>4
<1>2. CASE AccessExpires \/ Deactivate \/ UNCHANGED vars
  BY <1>2, OutsideStep DEF SessionInv
<1> QED BY <1>1, <1>2 DEF Next, Acts

\* A browser without a session is in step.
LEMMA InitInStep ==
  ASSUME Init
  PROVE  InStep
<1>0. TypeOK BY InitSession DEF SessionInv
<1>1. \A k \in Call : call[k].pc = "idle" BY DEF Init, Silent
<1>2. cookie.refresh = 1 /\ \A t \in Token : token[t] = "live" <=> t = 1 BY DEF Init
<1>3. 1 \in Token
  <2> DEFINE N == Cardinality(Token)
  <2>1. N \in Nat BY TokenAssumption, FS_CardinalityType
  <2>2. N >= 1 BY <2>1, TokenAssumption
  <2> QED BY <2>1, <2>2, TokenAssumption
<1>4. Lone BY <1>1 DEF Lone, At
<1>5. Kept BY <1>2, <1>3 DEF Kept
<1>6. \A k \in Call : Aware(k) BY <1>1 DEF Aware
<1>7. Owned
  <2>1. Live \subseteq {cookie.refresh} BY <1>2 DEF Live
  <2> QED BY <1>1, <2>1 DEF Owned, Refreshing, At
<1> QED BY <1>4, <1>5, <1>6, <1>7 DEF InStep

\* One call at a time and no failure: no call of an active user ends at the login page
\* or is refused twice for its CSRF token (api.ts: the refresh on 401, the retry on a
\* CSRF 403), and every session the server keeps open is the browser's.
THEOREM BrowserStaysInStep == Spec => []BrowserInStep
<1>1. InStep => BrowserInStep
  <2> SUFFICES ASSUME InStep, OneByOne
               PROVE  /\ active /\ Stays =>
                           \A k \in Call : ~At(k, "expired") /\ ~(At(k, "forbidden") /\ call[k].csrfRetried)
                      /\ "login" \notin limits.ops /\ (\A k \in Call : At(k, "idle")) =>
                           Live \subseteq {cookie.refresh}
    BY DEF BrowserInStep, OneByOne, Stays
  <2> QED BY DEF InStep, Aware, Owned, At
<1>2. SessionInv /\ InStep /\ [Next]_vars => InStep' BY InStepStep
<1> QED BY InitInStep, <1>1, <1>2, SessionsSound, PTL DEF Spec
================================================================================
