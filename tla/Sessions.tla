------------------------------ MODULE Sessions ------------------------------
(***************************************************************************)
(* Signing in, rotating refresh tokens and signing out: AuthService on the *)
(* server, with the queries of a login or refresh that another request can *)
(* come between as separate steps, and the browser's api.ts, whose tabs    *)
(* share one localStorage but each have a refresh in flight of their own.  *)
(* A pair of tokens is one number; the access token of a pair expires on   *)
(* its own, the refresh token is a row of the database and lapses later.   *)
(***************************************************************************)
EXTENDS Integers, FiniteSets

CONSTANTS
    Tabs,
    Calls,          \* apiFetch calls that may be under way
    MaxTokens,      \* bound of the pairs issued
    Environments    \* what may happen (see AllEvents)

(* logout: the user signs out; password: the password is changed; staff:   *)
(* the account is deactivated, reactivated or its password reset; inFlight: *)
(* all these even while a refresh is in flight; archive: the student       *)
(* leaves the active roster and returns; lost: a reply of the server is    *)
(* lost; error: a request may end with an error of the server, or with the *)
(* throttle's 429; expiry: refresh tokens lapse; prune: old revoked and    *)
(* lapsed rows are deleted; tabs: the calls may run in several tabs.       *)
AllEvents == {"logout", "inFlight", "password", "staff", "archive", "lost", "error", "expiry",
              "prune", "tabs"}

ASSUME SessionsAssumption ==
    /\ Tabs # {}
    /\ IsFiniteSet(Tabs) /\ IsFiniteSet(Calls)
    /\ Tabs \cap Calls = {}
    /\ MaxTokens \in Nat
    /\ Environments \subseteq SUBSET AllEvents

VARIABLES
    token,      \* refreshToken rows: "unused", "live", "revoked" or "deleted"
    issued,     \* pairs issued so far
    exchanged,  \* how often each row was exchanged for a new pair
    storage,    \* the pair in localStorage
    expired,    \* pairs whose access token has expired
    lapsed,     \* how many of the first pairs are past their refresh token's expiry
    login,      \* the login request of each tab
    call,       \* the apiFetch calls
    refresh,    \* the refresh a call has started, with the server's progress on it
    tabOf,      \* the tab each call runs in
    page,       \* what each tab shows
    signedOut,  \* the user signed out, or never signed in
    logouts,    \* refresh tokens of logout requests on their way
    account,    \* "active", "deactivated" or, of a student, "archived"
    change,     \* a change of the account that is to end its sessions
    late,       \* requests that had seen the account before its sessions were last revoked, and go on
    env

vars == <<token, issued, exchanged, storage, expired, lapsed, login, call, refresh, page,
          signedOut, logouts, account, change, late, tabOf, env>>
client == <<storage, call, page, signedOut>>
clocks == <<expired, lapsed>>
requests == <<login, logouts>>
owner == <<account, change, late>>
server == <<token, issued, exchanged, owner>>

-----------------------------------------------------------------------------
Empty == 0
Pairs == 1 .. MaxTokens
NoCall == [pc |-> "idle", sent |-> Empty, retried |-> FALSE]
NoRefresh == [pc |-> "none", pair |-> Empty, new |-> Empty]
NoLogin == [pc |-> "none", new |-> Empty]

Init ==
    /\ env \in Environments
    /\ token = [k \in Pairs |-> "unused"]
    /\ issued = 0
    /\ exchanged = [k \in Pairs |-> 0]
    /\ storage = Empty
    /\ expired = {}
    /\ lapsed = 0
    /\ login = [t \in Tabs |-> NoLogin]
    /\ call = [c \in Calls |-> NoCall]
    /\ refresh = [c \in Calls |-> NoRefresh]
    /\ tabOf \in [Calls -> Tabs]
    /\ "tabs" \in env \/ tabOf = [c \in Calls |-> CHOOSE t \in Tabs : TRUE]
    /\ page = [t \in Tabs |-> "login"]
    /\ signedOut = TRUE
    /\ logouts = {}
    /\ account = "active"
    /\ change = "none"
    /\ late = 0

InUse == {tabOf[c] : c \in Calls}

(* refreshInFlight of a tab, named by the call that started it. *)
InFlight(t) == {c \in Calls : tabOf[c] = t /\ refresh[c].pc # "none"}
MayRefresh == {c \in Calls : refresh[c].pc # "none" \/ (call[c].pc = "sent" /\ ~ call[c].retried)}

SigningIn == {t \in Tabs : login[t].pc = "checked"}

(* The bound: a pair is left beside those the requests under way may need. *)
Room == issued + Cardinality(MayRefresh \cup SigningIn) < MaxTokens

(* issueTokens: a new row. *)
Issue ==
    /\ issued' = issued + 1
    /\ token' = [token EXCEPT ![issued + 1] = "live"]

RevokedAll == [k \in Pairs |-> IF token[k] = "live" THEN "revoked" ELSE token[k]]

-----------------------------------------------------------------------------
(* The login page.  AuthService.login reads the account once, at the       *)
(* start: a deactivated account is refused, and a student off the roster.  *)
Login(t) ==
    /\ page[t] = "login" /\ login[t].pc = "none"
    /\ account = "active"
    /\ Room
    /\ login' = [login EXCEPT ![t].pc = "checked"]
    /\ UNCHANGED <<server, client, clocks, refresh, logouts>>

(* Some queries later the tokens are issued, whatever the account is now.  *)
LoginIssue(t) ==
    /\ login[t].pc = "checked"
    /\ Issue
    /\ login' = [login EXCEPT ![t] = [pc |-> "granted", new |-> issued + 1]]
    /\ UNCHANGED <<exchanged, owner, client, clocks, refresh, logouts>>

(* The reply arrives: a new session, whatever the storage held. *)
SignedIn(t) ==
    /\ login[t].pc = "granted"
    /\ storage' = login[t].new
    /\ page' = [page EXCEPT ![t] = "app"]
    /\ signedOut' = FALSE
    /\ login' = [login EXCEPT ![t] = NoLogin]
    /\ UNCHANGED <<server, clocks, call, refresh, logouts>>

(* The reply is lost, or an error is answered. *)
LoginFails(t) ==
    /\ \/ "lost" \in env /\ login[t].pc = "granted"
       \/ "error" \in env /\ login[t].pc # "none"
    /\ login' = [login EXCEPT ![t] = NoLogin]
    /\ UNCHANGED <<server, client, clocks, refresh, logouts>>

(* A tab opened on a page of the application: the shell looks for a token. *)
Open(t) ==
    /\ page[t] = "login" /\ login[t].pc = "none"
    /\ storage # Empty
    /\ page' = [page EXCEPT ![t] = "app"]
    /\ UNCHANGED <<server, storage, clocks, call, refresh, signedOut, requests>>

(* The access token of the stored pair runs out. *)
Expire ==
    /\ storage # Empty
    /\ expired' = expired \cup {storage}
    /\ UNCHANGED <<server, client, lapsed, refresh, requests>>

(* The oldest refresh token lapses; its access token has run out before.   *)
Lapse ==
    /\ "expiry" \in env
    /\ lapsed < issued
    /\ lapsed' = lapsed + 1
    /\ expired' = expired \cup {lapsed + 1}
    /\ UNCHANGED <<server, client, refresh, requests>>

(* apiFetch: the request leaves with the access token now in storage. *)
Send(c) ==
    /\ call[c].pc = "idle" /\ refresh[c].pc = "none"
    /\ page[tabOf[c]] = "app"
    /\ Room
    /\ call' = [call EXCEPT ![c] = [pc |-> "sent", sent |-> storage, retried |-> FALSE]]
    /\ UNCHANGED <<server, storage, clocks, refresh, page, signedOut, requests>>

(* JwtStrategy.validate reads the account again on every request. *)
Accepted(k) == k # Empty /\ k \notin expired /\ account = "active"

(* A call that is answered, with an error too, or that cannot refresh,     *)
(* ends here.                                                              *)
Answer(c) ==
    /\ call[c].pc = "sent"
    /\ Accepted(call[c].sent) \/ call[c].retried \/ storage = Empty \/ "error" \in env
    /\ call' = [call EXCEPT ![c] = NoCall]
    /\ UNCHANGED <<server, storage, clocks, refresh, page, signedOut, requests>>

Starts(c) == [refresh EXCEPT ![c] = [NoRefresh EXCEPT !.pc = "find", !.pair = storage]]

MustRefresh(c) ==
    /\ call[c].pc = "sent"
    /\ ~ Accepted(call[c].sent) /\ ~ call[c].retried /\ storage # Empty

(* Broken variant: every call refreshes for itself. *)
RejectUnshared(c) ==
    /\ MustRefresh(c)
    /\ call' = [call EXCEPT ![c].pc = "waiting"]
    /\ refresh' = Starts(c)
    /\ UNCHANGED <<server, storage, clocks, page, signedOut, requests>>

(* A 401 on the first try: join the tab's refresh, or start it with the    *)
(* refresh token now in storage.                                           *)
Reject(c) ==
    /\ MustRefresh(c)
    /\ call' = [call EXCEPT ![c].pc = "waiting"]
    /\ refresh' = IF InFlight(tabOf[c]) = {} THEN Starts(c) ELSE refresh
    /\ UNCHANGED <<server, storage, clocks, page, signedOut, requests>>

-----------------------------------------------------------------------------
(* AuthService.refresh, query by query. *)
Goto(c, pc) == refresh' = [refresh EXCEPT ![c].pc = pc]

(* A lapsed token is refused whatever its row says, before a reuse of it   *)
(* could be noticed.                                                       *)
FindRow(c) ==
    LET row == token[refresh[c].pair]
        valid == refresh[c].pair > lapsed
    IN
    /\ refresh[c].pc = "find"
    /\ Goto(c, IF valid /\ row = "live" THEN "user"
               ELSE IF valid /\ row = "revoked" THEN "reuse" ELSE "refused")
    /\ UNCHANGED <<server, client, clocks, requests>>

(* Broken variant: the account is not looked at again. *)
FindAnyUser(c) ==
    /\ refresh[c].pc = "user"
    /\ Goto(c, "revoke")
    /\ UNCHANGED <<server, client, clocks, requests>>

(* A deactivated account gets no new pair; the roster is not looked at. *)
FindUser(c) ==
    /\ refresh[c].pc = "user"
    /\ Goto(c, IF account = "deactivated" THEN "refused" ELSE "revoke")
    /\ UNCHANGED <<server, client, clocks, requests>>

(* Reuse of a revoked token is treated as compromise. *)
Reuse(c) ==
    /\ refresh[c].pc = "reuse"
    /\ token' = RevokedAll
    /\ Goto(c, "refused")
    /\ UNCHANGED <<issued, exchanged, owner, client, clocks, requests>>

(* The revoking update is by id: it does not look at revokedAt again, and  *)
(* fails where the row was deleted meanwhile.                              *)
Revoke(c) ==
    /\ refresh[c].pc = "revoke"
    /\ IF token[refresh[c].pair] = "deleted"
       THEN Goto(c, "refused") /\ UNCHANGED token
       ELSE Goto(c, "issue") /\ token' = [token EXCEPT ![refresh[c].pair] = "revoked"]
    /\ UNCHANGED <<issued, exchanged, owner, client, clocks, requests>>

IssuePair(c) ==
    /\ refresh[c].pc = "issue"
    /\ Issue
    /\ exchanged' = [exchanged EXCEPT ![refresh[c].pair] = @ + 1]
    /\ refresh' = [refresh EXCEPT ![c].pc = "granted", ![c].new = issued + 1]
    /\ UNCHANGED <<owner, client, clocks, requests>>

(* A query fails, or the throttle refuses the request: what was written    *)
(* stays written, and the reply is no pair.                                *)
Fail(c) ==
    /\ "error" \in env
    /\ refresh[c].pc \notin {"none", "refused"}
    /\ Goto(c, "refused")
    /\ UNCHANGED <<server, client, clocks, requests>>

(* Broken variant: only one of the waiting calls hears of the result. *)
ReleasedOne(t, pc) ==
    LET waiting == {x \in Calls : tabOf[x] = t /\ call[x].pc = "waiting"}
        first == CHOOSE x \in waiting : TRUE
    IN IF waiting = {} THEN call
       ELSE [call EXCEPT ![first] = [pc |-> pc, sent |-> IF pc = "sent" THEN storage' ELSE Empty,
                                     retried |-> pc = "sent"]]

(* All calls of the tab that await the refresh go on: after a success they *)
(* are sent again, once, with the new access token.                        *)
Released(t, pc) ==
    [c \in Calls |->
        IF tabOf[c] = t /\ call[c].pc = "waiting"
        THEN [pc |-> pc, sent |-> IF pc = "sent" THEN storage' ELSE Empty,
              retried |-> pc = "sent"]
        ELSE call[c]]

(* The reply arrives: the new pair is stored; or, whatever the reason of   *)
(* the refusal, the storage is cleared and the user sent to the login page. *)
Granted(c) ==
    /\ refresh[c].pc = "granted"
    /\ storage' = refresh[c].new
    /\ call' = Released(tabOf[c], "sent")
    /\ refresh' = [refresh EXCEPT ![c] = NoRefresh]
    /\ UNCHANGED <<server, clocks, page, signedOut, requests>>

Refused(c) ==
    /\ refresh[c].pc = "refused"
    /\ storage' = Empty
    /\ call' = Released(tabOf[c], "idle")
    /\ page' = [page EXCEPT ![tabOf[c]] = "login"]
    /\ refresh' = [refresh EXCEPT ![c] = NoRefresh]
    /\ UNCHANGED <<server, clocks, signedOut, requests>>

(* The reply is lost: the storage keeps the pair the server has revoked. *)
Lost(c) ==
    /\ "lost" \in env
    /\ refresh[c].pc \in {"granted", "refused"}
    /\ call' = Released(tabOf[c], "idle")
    /\ page' = [page EXCEPT ![tabOf[c]] = "login"]
    /\ refresh' = [refresh EXCEPT ![c] = NoRefresh]
    /\ UNCHANGED <<server, storage, clocks, signedOut, requests>>

-----------------------------------------------------------------------------
Quiet ==
    \/ "inFlight" \in env
    \/ /\ \A c \in Calls : refresh[c].pc = "none"
       /\ \A t \in Tabs : login[t].pc = "none"

(* Broken variant: the storage is cleared before the token is read. *)
LogoutClearFirst(t) ==
    /\ "logout" \in env
    /\ page[t] = "app"
    /\ storage' = Empty
    /\ page' = [page EXCEPT ![t] = "login"]
    /\ signedOut' = TRUE
    /\ UNCHANGED <<server, clocks, call, refresh, requests>>

(* "Sign out" in the shell: the logout request leaves, nobody awaits it. *)
Logout(t) ==
    /\ "logout" \in env
    /\ Quiet
    /\ page[t] = "app"
    /\ logouts' = IF storage = Empty THEN logouts ELSE logouts \cup {storage}
    /\ storage' = Empty
    /\ page' = [page EXCEPT ![t] = "login"]
    /\ signedOut' = TRUE
    /\ UNCHANGED <<server, clocks, call, refresh, login>>

(* logout() on the server: conditional on the row being live.  Nobody      *)
(* hears of an error.                                                      *)
ServeLogout(k) ==
    /\ k \in logouts
    /\ \/ token' = [token EXCEPT ![k] = IF @ = "live" THEN "revoked" ELSE @]
       \/ "error" \in env /\ UNCHANGED token
    /\ logouts' = logouts \ {k}
    /\ UNCHANGED <<issued, exchanged, owner, client, clocks, login, refresh>>

(* changePassword: the new hash is stored, then every session is revoked,  *)
(* the caller's own included.                                              *)
ChangePassword ==
    /\ "password" \in env
    /\ change = "none" /\ account = "active"
    /\ ~ signedOut
    /\ change' = "written"
    /\ UNCHANGED <<token, issued, exchanged, account, late, client, clocks, refresh, requests>>

(* A reset by staff, for a student or a mentor: the same, from outside,    *)
(* and a deactivated account is active again.                              *)
ResetPassword ==
    /\ "staff" \in env /\ Quiet
    /\ change = "none" \/ (change = "ended" /\ account = "deactivated")
    /\ account' = IF account = "deactivated" THEN "active" ELSE account
    /\ change' = "written"
    /\ UNCHANGED <<token, issued, exchanged, late, client, clocks, refresh, requests>>

(* Broken variant: the sessions are left to lapse. *)
DeactivateOnly ==
    /\ "staff" \in env /\ Quiet
    /\ change = "none" /\ account = "active"
    /\ account' = "deactivated"
    /\ change' = "ended"
    /\ UNCHANGED <<token, issued, exchanged, late, client, clocks, refresh, requests>>

(* setMentorActive(false): the flag, then the sessions.                    *)
Deactivate ==
    /\ "staff" \in env /\ Quiet
    /\ change = "none" /\ account = "active"
    /\ account' = "deactivated"
    /\ change' = "written"
    /\ UNCHANGED <<token, issued, exchanged, late, client, clocks, refresh, requests>>

(* setMentorActive(true).                                                  *)
Reactivate ==
    /\ change = "ended" /\ account = "deactivated"
    /\ account' = "active"
    /\ change' = "none"
    /\ UNCHANGED <<token, issued, exchanged, late, client, clocks, refresh, requests>>

(* Requests past their look at the account, which will issue a pair. *)
Passed == SigningIn \cup {c \in Calls : refresh[c].pc \in {"revoke", "issue"}}

RevokeSessions ==
    /\ change = "written"
    /\ token' = RevokedAll
    /\ change' = "ended"
    /\ late' = Cardinality(Passed)
    /\ UNCHANGED <<issued, exchanged, account, client, clocks, refresh, requests>>

(* A student is archived, and comes back (module Placement); only staff    *)
(* accounts are deactivated.                                               *)
Roster ==
    /\ "archive" \in env
    /\ account # "deactivated"
    /\ account' = IF account = "active" THEN "archived" ELSE "active"
    /\ UNCHANGED <<token, issued, exchanged, change, late, client, clocks, refresh, requests>>

(* pruneExpiredTokens deletes rows that have lapsed, or were revoked long  *)
(* ago, so that no refresh which saw them live is under way.               *)
Prune(k) ==
    /\ "prune" \in env
    /\ \/ k <= lapsed /\ token[k] # "deleted"
       \/ token[k] = "revoked" /\ \A c \in Calls : refresh[c].pc \in {"none", "find"}
    /\ token' = [token EXCEPT ![k] = "deleted"]
    /\ UNCHANGED <<issued, exchanged, owner, client, clocks, refresh, requests>>

-----------------------------------------------------------------------------
RefreshStep(c) ==
    \/ FindRow(c) \/ FindUser(c) \/ Reuse(c) \/ Revoke(c) \/ IssuePair(c) \/ Granted(c)
    \/ Refused(c) \/ Lost(c) \/ Fail(c)

Next ==
    /\ UNCHANGED <<env, tabOf>>
    /\ \/ \E t \in InUse : \/ Login(t) \/ LoginIssue(t) \/ SignedIn(t) \/ LoginFails(t)
                         \/ Open(t) \/ Logout(t)
       \/ \E c \in Calls : Send(c) \/ Answer(c) \/ Reject(c) \/ RefreshStep(c)
       \/ \E k \in Pairs : ServeLogout(k) \/ Prune(k)
       \/ Expire \/ Lapse \/ ChangePassword \/ ResetPassword \/ Deactivate \/ Reactivate \/ RevokeSessions
       \/ Roster

Spec == Init /\ [][Next]_vars

(* Requests that were sent are answered, and replies handled. *)
Fairness ==
    /\ \A c \in Calls : WF_vars(UNCHANGED <<env, tabOf>> /\ RefreshStep(c))
    /\ \A c \in Calls : WF_vars(UNCHANGED <<env, tabOf>> /\ (Answer(c) \/ Reject(c)))
    /\ WF_vars(UNCHANGED <<env, tabOf>> /\ \E k \in Pairs : ServeLogout(k))

FairSpec == Spec /\ Fairness

-----------------------------------------------------------------------------
CallRecords == [pc : {"idle", "sent", "waiting"}, sent : Pairs \cup {Empty}, retried : BOOLEAN]
Refreshes ==
    [pc : {"none", "find", "user", "reuse", "revoke", "issue", "granted", "refused"},
     pair : Pairs \cup {Empty}, new : Pairs \cup {Empty}]
LoginRecords == [pc : {"none", "checked", "granted"}, new : Pairs \cup {Empty}]

(* Typing.                                                                 *)
TypeOK ==
    /\ token \in [Pairs -> {"unused", "live", "revoked", "deleted"}]
    /\ issued \in 0 .. MaxTokens
    /\ exchanged \in [Pairs -> Nat]
    /\ storage \in Pairs \cup {Empty}
    /\ expired \subseteq Pairs
    /\ lapsed \in 0 .. MaxTokens
    /\ login \in [Tabs -> LoginRecords]
    /\ call \in [Calls -> CallRecords]
    /\ refresh \in [Calls -> Refreshes]
    /\ page \in [Tabs -> {"login", "app"}]
    /\ signedOut \in BOOLEAN
    /\ logouts \subseteq Pairs
    /\ account \in {"active", "deactivated", "archived"}
    /\ change \in {"none", "written", "ended"}
    /\ late \in Nat
    /\ tabOf \in [Calls -> Tabs]
    /\ env \in Environments

OneTab == "tabs" \notin env

(* A refresh token is exchanged for one new pair at most.  The server's    *)
(* check and its update are two queries, so this rests on the page's calls *)
(* sharing one refresh.                                                    *)
ExchangedOnce == OneTab => \A k \in Pairs : exchanged[k] <= 1

(* Whoever has not signed out is not sent to the login page, however many  *)
(* calls of the page find their access token expired or refused at the     *)
(* same moment.  The exceptions are those of the code: the page treats any *)
(* refusal of a refresh as the end of the session, so a lapsed refresh     *)
(* token, the throttle's 429 and an error of the server end it too, as do  *)
(* a lost reply, a change of the password, staff acting on the account and *)
(* signing out with a refresh in flight.                                   *)
SessionSurvives ==
    OneTab /\ env \cap {"lost", "error", "expiry", "password", "staff", "inFlight"} = {} =>
        \A c \in Calls : page[tabOf[c]] = "login" => signedOut

Usable(k) == token[k] = "live" /\ k > lapsed

(* An end is an end.  Once the logout request has arrived nothing is left  *)
(* of the session: no pair in storage and no usable row, calls that were   *)
(* under way included; this where every request is answered, and nobody    *)
(* signs out around a refresh.  And once a deactivation has revoked the    *)
(* sessions, only requests that had seen the account before and went on    *)
(* can still bring a row: as many rows at most, none if there were none,   *)
(* whatever is lost, fails or overlaps.                                    *)
SessionsEnd ==
    /\ OneTab /\ env \cap {"lost", "error", "inFlight"} = {} =>
          (signedOut /\ logouts = {} /\ (\A t \in Tabs : login[t].pc = "none") =>
              storage = Empty /\ \A k \in Pairs : ~ Usable(k))
    /\ account = "deactivated" /\ change = "ended" =>
          Cardinality({k \in Pairs : token[k] = "live"}) <= late

(* admin.module.ts says of a deactivation that the sessions go too: none   *)
(* is left, whoever was signing in or refreshing meanwhile.                *)
DeactivatedHasNoSession ==
    account = "deactivated" /\ change = "ended" => \A k \in Pairs : ~ Usable(k)

(* api.ts sends a user to the login page when "the session is genuinely    *)
(* over": not where the pair in storage was still good.                    *)
RefusedSessionIsOver ==
    [][\A c \in Calls : Refused(c) => ~ Usable(refresh[c].pair)]_vars

(* Every call of the page ends, refreshed at most once: a 401 never makes  *)
(* it refresh for ever, and no call waits for a refresh that is over.      *)
EveryCallEnds == \A c \in Calls : call[c].pc # "idle" ~> call[c].pc = "idle"

(* changePassword "ends all other sessions": the one it was called from    *)
(* goes on.                                                                *)
OwnSessionSurvives ==
    OneTab /\ env = {"password"} => \A c \in Calls : page[tabOf[c]] = "login" => signedOut
=============================================================================
