----------------------- MODULE SessionsAndCache_proofs ----------------------
(* Proofs about Sessions, for any calls, tabs and pairs of tokens: a        *)
(* refresh token is exchanged once, a session survives its refreshes, and   *)
(* an end is an end; and about Cache, for any number of processes, keys,    *)
(* changes and outages: how stale a served figure can be, and what an       *)
(* invalidation guarantees while Redis answers.                             *)
EXTENDS Sessions, CacheState, FiniteSetTheorems, SequenceTheorems, TLAPS

-----------------------------------------------------------------------------
(* The inductive invariant.  The pairs that logins and refreshes still     *)
(* need are left.                                                          *)
Needing ==
    SigningIn \cup {c \in Calls : \/ refresh[c].pc \in {"find", "user", "revoke", "issue"}
                                  \/ call[c].pc = "sent" /\ ~ call[c].retried}
PairsLeft == issued + Cardinality(Needing) <= MaxTokens

(* Rows are used in order, and a row once used up is never live again: it  *)
(* was exchanged only after it was revoked.                                *)
Dead(k) == token[k] \in {"revoked", "deleted"}
RowsInOrder ==
    /\ \A k \in Pairs : k > issued <=> token[k] = "unused"
    /\ \A k \in Pairs : exchanged[k] > 0 => Dead(k)
    /\ storage <= issued /\ lapsed <= issued /\ \A k \in logouts : k <= issued

(* A login is of a tab that shows the login page; its reply brings a pair. *)
LoginsSound ==
    \A t \in Tabs :
        /\ login[t].pc # "none" => page[t] = "login"
        /\ login[t].pc = "granted" => login[t].new \in Pairs /\ login[t].new <= issued

(* A refresh is of a row that was issued; its reply brings a new one.      *)
InFlightNow(c) == refresh[c].pc # "none"
RefreshesSound ==
    \A c \in Calls :
        /\ InFlightNow(c) => refresh[c].pair \in Pairs /\ refresh[c].pair <= issued
        /\ refresh[c].pc \in {"issue", "granted"} => Dead(refresh[c].pair)
        /\ refresh[c].pc = "granted" => refresh[c].new \in Pairs /\ refresh[c].new <= issued

(* A tab has one refresh in flight, whose call waits for it.               *)
OnePerTab ==
    /\ \A c, d \in Calls : InFlightNow(c) /\ InFlightNow(d) /\ tabOf[c] = tabOf[d] => c = d
    /\ \A c \in Calls : InFlightNow(c) => call[c].pc # "sent"
SameTab == OneTab => \A c, d \in Calls : tabOf[c] = tabOf[d]

(* In one tab, a pair under exchange has not been exchanged.               *)
Once ==
    OneTab =>
        /\ \A k \in Pairs : exchanged[k] <= 1
        /\ \A c \in Calls : refresh[c].pc \in {"user", "revoke", "issue"} => exchanged[refresh[c].pair] = 0

(* While every request is answered and nobody signs out around one,        *)
(* storage, page, login and refresh are of one session.                    *)
Calm == OneTab /\ env \cap {"lost", "error", "inFlight"} = {}
OneSession ==
    Calm =>
        /\ \A t \in InUse : page[t] = "login" <=> storage = Empty
        /\ \A t \in Tabs : login[t].pc # "none" => t \in InUse
        /\ storage # Empty => ~ signedOut
        /\ \A c \in Calls : InFlightNow(c) => refresh[c].pair = storage

(* No usable row but the stored one, one on its way to storage or to its   *)
(* end: so an end leaves none.                                             *)
Closing == account = "deactivated" /\ change = "written"
OnItsWay(k) ==
    \/ k = storage \/ k \in logouts
    \/ \E c \in Calls : refresh[c].pc = "granted" /\ k = refresh[c].new
    \/ \E t \in Tabs : login[t].pc = "granted" /\ k = login[t].new
LiveRows ==
    Calm =>
        /\ \A k \in Pairs : token[k] = "live" =>
              k <= lapsed \/ OnItsWay(k) \/ (Closing /\ ~ signedOut /\ storage = Empty)
        /\ \A c \in Calls : refresh[c].pc = "refused" =>
              token[refresh[c].pair] # "live" \/ refresh[c].pair <= lapsed \/ Closing
        /\ account = "deactivated" =>
              /\ change # "none"
              /\ \A c \in Calls : refresh[c].pc \notin {"revoke", "issue", "granted"}
              /\ \A t \in Tabs : login[t].pc = "none"
              /\ change = "ended" => \A k \in Pairs : token[k] # "live"

(* Where nobody acts on the account and nothing lapses the stored row      *)
(* stays live, or its successor is, and no refresh is refused.             *)
Undisturbed == Calm /\ env \cap {"password", "staff", "expiry"} = {}
Survives ==
    Undisturbed =>
        /\ account # "deactivated" /\ change = "none" /\ lapsed = 0
        /\ \A t \in InUse : page[t] = "login" => signedOut
        /\ storage \notin logouts
        /\ storage # Empty /\ (\A c \in Calls : refresh[c].pc \notin {"issue", "granted"}) =>
              token[storage] = "live"
        /\ \A t \in Tabs : login[t].pc = "granted" =>
              token[login[t].new] = "live" /\ login[t].new \notin logouts
        /\ \A c \in Calls :
              /\ refresh[c].pc \notin {"reuse", "refused"}
              /\ refresh[c].pc = "granted" => token[refresh[c].new] = "live" /\ refresh[c].new \notin logouts

(* Once a deactivation has revoked the sessions, the live rows and those   *)
(* still to come are of the requests that had seen the account before.     *)
Live == {k \in Pairs : token[k] = "live"}
LateRows ==
    account = "deactivated" /\ change = "ended" =>
        Cardinality(Live) + Cardinality(Passed) <= late

IInv ==
    /\ TypeOK /\ PairsLeft /\ RowsInOrder /\ LoginsSound /\ RefreshesSound /\ OnePerTab /\ SameTab
    /\ Once /\ OneSession /\ LiveRows /\ Survives

-----------------------------------------------------------------------------
(* Facts about the helpers.                                                *)
LEMMA NeedingFinite ==
  LET Asking == MayRefresh \cup SigningIn
  IN  /\ IsFiniteSet(Needing) /\ Cardinality(Needing) \in Nat
      /\ IsFiniteSet(Asking) /\ Cardinality(Asking) \in Nat
      /\ Cardinality(Needing) <= Cardinality(Asking)
<1> DEFINE Asking == MayRefresh \cup SigningIn
<1>1. Needing \subseteq Asking /\ Asking \subseteq Calls \cup Tabs
  BY DEF Needing, SigningIn, MayRefresh, SigningIn
<1>2. IsFiniteSet(Calls \cup Tabs)
  BY SessionsAssumption, FS_Union
<1>3. IsFiniteSet(Asking) /\ IsFiniteSet(Needing)
  BY <1>1, <1>2, FS_Subset
<1>4. Cardinality(Needing) <= Cardinality(Asking)
  BY <1>1, <1>3, FS_Subset
<1> QED BY <1>3, <1>4, FS_CardinalityType

LEMMA NoMoreNeeded ==
  ASSUME TypeOK, PairsLeft, Needing' \subseteq Needing, UNCHANGED issued
  PROVE  PairsLeft'
<1>1. IsFiniteSet(Needing) /\ Cardinality(Needing) \in Nat
  BY NeedingFinite
<1>2. IsFiniteSet(Needing') /\ Cardinality(Needing') <= Cardinality(Needing)
  BY <1>1, FS_Subset
<1>3. Cardinality(Needing') \in Nat
  BY <1>2, FS_CardinalityType
<1>4. issued + Cardinality(Needing') <= MaxTokens
  <2> DEFINE a == Cardinality(Needing)
             b == Cardinality(Needing')
  <2>1. a \in Nat /\ b \in Nat /\ b <= a /\ issued + a <= MaxTokens /\ issued \in Nat /\ MaxTokens \in Nat
    BY <1>1, <1>2, <1>3, SessionsAssumption DEF PairsLeft, TypeOK
  <2> HIDE DEF a, b
  <2>2. issued + b <= MaxTokens
    BY <2>1
  <2> QED BY <2>2 DEF b
<1> QED BY <1>4 DEF PairsLeft

(* A request let in while there is room finds its pair left. *)
LEMMA OneMoreNeeded ==
  ASSUME TypeOK, Room, NEW x, Needing' \subseteq Needing \cup {x}, UNCHANGED issued
  PROVE  PairsLeft'
<1>1. IsFiniteSet(Needing)
  BY NeedingFinite
<1>2. IsFiniteSet(Needing \cup {x}) /\ Cardinality(Needing \cup {x}) <= Cardinality(Needing) + 1
  <2>1. /\ IsFiniteSet(Needing \cup {x})
        /\ Cardinality(Needing \cup {x}) = IF x \in Needing THEN Cardinality(Needing) ELSE Cardinality(Needing) + 1
    BY <1>1, FS_AddElement
  <2> QED BY <2>1, NeedingFinite
<1>3. IsFiniteSet(Needing') /\ Cardinality(Needing') <= Cardinality(Needing \cup {x})
  BY <1>2, FS_Subset
<1> DEFINE a == Cardinality(Needing)
           b == Cardinality(Needing')
           u == Cardinality(Needing \cup {x})
           r == Cardinality(MayRefresh \cup SigningIn)
<1>4. /\ a \in Nat /\ b \in Nat /\ u \in Nat /\ r \in Nat /\ a <= r /\ u <= a + 1 /\ b <= u
      /\ issued + r < MaxTokens /\ issued \in Nat /\ MaxTokens \in Nat
  BY <1>2, <1>3, NeedingFinite, FS_CardinalityType, SessionsAssumption DEF TypeOK, Room
<1> HIDE DEF a, b, u, r
<1>5. issued + b <= MaxTokens
  BY <1>4
<1> QED BY <1>5 DEF PairsLeft, b

(* A request that takes its pair needs none any more. *)
LEMMA OneUsed ==
  ASSUME TypeOK, PairsLeft, NEW x \in Needing, Needing' \subseteq Needing \ {x}, issued' = issued + 1
  PROVE  PairsLeft' /\ issued + 1 \in Pairs
<1>1. IsFiniteSet(Needing)
  BY NeedingFinite
<1>2. IsFiniteSet(Needing \ {x}) /\ Cardinality(Needing \ {x}) = Cardinality(Needing) - 1
  BY <1>1, FS_RemoveElement
<1>3. IsFiniteSet(Needing') /\ Cardinality(Needing') <= Cardinality(Needing \ {x})
  BY <1>2, FS_Subset
<1> DEFINE a == Cardinality(Needing)
           b == Cardinality(Needing')
           u == Cardinality(Needing \ {x})
<1>4. /\ a \in Nat /\ b \in Nat /\ u \in Nat /\ u = a - 1 /\ b <= u
      /\ issued + a <= MaxTokens /\ issued \in Nat /\ MaxTokens \in Nat
  BY <1>2, <1>3, NeedingFinite, FS_CardinalityType, SessionsAssumption DEF TypeOK, PairsLeft
<1> HIDE DEF a, b, u
<1>5. issued + 1 + b <= MaxTokens /\ issued + 1 \in 1 .. MaxTokens
  BY <1>4
<1> QED BY <1>5 DEF PairsLeft, b, Pairs

LEMMA StateTypes ==
  ASSUME TypeOK
  PROVE  /\ issued \in Nat /\ lapsed \in Nat /\ MaxTokens \in Nat /\ storage \in Nat
         /\ \A k \in Pairs : k \in Nat /\ k # Empty
         /\ \A c \in Calls : /\ refresh[c] \in Refreshes /\ call[c] \in CallRecords
                             /\ refresh[c].pair \in Nat /\ refresh[c].new \in Nat
         /\ \A t \in Tabs : login[t] \in LoginRecords /\ login[t].new \in Nat
  BY SessionsAssumption DEF TypeOK, Pairs, Empty, Refreshes, CallRecords, LoginRecords

(* The progress of one refresh.                                            *)
LEMMA Goes ==
  ASSUME TypeOK, NEW c \in Calls, NEW pc, Goto(c, pc),
         pc \in {"none", "find", "user", "reuse", "revoke", "issue", "granted", "refused"}
  PROVE  /\ refresh' \in [Calls -> Refreshes]
         /\ refresh'[c].pc = pc /\ refresh'[c].pair = refresh[c].pair /\ refresh'[c].new = refresh[c].new
         /\ \A d \in Calls \ {c} : refresh'[d] = refresh[d]
<1>1. refresh \in [Calls -> Refreshes] /\ refresh[c] \in Refreshes
  BY DEF TypeOK
<1>2. [refresh[c] EXCEPT !.pc = pc] \in Refreshes
  BY <1>1 DEF Refreshes
<1>3. refresh' = [refresh EXCEPT ![c] = [refresh[c] EXCEPT !.pc = pc]]
  BY <1>1 DEF Goto
<1>4. refresh' \in [Calls -> Refreshes] /\ refresh'[c] = [refresh[c] EXCEPT !.pc = pc]
      /\ \A d \in Calls \ {c} : refresh'[d] = refresh[d]
  BY <1>1, <1>2, <1>3
<1> QED BY <1>1, <1>4 DEF Refreshes

-----------------------------------------------------------------------------
(* The steps of the pages.                                                 *)

(* A new row is the first of those unused. *)
LEMMA Issued ==
  ASSUME IInv, Issue, issued + 1 \in Pairs
  PROVE  /\ issued' = issued + 1 /\ token'[issued + 1] = "live" /\ token[issued + 1] = "unused"
         /\ \A k \in Pairs : k # issued + 1 => token'[k] = token[k]
         /\ \A k \in Pairs : k <= issued => token'[k] = token[k] /\ k <= issued'
         /\ issued + 1 \notin logouts /\ exchanged[issued + 1] = 0
         /\ \A k \in Pairs : k > issued' <=> token'[k] = "unused"
<1>1. token \in [Pairs -> {"unused", "live", "revoked", "deleted"}] /\ exchanged \in [Pairs -> Nat]
      /\ issued \in Nat
  BY StateTypes DEF IInv, TypeOK
<1>2. issued + 1 > issued /\ \A k \in Pairs : k <= issued => k # issued + 1 /\ k <= issued + 1
  BY <1>1, StateTypes DEF IInv
<1>3. issued' = issued + 1 /\ token' = [token EXCEPT ![issued + 1] = "live"]
  BY DEF Issue
<1>4. token[issued + 1] = "unused"
  BY <1>2 DEF IInv, RowsInOrder
<1>5. exchanged[issued + 1] = 0
  BY <1>1, <1>4 DEF IInv, RowsInOrder, Dead
<1>6. issued + 1 \notin logouts
  <2>1. ~ (issued + 1 <= issued)
    BY <1>1
  <2> QED BY <2>1 DEF IInv, RowsInOrder
<1>7. token'[issued + 1] = "live" /\ \A k \in Pairs : k # issued + 1 => token'[k] = token[k]
  BY <1>1, <1>3
<1>8. ASSUME NEW k \in Pairs PROVE k > issued' <=> token'[k] = "unused"
  <2>1. k \in Nat
    BY StateTypes DEF IInv
  <2>2. CASE k = issued + 1
    BY <2>2, <1>3, <1>7, <1>1
  <2>3. CASE k # issued + 1
    <3>1. k > issued + 1 <=> k > issued
      BY <2>1, <2>3, <1>1
    <3> QED BY <2>3, <3>1, <1>3, <1>7 DEF IInv, RowsInOrder
  <2> QED BY <2>2, <2>3
<1> QED BY <1>2, <1>3, <1>4, <1>5, <1>6, <1>7, <1>8

(* A login that changes nothing but itself: let in, or failed.             *)
LEMMA OnlyLogin ==
  ASSUME IInv, UNCHANGED <<env, tabOf, token, issued, exchanged, account, change, late, storage, expired,
                           lapsed, call, refresh, page, signedOut, logouts>>,
         login' \in [Tabs -> LoginRecords], NEW t \in InUse,
         \A u \in Tabs \ {t} : login'[u] = login[u],
         login'[t].pc \in {"none", "checked"}, login'[t].pc = "checked" => page[t] = "login",
         PairsLeft',
         Calm => login[t].pc = "none" /\ (account = "deactivated" => login'[t].pc = "none")
  PROVE  IInv'
<1>1. TypeOK'
  BY DEF IInv, TypeOK
<1>2. (Calm' <=> Calm) /\ (Undisturbed' <=> Undisturbed) /\ InUse' = InUse /\ InUse \subseteq Tabs
  BY DEF IInv, TypeOK, Calm, Undisturbed, OneTab, InUse
<1>3. RowsInOrder' /\ RefreshesSound' /\ OnePerTab' /\ SameTab' /\ Once'
  BY DEF IInv, RowsInOrder, RefreshesSound, OnePerTab, SameTab, Once, OneTab, Dead, InFlightNow
<1>4. LoginsSound'
  <2> SUFFICES ASSUME NEW u \in Tabs
               PROVE  /\ login'[u].pc # "none" => page[u] = "login"
                      /\ login'[u].pc = "granted" => login'[u].new \in Pairs /\ login'[u].new <= issued
    BY DEF LoginsSound
  <2> QED BY DEF IInv, LoginsSound
<1>5. OneSession'
  BY <1>2 DEF IInv, OneSession, InFlightNow
<1>6. Calm => \A u \in Tabs : login[u].pc = "granted" <=> login'[u].pc = "granted"
  BY <1>2
<1>7. Calm => \A u \in Tabs : login[u].pc = "granted" => login'[u] = login[u]
  BY <1>2
<1>8. LiveRows'
  <2> SUFFICES ASSUME Calm PROVE LiveRows'
    BY <1>2 DEF LiveRows
  <2>1. \A k \in Pairs : OnItsWay(k) => OnItsWay(k)'
    BY <1>7 DEF OnItsWay
  <2>2. account = "deactivated" => \A u \in Tabs : login'[u].pc = "none"
    BY DEF IInv, LiveRows
  <2> QED BY <2>1, <2>2 DEF IInv, LiveRows, Closing
<1>9. Survives'
  <2> SUFFICES ASSUME Undisturbed PROVE Survives'
    BY <1>2 DEF Survives
  <2>1. \A u \in Tabs : login'[u].pc = "granted" => login[u].pc = "granted" /\ login'[u] = login[u]
    BY <1>6, <1>7 DEF Undisturbed
  <2> QED BY <1>2, <2>1 DEF IInv, Survives
<1> QED BY <1>1, <1>3, <1>4, <1>5, <1>8, <1>9 DEF IInv

LEMMA LoginKeeps ==
  ASSUME IInv, UNCHANGED <<env, tabOf>>, NEW t \in InUse, Login(t)
  PROVE  IInv'
<1> DEFINE x == [login[t] EXCEPT !.pc = "checked"]
<1>1. /\ page[t] = "login" /\ login[t].pc = "none" /\ account = "active" /\ Room
      /\ login' = [login EXCEPT ![t].pc = "checked"]
      /\ UNCHANGED <<token, issued, exchanged, account, change, late, storage, expired, lapsed, call, refresh,
                     page, signedOut, logouts>>
  BY DEF Login, server, owner, client, clocks
<1>2. t \in Tabs /\ login \in [Tabs -> LoginRecords] /\ login[t] \in LoginRecords
  BY DEF IInv, TypeOK, InUse
<1>3. x \in LoginRecords /\ x.pc = "checked" /\ login' = [login EXCEPT ![t] = x]
  BY <1>1, <1>2 DEF LoginRecords
<1> HIDE DEF x
<1>4. login' \in [Tabs -> LoginRecords] /\ login'[t] = x /\ \A u \in Tabs \ {t} : login'[u] = login[u]
  BY <1>2, <1>3
<1>5. PairsLeft'
  <2>1. Needing' \subseteq Needing \cup {t}
    BY <1>1, <1>4 DEF Needing, SigningIn
  <2> QED BY <1>1, <2>1, OneMoreNeeded DEF IInv
<1> QED BY <1>1, <1>3, <1>4, <1>5, OnlyLogin

LEMMA LoginFailsKeeps ==
  ASSUME IInv, UNCHANGED <<env, tabOf>>, NEW t \in InUse, LoginFails(t)
  PROVE  IInv'
<1>1. /\ "lost" \in env \/ "error" \in env
      /\ login' = [login EXCEPT ![t] = NoLogin]
      /\ UNCHANGED <<token, issued, exchanged, account, change, late, storage, expired, lapsed, call, refresh,
                     page, signedOut, logouts>>
  BY DEF LoginFails, server, owner, client, clocks
<1>2. t \in Tabs /\ login \in [Tabs -> LoginRecords] /\ NoLogin \in LoginRecords /\ NoLogin.pc = "none"
  BY DEF IInv, TypeOK, InUse, NoLogin, LoginRecords
<1>3. login' \in [Tabs -> LoginRecords] /\ login'[t] = NoLogin /\ \A u \in Tabs \ {t} : login'[u] = login[u]
  BY <1>1, <1>2
<1>4. PairsLeft'
  <2>1. Needing' \subseteq Needing
    BY <1>1, <1>2, <1>3 DEF Needing, SigningIn
  <2> QED BY <1>1, <2>1, NoMoreNeeded DEF IInv
<1>5. ~ Calm
  BY <1>1 DEF Calm
<1> QED BY <1>1, <1>2, <1>3, <1>4, <1>5, OnlyLogin

(* While replies are in order a login is alone: nothing is stored, and no  *)
(* refresh is in flight.                                                   *)
LEMMA LoginAlone ==
  ASSUME IInv, Calm, NEW t \in Tabs, login[t].pc # "none"
  PROVE  /\ storage = Empty /\ account # "deactivated" /\ t \in InUse /\ \A u \in InUse : u = t
         /\ \A c \in Calls : refresh[c].pc = "none"
         /\ \A u \in Tabs \ {t} : login[u].pc = "none"
<1>1. t \in InUse /\ page[t] = "login" /\ account # "deactivated"
  BY DEF IInv, OneSession, LoginsSound, LiveRows
<1>2. storage = Empty
  BY <1>1 DEF IInv, OneSession
<1>3. ASSUME NEW c \in Calls, InFlightNow(c) PROVE FALSE
  BY <1>2, <1>3, StateTypes DEF IInv, OneSession, RefreshesSound
<1>4. \A u \in InUse : u = t
  BY <1>1 DEF Calm, IInv, SameTab, InUse
<1>5. \A u \in Tabs \ {t} : login[u].pc = "none"
  BY <1>4 DEF IInv, OneSession
<1> QED BY <1>1, <1>2, <1>3, <1>4, <1>5 DEF InFlightNow

LEMMA LoginIssueKeeps ==
  ASSUME IInv, UNCHANGED <<env, tabOf>>, NEW t \in InUse, LoginIssue(t)
  PROVE  IInv'
<1> DEFINE x == [pc |-> "granted", new |-> issued + 1]
<1>1. /\ login[t].pc = "checked" /\ Issue /\ issued' = issued + 1
      /\ token' = [token EXCEPT ![issued + 1] = "live"]
      /\ login' = [login EXCEPT ![t] = x]
      /\ UNCHANGED <<exchanged, account, change, late, storage, expired, lapsed, call, refresh, page, signedOut,
                     logouts>>
  BY DEF LoginIssue, Issue, owner, client, clocks
<1>2. /\ t \in Tabs /\ login \in [Tabs -> LoginRecords] /\ Tabs \cap Calls = {}
      /\ issued \in Nat /\ MaxTokens \in Nat
  BY SessionsAssumption, StateTypes DEF IInv, TypeOK, InUse
<1>3. login'[t] = x /\ \A u \in Tabs \ {t} : login'[u] = login[u]
  BY <1>1, <1>2
<1>4. PairsLeft' /\ issued + 1 \in Pairs
  <2>1. t \in Needing /\ Needing' \subseteq Needing \ {t}
    BY <1>1, <1>2, <1>3 DEF Needing, SigningIn
  <2> QED BY <1>1, <2>1, OneUsed DEF IInv
<1>5. x \in LoginRecords /\ x.pc = "granted" /\ x.new = issued + 1
  BY <1>4 DEF LoginRecords
<1> HIDE DEF x
<1>6. /\ token'[issued + 1] = "live" /\ issued + 1 \notin logouts
      /\ \A k \in Pairs : k # issued + 1 => token'[k] = token[k]
      /\ \A k \in Pairs : k <= issued => token'[k] = token[k] /\ k <= issued'
      /\ \A k \in Pairs : k > issued' <=> token'[k] = "unused"
      /\ exchanged[issued + 1] = 0
  BY <1>1, <1>4, Issued
<1>7. TypeOK'
  <2>1. issued' \in 0 .. MaxTokens
    BY <1>1, <1>2, <1>4 DEF Pairs
  <2>2. login' \in [Tabs -> LoginRecords]
    BY <1>1, <1>2, <1>5
  <2> QED BY <1>1, <1>4, <2>1, <2>2 DEF IInv, TypeOK
<1>8. RowsInOrder'
  <2>1. \A k \in Pairs : exchanged[k] > 0 => token'[k] \in {"revoked", "deleted"}
    BY <1>6 DEF IInv, RowsInOrder, Dead
  <2>2. \A k \in logouts : k <= issued'
    BY <1>6 DEF IInv, TypeOK, RowsInOrder
  <2>3. storage <= issued' /\ lapsed <= issued'
    BY <1>1, StateTypes DEF IInv, RowsInOrder
  <2> QED BY <1>1, <1>6, <2>1, <2>2, <2>3 DEF RowsInOrder, Dead
<1>9. LoginsSound'
  <2> SUFFICES ASSUME NEW u \in Tabs
               PROVE  /\ login'[u].pc # "none" => page[u] = "login"
                      /\ login'[u].pc = "granted" => login'[u].new \in Pairs /\ login'[u].new <= issued'
    BY <1>1 DEF LoginsSound
  <2>1. CASE u = t
    BY <2>1, <1>1, <1>2, <1>3, <1>4, <1>5 DEF IInv, LoginsSound
  <2>2. CASE u # t
    BY <2>2, <1>3, <1>6 DEF IInv, LoginsSound
  <2> QED BY <2>1, <2>2
<1>10. RefreshesSound'
  BY <1>1, <1>6 DEF IInv, RefreshesSound, InFlightNow, Dead
<1>11. OnePerTab' /\ SameTab' /\ Once'
  BY <1>1 DEF IInv, OnePerTab, SameTab, Once, OneTab, InFlightNow
<1>12. (Calm' <=> Calm) /\ (Undisturbed' <=> Undisturbed) /\ InUse' = InUse /\ (Undisturbed => Calm)
  BY DEF Calm, Undisturbed, OneTab, InUse
<1>13. ASSUME Calm
       PROVE  /\ account # "deactivated" /\ \A c \in Calls : refresh[c].pc = "none"
              /\ storage = Empty /\ \A u \in Tabs \ {t} : login[u].pc = "none"
  BY <1>1, <1>2, <1>13, LoginAlone
<1>14. OneSession'
  BY <1>1, <1>3, <1>12 DEF IInv, OneSession, InFlightNow
<1>15. LiveRows'
  <2> SUFFICES ASSUME Calm PROVE LiveRows'
    BY <1>12 DEF LiveRows
  <2>1. ASSUME NEW k \in Pairs, token'[k] = "live" PROVE k <= lapsed \/ OnItsWay(k)'
    <3>1. CASE k = issued + 1
      BY <3>1, <1>2, <1>3, <1>5 DEF OnItsWay
    <3>2. CASE k # issued + 1
      <4>1. k <= lapsed \/ OnItsWay(k)
        BY <3>2, <2>1, <1>6, <1>13 DEF IInv, LiveRows, Closing
      <4>2. k # storage
        BY <1>13, StateTypes DEF IInv
      <4> QED BY <4>1, <4>2, <1>1, <1>13 DEF OnItsWay
    <3> QED BY <3>1, <3>2
  <2> QED BY <2>1, <1>1, <1>13 DEF LiveRows
<1>16. Survives'
  <2> SUFFICES ASSUME Undisturbed PROVE Survives'
    BY <1>12 DEF Survives
  <2>1. Calm
    BY <1>12
  <2>2. \A u \in Tabs : login'[u].pc = "granted" => token'[login'[u].new] = "live" /\ login'[u].new \notin logouts
    BY <2>1, <1>3, <1>5, <1>6, <1>13
  <2> QED BY <2>1, <2>2, <1>1, <1>12, <1>13 DEF IInv, Survives
<1> QED BY <1>4, <1>7, <1>8, <1>9, <1>10, <1>11, <1>14, <1>15, <1>16 DEF IInv

LEMMA SignedInKeeps ==
  ASSUME IInv, UNCHANGED <<env, tabOf>>, NEW t \in InUse, SignedIn(t)
  PROVE  IInv'
<1>1. /\ login[t].pc = "granted" /\ storage' = login[t].new /\ page' = [page EXCEPT ![t] = "app"]
      /\ signedOut' = FALSE /\ login' = [login EXCEPT ![t] = NoLogin]
      /\ UNCHANGED <<token, issued, exchanged, account, change, late, expired, lapsed, call, refresh, logouts>>
  BY DEF SignedIn, server, owner, clocks
<1>2. /\ t \in Tabs /\ login \in [Tabs -> LoginRecords] /\ page \in [Tabs -> {"login", "app"}]
      /\ NoLogin \in LoginRecords /\ NoLogin.pc = "none"
  BY DEF IInv, TypeOK, InUse, NoLogin, LoginRecords
<1>3. storage' \in Pairs /\ storage' <= issued /\ storage' # Empty
  BY <1>1, <1>2, StateTypes DEF IInv, LoginsSound
<1>4. /\ login' \in [Tabs -> LoginRecords] /\ login'[t].pc = "none"
      /\ \A u \in Tabs \ {t} : login'[u] = login[u]
  BY <1>1, <1>2
<1>5. /\ page' \in [Tabs -> {"login", "app"}] /\ page'[t] = "app"
      /\ \A u \in Tabs \ {t} : page'[u] = page[u]
  BY <1>1, <1>2
<1>6. TypeOK'
  BY <1>1, <1>3, <1>4, <1>5 DEF IInv, TypeOK
<1>7. PairsLeft'
  <2>1. Needing' \subseteq Needing
    BY <1>1, <1>4 DEF Needing, SigningIn
  <2> QED BY <1>1, <2>1, NoMoreNeeded DEF IInv
<1>8. RowsInOrder' /\ RefreshesSound' /\ OnePerTab' /\ SameTab' /\ Once'
  BY <1>1, <1>3 DEF IInv, RowsInOrder, RefreshesSound, OnePerTab, SameTab, Once, OneTab, Dead, InFlightNow
<1>9. LoginsSound'
  <2> SUFFICES ASSUME NEW u \in Tabs
               PROVE  /\ login'[u].pc # "none" => page'[u] = "login"
                      /\ login'[u].pc = "granted" => login'[u].new \in Pairs /\ login'[u].new <= issued
    BY <1>1 DEF LoginsSound
  <2> QED BY <1>4, <1>5 DEF IInv, LoginsSound
<1>10. (Calm' <=> Calm) /\ (Undisturbed' <=> Undisturbed) /\ InUse' = InUse /\ (Undisturbed => Calm)
  BY DEF Calm, Undisturbed, OneTab, InUse
<1>11. ASSUME Calm
       PROVE  /\ account # "deactivated" /\ \A c \in Calls : refresh[c].pc = "none"
              /\ \A u \in InUse : page'[u] = "app"
              /\ storage = Empty /\ \A u \in Tabs : login'[u].pc = "none"
              /\ \A u \in Tabs \ {t} : login[u].pc = "none"
  <2>1. /\ account # "deactivated" /\ \A c \in Calls : refresh[c].pc = "none"
        /\ storage = Empty /\ \A u \in Tabs \ {t} : login[u].pc = "none"
        /\ \A u \in InUse : u = t
    BY <1>1, <1>2, <1>11, LoginAlone
  <2> QED BY <2>1, <1>4, <1>5
<1>12. OneSession'
  BY <1>1, <1>3, <1>10, <1>11 DEF OneSession, InFlightNow
<1>13. LiveRows'
  <2> SUFFICES ASSUME Calm PROVE LiveRows'
    BY <1>10 DEF LiveRows
  <2>1. ASSUME NEW k \in Pairs, token[k] = "live" PROVE k <= lapsed \/ OnItsWay(k)'
    <3>1. k <= lapsed \/ OnItsWay(k)
      BY <2>1, <1>11 DEF IInv, LiveRows, Closing
    <3>2. k # storage
      BY <1>11, StateTypes DEF IInv
    <3> QED BY <3>1, <3>2, <1>1, <1>11 DEF OnItsWay
  <2> QED BY <2>1, <1>1, <1>11 DEF LiveRows
<1>14. Survives'
  <2> SUFFICES ASSUME Undisturbed PROVE Survives'
    BY <1>10 DEF Survives
  <2>1. Calm
    BY <1>10
  <2>2. token[storage'] = "live" /\ storage' \notin logouts
    BY <1>1, <1>2 DEF IInv, Survives
  <2>3. account # "deactivated" /\ change = "none" /\ lapsed = 0
    BY DEF IInv, Survives
  <2> QED BY <2>1, <2>2, <2>3, <1>1, <1>10, <1>11 DEF Survives
<1> QED BY <1>6, <1>7, <1>8, <1>9, <1>12, <1>13, <1>14 DEF IInv

(* A step that leaves rows, storage and refreshes alone, and sends nobody  *)
(* to the login page.                                                      *)
LEMMA OnlyCalls ==
  ASSUME IInv, UNCHANGED <<env, tabOf, token, issued, exchanged, account, change, late, storage, lapsed, refresh,
                           signedOut, login, logouts>>,
         call' \in [Calls -> CallRecords], expired' \subseteq Pairs, page' \in [Tabs -> {"login", "app"}],
         \A t \in Tabs : page'[t] = page[t] \/ (page'[t] = "app" /\ login[t].pc = "none"),
         Calm => UNCHANGED page,
         PairsLeft', \A c \in Calls : InFlightNow(c) => call'[c].pc # "sent"
  PROVE  IInv'
<1>1. TypeOK'
  BY DEF IInv, TypeOK
<1>2. InUse \subseteq Tabs /\ InUse' = InUse /\ (Calm' <=> Calm) /\ (Undisturbed' <=> Undisturbed)
  BY DEF IInv, TypeOK, InUse, Calm, Undisturbed, OneTab
<1>3. RowsInOrder' /\ RefreshesSound' /\ Once' /\ SameTab'
  BY DEF IInv, RowsInOrder, RefreshesSound, Once, SameTab, OneTab, Dead, InFlightNow
<1>4. OnePerTab'
  BY DEF IInv, OnePerTab, InFlightNow
<1>5. LoginsSound'
  BY DEF IInv, LoginsSound
<1>6. OneSession'
  BY <1>2 DEF IInv, OneSession, InFlightNow
<1>7. LiveRows'
  BY <1>2 DEF IInv, LiveRows, OnItsWay, Closing
<1>8. Survives'
  BY <1>2 DEF IInv, Survives
<1> QED BY <1>1, <1>3, <1>4, <1>5, <1>6, <1>7, <1>8 DEF IInv

LEMMA OpenKeeps ==
  ASSUME IInv, UNCHANGED <<env, tabOf>>, NEW t \in InUse, Open(t)
  PROVE  IInv'
<1>1. /\ page' = [page EXCEPT ![t] = "app"] /\ login[t].pc = "none"
      /\ UNCHANGED <<token, issued, exchanged, account, change, late, storage, expired, lapsed, call, refresh,
                     signedOut, login, logouts>>
  BY DEF Open, server, owner, clocks, requests
<1>2. page' \in [Tabs -> {"login", "app"}] /\ page'[t] = "app" /\ \A u \in Tabs : u # t => page'[u] = page[u]
  BY <1>1 DEF IInv, TypeOK, InUse
<1>3. PairsLeft'
  <2>1. Needing' \subseteq Needing
    BY <1>1 DEF Needing, SigningIn
  <2> QED BY <1>1, <2>1, NoMoreNeeded DEF IInv
<1>4. call' \in [Calls -> CallRecords] /\ expired' \subseteq Pairs
      /\ \A c \in Calls : InFlightNow(c) => call'[c].pc # "sent"
  BY <1>1 DEF IInv, TypeOK, OnePerTab
<1>5. ~ Calm
  BY DEF Open, IInv, OneSession
<1> QED BY <1>1, <1>2, <1>3, <1>4, <1>5, OnlyCalls

LEMMA ExpireKeeps ==
  ASSUME IInv, UNCHANGED <<env, tabOf>>, Expire
  PROVE  IInv'
<1>1. /\ expired' = expired \cup {storage} /\ storage # Empty
      /\ UNCHANGED <<token, issued, exchanged, account, change, late, storage, lapsed, page, call, refresh,
                     signedOut, login, logouts>>
  BY DEF Expire, server, owner, client, clocks, requests
<1>2. PairsLeft'
  <2>1. Needing' \subseteq Needing
    BY <1>1 DEF Needing, SigningIn
  <2> QED BY <1>1, <2>1, NoMoreNeeded DEF IInv
<1>3. call' \in [Calls -> CallRecords] /\ expired' \subseteq Pairs /\ page' \in [Tabs -> {"login", "app"}]
      /\ \A c \in Calls : InFlightNow(c) => call'[c].pc # "sent"
  BY <1>1 DEF IInv, TypeOK, OnePerTab
<1> QED BY <1>1, <1>2, <1>3, OnlyCalls

LEMMA LapseKeeps ==
  ASSUME IInv, UNCHANGED <<env, tabOf>>, Lapse
  PROVE  IInv'
<1>1. /\ "expiry" \in env /\ lapsed < issued /\ lapsed' = lapsed + 1 /\ expired' = expired \cup {lapsed + 1}
      /\ UNCHANGED <<token, issued, exchanged, account, change, late, storage, page, call, refresh,
                     signedOut, login, logouts>>
  BY DEF Lapse, server, owner, client, clocks, requests
<1>2. lapsed' \in 0 .. MaxTokens /\ lapsed + 1 \in Pairs /\ lapsed' <= issued
  <2>1. issued \in 0 .. MaxTokens /\ lapsed \in 0 .. MaxTokens /\ MaxTokens \in Nat
    BY SessionsAssumption DEF IInv, TypeOK
  <2> QED BY <1>1, <2>1 DEF Pairs
<1>3. TypeOK'
  BY <1>1, <1>2 DEF IInv, TypeOK
<1>4. PairsLeft'
  <2>1. Needing' \subseteq Needing
    BY <1>1 DEF Needing, SigningIn
  <2> QED BY <1>1, <2>1, NoMoreNeeded DEF IInv
<1>5. RowsInOrder' /\ LoginsSound' /\ RefreshesSound' /\ OnePerTab' /\ SameTab' /\ Once'
  BY <1>1, <1>2 DEF IInv, RowsInOrder, LoginsSound, RefreshesSound, OnePerTab, SameTab, Once, OneTab, Dead,
     InFlightNow
<1>6. (Calm' <=> Calm) /\ InUse' = InUse /\ ~ Undisturbed'
  BY <1>1 DEF Calm, Undisturbed, OneTab, InUse
<1>7. OneSession'
  BY <1>1, <1>6 DEF IInv, OneSession, InFlightNow
<1>8. LiveRows'
  <2>1. \A k \in Nat : k <= lapsed => k <= lapsed'
    BY <1>1, StateTypes DEF IInv
  <2>2. \A k \in Pairs : OnItsWay(k) => OnItsWay(k)'
    BY <1>1 DEF OnItsWay
  <2> QED BY <1>1, <1>6, <2>1, <2>2, StateTypes DEF IInv, LiveRows, Closing
<1>9. Survives'
  BY <1>6 DEF Survives
<1> QED BY <1>3, <1>4, <1>5, <1>7, <1>8, <1>9 DEF IInv

LEMMA SendKeeps ==
  ASSUME IInv, UNCHANGED <<env, tabOf>>, NEW c \in Calls, Send(c)
  PROVE  IInv'
<1> DEFINE x == [pc |-> "sent", sent |-> storage, retried |-> FALSE]
<1>1. /\ call' = [call EXCEPT ![c] = x] /\ refresh[c].pc = "none" /\ Room
      /\ UNCHANGED <<token, issued, exchanged, account, change, late, storage, page, expired, lapsed, refresh,
                     signedOut, login, logouts>>
  BY DEF Send, server, owner, clocks, requests
<1>2. call \in [Calls -> CallRecords] /\ x \in CallRecords
  BY DEF IInv, TypeOK, CallRecords
<1>3. call' \in [Calls -> CallRecords] /\ \A d \in Calls \ {c} : call'[d] = call[d]
  BY <1>1, <1>2
<1>4. PairsLeft'
  <2>1. Needing' \subseteq Needing \cup {c}
    BY <1>1, <1>3 DEF Needing, SigningIn
  <2> QED BY <1>1, <2>1, OneMoreNeeded DEF IInv
<1>5. \A d \in Calls : InFlightNow(d) => call'[d].pc # "sent"
  BY <1>1, <1>3 DEF IInv, OnePerTab, InFlightNow
<1>6. expired' \subseteq Pairs /\ page' \in [Tabs -> {"login", "app"}]
  BY <1>1 DEF IInv, TypeOK
<1> QED BY <1>1, <1>3, <1>4, <1>5, <1>6, OnlyCalls

LEMMA AnswerKeeps ==
  ASSUME IInv, UNCHANGED <<env, tabOf>>, NEW c \in Calls, Answer(c)
  PROVE  IInv'
<1>1. /\ call' = [call EXCEPT ![c] = NoCall]
      /\ UNCHANGED <<token, issued, exchanged, account, change, late, storage, page, expired, lapsed, refresh,
                     signedOut, login, logouts>>
  BY DEF Answer, server, owner, clocks, requests
<1>2. call \in [Calls -> CallRecords] /\ NoCall \in CallRecords /\ NoCall.pc = "idle"
  BY DEF IInv, TypeOK, CallRecords, NoCall
<1>3. call' \in [Calls -> CallRecords] /\ call'[c] = NoCall /\ \A d \in Calls \ {c} : call'[d] = call[d]
  BY <1>1, <1>2
<1>4. PairsLeft'
  <2>1. Needing' \subseteq Needing
    BY <1>1, <1>2, <1>3 DEF Needing, SigningIn
  <2> QED BY <1>1, <2>1, NoMoreNeeded DEF IInv
<1>5. \A d \in Calls : InFlightNow(d) => call'[d].pc # "sent"
  BY <1>2, <1>3 DEF IInv, OnePerTab
<1>6. expired' \subseteq Pairs /\ page' \in [Tabs -> {"login", "app"}]
  BY <1>1 DEF IInv, TypeOK
<1> QED BY <1>1, <1>3, <1>4, <1>5, <1>6, OnlyCalls

(* A refresh is started only where none of the tab is in flight, for the   *)
(* pair in storage.                                                        *)
LEMMA RejectKeeps ==
  ASSUME IInv, UNCHANGED <<env, tabOf>>, NEW c \in Calls, Reject(c)
  PROVE  IInv'
<1> DEFINE x == [call[c] EXCEPT !.pc = "waiting"]
<1>1. /\ call' = [call EXCEPT ![c].pc = "waiting"] /\ call[c].pc = "sent" /\ ~ call[c].retried
      /\ storage # Empty
      /\ UNCHANGED <<token, issued, exchanged, account, change, late, storage, page, expired, lapsed,
                     signedOut, login, logouts>>
  BY DEF Reject, MustRefresh, server, owner, clocks, requests
<1>2. call \in [Calls -> CallRecords] /\ call[c] \in CallRecords /\ refresh \in [Calls -> Refreshes]
      /\ storage \in Pairs /\ expired \subseteq Pairs /\ page \in [Tabs -> {"login", "app"}]
  BY <1>1 DEF IInv, TypeOK
<1>3. call' = [call EXCEPT ![c] = x] /\ x \in CallRecords /\ x.pc = "waiting"
  BY <1>1, <1>2 DEF CallRecords
<1>4. call' \in [Calls -> CallRecords] /\ call'[c].pc = "waiting" /\ \A d \in Calls \ {c} : call'[d] = call[d]
  BY <1>2, <1>3
<1>5. ~ InFlightNow(c)
  BY <1>1 DEF IInv, OnePerTab
<1>6. CASE InFlight(tabOf[c]) # {}
  <2>1. UNCHANGED refresh
    BY <1>6 DEF Reject
  <2>2. PairsLeft'
    <3>1. Needing' \subseteq Needing
      BY <1>1, <2>1, <1>4 DEF Needing, SigningIn
    <3> QED BY <1>1, <3>1, NoMoreNeeded DEF IInv
  <2>3. \A d \in Calls : InFlightNow(d) => call'[d].pc # "sent"
    BY <1>4 DEF IInv, OnePerTab
  <2> QED BY <1>1, <1>2, <1>4, <2>1, <2>2, <2>3, OnlyCalls
<1>7. CASE InFlight(tabOf[c]) = {}
  <2> DEFINE y == [NoRefresh EXCEPT !.pc = "find", !.pair = storage]
  <2>1. y \in Refreshes /\ y.pc = "find" /\ y.pair = storage
    BY <1>2 DEF Refreshes, NoRefresh
  <2>2. refresh' = [refresh EXCEPT ![c] = y]
    BY <1>7 DEF Reject, Starts
  <2> HIDE DEF y
  <2>3. refresh' \in [Calls -> Refreshes] /\ refresh'[c].pc = "find" /\ refresh'[c].pair = storage
        /\ \A d \in Calls \ {c} : refresh'[d] = refresh[d]
    BY <1>2, <2>1, <2>2
  <2>4. \A d \in Calls : tabOf[d] = tabOf[c] => refresh[d].pc = "none"
    BY <1>7 DEF InFlight
  <2>5. TypeOK'
    BY <1>1, <1>4, <2>3 DEF IInv, TypeOK
  <2>6. PairsLeft'
    <3>1. Needing' \subseteq Needing
      BY <1>1, <1>4, <2>3 DEF Needing, SigningIn
    <3> QED BY <1>1, <3>1, NoMoreNeeded DEF IInv
  <2>7. RowsInOrder' /\ SameTab'
    BY <1>1 DEF IInv, RowsInOrder, Dead, SameTab, OneTab
  <2>8. RefreshesSound' /\ LoginsSound'
    BY <1>1, <1>2, <2>3 DEF IInv, RefreshesSound, LoginsSound, InFlightNow, Dead, RowsInOrder
  <2>9. OnePerTab'
    BY <1>4, <2>3, <2>4 DEF IInv, OnePerTab, InFlightNow
  <2>10. Once'
    BY <1>1, <2>3 DEF IInv, Once, OneTab
  <2>11. (Calm' <=> Calm) /\ (Undisturbed' <=> Undisturbed) /\ InUse' = InUse
    BY DEF Calm, Undisturbed, OneTab, InUse
  <2>12. OneSession'
    BY <1>1, <2>3, <2>11 DEF IInv, OneSession, InFlightNow
  <2>13. LiveRows'
    <3>1. \A k : \A d \in Calls : refresh[d].pc = "granted" /\ k = refresh[d].new =>
                  refresh'[d].pc = "granted" /\ k = refresh'[d].new
      BY <2>3, <1>5 DEF InFlightNow
    <3>2. \A k \in Pairs : OnItsWay(k) => OnItsWay(k)'
      BY <1>1, <3>1 DEF OnItsWay
    <3> QED BY <1>1, <2>3, <2>11, <3>2 DEF IInv, LiveRows, Closing
  <2>14. Survives'
    <3> SUFFICES ASSUME Undisturbed PROVE Survives'
      BY <2>11 DEF Survives
    <3>1. \A d \in Calls : refresh[d].pc = "none"
      BY <2>4 DEF Undisturbed, Calm, IInv, SameTab
    <3> QED BY <1>1, <2>3, <2>11, <3>1 DEF IInv, Survives
  <2> QED BY <2>5, <2>6, <2>7, <2>8, <2>9, <2>10, <2>12, <2>13, <2>14 DEF IInv
<1> QED BY <1>6, <1>7

-----------------------------------------------------------------------------
(* The server's steps of a refresh.  Rows only ever die meanwhile.         *)
RowsDie ==
    \A k \in Pairs : token'[k] = token[k] \/ (token[k] # "unused" /\ token'[k] \in {"revoked", "deleted"})

LEMMA DyingRows ==
  ASSUME IInv, RowsDie, UNCHANGED <<issued, exchanged, lapsed>>,
         storage' \in Pairs \cup {Empty}, storage' <= issued, \A k \in logouts' : k <= issued
  PROVE  RowsInOrder' /\ \A k \in Pairs : (token'[k] = "live" => token[k] = "live") /\ (Dead(k) => Dead(k)')
<1>1. token \in [Pairs -> {"unused", "live", "revoked", "deleted"}]
  BY DEF IInv, TypeOK
<1>2. \A k \in Pairs : /\ token'[k] = "live" => token[k] = "live"
                       /\ token[k] \in {"revoked", "deleted"} => token'[k] \in {"revoked", "deleted"}
                       /\ token'[k] = "unused" <=> token[k] = "unused"
  BY <1>1 DEF RowsDie
<1>3. RowsInOrder'
  BY <1>2 DEF IInv, RowsInOrder, Dead
<1> QED BY <1>2, <1>3 DEF Dead

LEMMA ServerStep ==
  ASSUME IInv, UNCHANGED <<env, tabOf, issued, exchanged, account, change, late, storage, call, page, signedOut,
                           expired, lapsed, login, logouts>>,
         NEW c \in Calls, NEW pc \in {"user", "reuse", "revoke", "issue", "refused"}, Goto(c, pc),
         InFlightNow(c), Calm => refresh[c].pc \in {"find", "user", "reuse", "revoke"},
         token' \in [Pairs -> {"unused", "live", "revoked", "deleted"}], RowsDie,
         pc \in {"user", "revoke", "issue"} =>
            refresh[c].pc \in {"find", "user", "revoke"} /\ (OneTab => exchanged[refresh[c].pair] = 0),
         pc = "issue" => token'[refresh[c].pair] \in {"revoked", "deleted"},
         Calm => /\ pc = "refused" => token'[refresh[c].pair] # "live" \/ refresh[c].pair <= lapsed \/ Closing
                 /\ account = "deactivated" => pc \notin {"revoke", "issue"},
         Undisturbed => pc \notin {"reuse", "refused"} /\ (pc = "issue" \/ token'[storage] = "live")
  PROVE  IInv'
<1>1. /\ refresh' \in [Calls -> Refreshes] /\ refresh'[c].pc = pc
      /\ refresh'[c].pair = refresh[c].pair /\ refresh'[c].new = refresh[c].new
      /\ \A d \in Calls \ {c} : refresh'[d] = refresh[d]
  BY Goes DEF IInv
<1>2. TypeOK'
  BY <1>1 DEF IInv, TypeOK
<1>3. PairsLeft'
  <2>1. Needing' \subseteq Needing
    BY <1>1 DEF Needing, SigningIn
  <2> QED BY <2>1, NoMoreNeeded DEF IInv
<1>4. RowsInOrder' /\ \A k \in Pairs : (token'[k] = "live" => token[k] = "live") /\ (Dead(k) => Dead(k)')
  <2>1. storage \in Pairs \cup {Empty} /\ storage <= issued /\ \A k \in logouts : k <= issued
    BY DEF IInv, TypeOK, RowsInOrder
  <2> QED BY <2>1, DyingRows
<1>5. RefreshesSound'
  <2> SUFFICES ASSUME NEW d \in Calls
               PROVE  /\ InFlightNow(d)' => refresh'[d].pair \in Pairs /\ refresh'[d].pair <= issued
                      /\ refresh'[d].pc \in {"issue", "granted"} => token'[refresh'[d].pair] \in {"revoked", "deleted"}
                      /\ refresh'[d].pc = "granted" => refresh'[d].new \in Pairs /\ refresh'[d].new <= issued
    BY DEF RefreshesSound, Dead, InFlightNow
  <2>1. CASE d = c
    BY <2>1, <1>1 DEF IInv, RefreshesSound, InFlightNow
  <2>2. CASE d # c
    BY <2>2, <1>1, <1>4 DEF IInv, RefreshesSound, InFlightNow, Dead
  <2> QED BY <2>1, <2>2
<1>6. OnePerTab' /\ SameTab' /\ LoginsSound'
  BY <1>1 DEF IInv, OnePerTab, SameTab, LoginsSound, OneTab, InFlightNow
<1>7. Once'
  BY <1>1 DEF IInv, Once, OneTab
<1>8. (Calm' <=> Calm) /\ (Undisturbed' <=> Undisturbed) /\ InUse' = InUse
  BY DEF Calm, Undisturbed, OneTab, InUse
<1>9. OneSession'
  BY <1>1, <1>8 DEF IInv, OneSession, InFlightNow
<1>10. LiveRows'
  <2> SUFFICES ASSUME Calm PROVE LiveRows'
    BY <1>8 DEF LiveRows
  <2>1. ASSUME NEW k \in Pairs, token'[k] = "live"
        PROVE  k <= lapsed \/ OnItsWay(k)' \/ (Closing /\ ~ signedOut /\ storage = Empty)
    <3>1. token[k] = "live"
      BY <2>1, <1>4
    <3>2. \A d \in Calls : refresh[d].pc = "granted" => refresh'[d] = refresh[d]
      BY <1>1
    <3>3. OnItsWay(k) => OnItsWay(k)'
      BY <3>2 DEF OnItsWay
    <3> QED BY <3>1, <3>3 DEF IInv, LiveRows
  <2>2. ASSUME NEW d \in Calls, refresh'[d].pc = "refused"
        PROVE  token'[refresh'[d].pair] # "live" \/ refresh'[d].pair <= lapsed \/ Closing
    <3>1. CASE d = c
      BY <2>2, <3>1, <1>1
    <3>2. CASE d # c
      <4>1. refresh[d].pair \in Pairs
        BY <2>2, <3>2, <1>1 DEF IInv, RefreshesSound, InFlightNow
      <4> QED BY <2>2, <3>2, <4>1, <1>1, <1>4 DEF IInv, LiveRows
    <3> QED BY <3>1, <3>2
  <2>3. account = "deactivated" =>
              /\ change # "none" /\ \A d \in Calls : refresh'[d].pc \notin {"revoke", "issue", "granted"}
              /\ \A t \in Tabs : login[t].pc = "none"
    BY <1>1 DEF IInv, LiveRows
  <2>4. account = "deactivated" /\ change = "ended" => \A k \in Pairs : token'[k] # "live"
    BY <1>4 DEF IInv, LiveRows
  <2> QED BY <2>1, <2>2, <2>3, <2>4 DEF LiveRows, Closing
<1>11. Survives'
  <2> SUFFICES ASSUME Undisturbed PROVE Survives'
    BY <1>8 DEF Survives
  <2>1. \A d \in Calls \ {c} : refresh[d].pc = "none"
    BY DEF Undisturbed, Calm, IInv, SameTab, OnePerTab, InFlightNow
  <2>2. \A t \in Tabs : login[t].pc = "none"
    BY LoginAlone DEF Undisturbed, InFlightNow
  <2> QED BY <2>1, <2>2, <1>1, <1>8 DEF IInv, Survives
<1> QED BY <1>2, <1>3, <1>4, <1>5, <1>6, <1>7, <1>9, <1>10, <1>11 DEF IInv

LEMMA FindRowKeeps ==
  ASSUME IInv, UNCHANGED <<env, tabOf>>, NEW c \in Calls, FindRow(c)
  PROVE  IInv'
<1> DEFINE k == refresh[c].pair
           pc == IF k > lapsed /\ token[k] = "live" THEN "user"
                 ELSE IF k > lapsed /\ token[k] = "revoked" THEN "reuse" ELSE "refused"
<1>1. /\ refresh[c].pc = "find" /\ Goto(c, pc)
      /\ UNCHANGED <<token, issued, exchanged, account, change, late, storage, call, page, signedOut,
                     expired, lapsed, login, logouts>>
  BY DEF FindRow, server, client, owner, clocks, requests
<1>2. k \in Pairs /\ token \in [Pairs -> {"unused", "live", "revoked", "deleted"}] /\ exchanged \in [Pairs -> Nat]
  BY <1>1 DEF IInv, TypeOK, RefreshesSound, InFlightNow
<1>3. /\ pc \in {"user", "reuse", "refused"} /\ (pc = "user" <=> k > lapsed /\ token[k] = "live")
      /\ pc = "refused" => token[k] # "live" \/ k <= lapsed
  BY <1>2, StateTypes DEF IInv
<1>4. token[k] = "live" => exchanged[k] = 0
  BY <1>2 DEF IInv, RowsInOrder, Dead
<1>5. ASSUME Undisturbed PROVE token[storage] = "live" /\ k = storage /\ k > lapsed
  <2>1. k = storage
    BY <1>1, <1>5 DEF IInv, OneSession, Undisturbed, InFlightNow
  <2>2. \A d \in Calls : refresh[d].pc \notin {"issue", "granted"}
    BY <1>1, <1>5 DEF Undisturbed, Calm, IInv, SameTab, OnePerTab, InFlightNow
  <2>3. storage # Empty
    BY <2>1, <1>2, StateTypes DEF IInv
  <2>4. lapsed = 0 /\ k > 0
    BY <1>2, <1>5, StateTypes DEF IInv, Survives, Empty
  <2> QED BY <1>5, <2>1, <2>2, <2>3, <2>4 DEF IInv, Survives
<1>6. RowsDie
  BY <1>1 DEF RowsDie
<1> HIDE DEF pc
<1> QED BY <1>1, <1>2, <1>3, <1>4, <1>5, <1>6, ServerStep DEF InFlightNow

LEMMA FindUserKeeps ==
  ASSUME IInv, UNCHANGED <<env, tabOf>>, NEW c \in Calls, FindUser(c)
  PROVE  IInv'
<1> DEFINE k == refresh[c].pair
           pc == IF account = "deactivated" THEN "refused" ELSE "revoke"
<1>1. /\ refresh[c].pc = "user" /\ Goto(c, pc)
      /\ UNCHANGED <<token, issued, exchanged, account, change, late, storage, call, page, signedOut,
                     expired, lapsed, login, logouts>>
  BY DEF FindUser, server, client, owner, clocks, requests
<1>2. k \in Pairs /\ token \in [Pairs -> {"unused", "live", "revoked", "deleted"}]
      /\ change \in {"none", "written", "ended"}
  BY <1>1 DEF IInv, TypeOK, RefreshesSound, InFlightNow
<1>3. pc \in {"refused", "revoke"} /\ (pc = "refused" <=> account = "deactivated")
  OBVIOUS
<1>4. OneTab => exchanged[k] = 0
  BY <1>1 DEF IInv, Once
<1>5. ASSUME Calm, account = "deactivated" PROVE token[k] # "live" \/ k <= lapsed \/ Closing
  BY <1>2, <1>5 DEF IInv, LiveRows, Closing
<1>6. ASSUME Undisturbed PROVE token[storage] = "live" /\ account # "deactivated"
  <2>1. k = storage
    BY <1>1, <1>6 DEF IInv, OneSession, Undisturbed, InFlightNow
  <2>2. \A d \in Calls : refresh[d].pc \notin {"issue", "granted"}
    BY <1>1, <1>6 DEF Undisturbed, Calm, IInv, SameTab, OnePerTab, InFlightNow
  <2>3. storage # Empty
    BY <2>1, <1>2, StateTypes DEF IInv
  <2> QED BY <1>6, <2>1, <2>2, <2>3 DEF IInv, Survives
<1>7. RowsDie
  BY <1>1 DEF RowsDie
<1> HIDE DEF pc
<1> QED BY <1>1, <1>2, <1>3, <1>4, <1>5, <1>6, <1>7, ServerStep DEF InFlightNow

LEMMA ReuseKeeps ==
  ASSUME IInv, UNCHANGED <<env, tabOf>>, NEW c \in Calls, Reuse(c)
  PROVE  IInv'
<1>1. /\ refresh[c].pc = "reuse" /\ Goto(c, "refused") /\ token' = RevokedAll
      /\ UNCHANGED <<issued, exchanged, account, change, late, storage, call, page, signedOut, expired, lapsed, login, logouts>>
  BY DEF Reuse, client, owner, clocks, requests
<1>2. token' \in [Pairs -> {"unused", "live", "revoked", "deleted"}] /\ RowsDie
      /\ \A k \in Pairs : token'[k] # "live"
  BY <1>1 DEF IInv, TypeOK, RevokedAll, RowsDie
<1>3. refresh[c].pair \in Pairs
  BY <1>1 DEF IInv, RefreshesSound, InFlightNow
<1>4. ~ Undisturbed
  BY <1>1 DEF IInv, Survives
<1> QED BY <1>1, <1>2, <1>3, <1>4, ServerStep DEF InFlightNow

LEMMA RevokeKeeps ==
  ASSUME IInv, UNCHANGED <<env, tabOf>>, NEW c \in Calls, Revoke(c)
  PROVE  IInv'
<1> DEFINE k == refresh[c].pair
<1>1. /\ refresh[c].pc = "revoke" /\ InFlightNow(c)
      /\ UNCHANGED <<issued, exchanged, account, change, late, storage, call, page, signedOut, expired, lapsed,
                     login, logouts>>
  BY DEF Revoke, client, owner, clocks, requests, InFlightNow
<1>2. /\ k \in Pairs /\ k \in Nat /\ issued \in Nat /\ k <= issued
      /\ token \in [Pairs -> {"unused", "live", "revoked", "deleted"}]
  BY <1>1, StateTypes DEF IInv, RefreshesSound, InFlightNow, TypeOK
<1>3. CASE token[k] = "deleted"
  <2>1. Goto(c, "refused") /\ token' = token
    BY <1>3 DEF Revoke
  <2>2. RowsDie
    BY <2>1 DEF RowsDie
  <2>3. ASSUME Undisturbed PROVE FALSE
    <3>1. k = storage /\ storage # Empty
      BY <1>1, <1>2, <2>3, StateTypes DEF IInv, OneSession, Undisturbed
    <3>2. \A d \in Calls : refresh[d].pc \notin {"issue", "granted"}
      BY <1>1, <2>3 DEF Undisturbed, Calm, IInv, SameTab, OnePerTab, InFlightNow
    <3> QED BY <1>3, <2>3, <3>1, <3>2 DEF IInv, Survives
  <2> QED BY <1>1, <1>2, <1>3, <2>1, <2>2, <2>3, ServerStep
<1>4. CASE token[k] # "deleted"
  <2>1. Goto(c, "issue") /\ token' = [token EXCEPT ![k] = "revoked"]
    BY <1>4 DEF Revoke
  <2>2. token[k] # "unused"
    BY <1>2 DEF IInv, RowsInOrder
  <2>3. /\ token' \in [Pairs -> {"unused", "live", "revoked", "deleted"}] /\ token'[k] = "revoked"
        /\ \A j \in Pairs : j # k => token'[j] = token[j]
    BY <1>2, <2>1
  <2>4. RowsDie
    BY <2>2, <2>3 DEF RowsDie
  <2>5. OneTab => exchanged[k] = 0
    BY <1>1 DEF IInv, Once
  <2>6. Calm => account # "deactivated"
    BY <1>1 DEF IInv, LiveRows
  <2> QED BY <1>1, <2>1, <2>3, <2>4, <2>5, <2>6, ServerStep
<1> QED BY <1>3, <1>4

(* A query that failed leaves what was written, and the reply is a refusal. *)
LEMMA FailKeeps ==
  ASSUME IInv, UNCHANGED <<env, tabOf>>, NEW c \in Calls, Fail(c)
  PROVE  IInv'
<1>1. /\ "error" \in env /\ InFlightNow(c) /\ Goto(c, "refused")
      /\ UNCHANGED <<token, issued, exchanged, account, change, late, storage, call, page, signedOut, expired,
                     lapsed, login, logouts>>
  BY DEF Fail, server, client, owner, clocks, requests, InFlightNow
<1>2. ~ Calm /\ ~ Undisturbed
  BY <1>1 DEF Calm, Undisturbed
<1>3. RowsDie /\ token' \in [Pairs -> {"unused", "live", "revoked", "deleted"}]
  BY <1>1 DEF RowsDie, IInv, TypeOK
<1> QED BY <1>1, <1>2, <1>3, ServerStep

(* The new pair is one of those left. *)
LEMMA IssuePairKeeps ==
  ASSUME IInv, UNCHANGED <<env, tabOf>>, NEW c \in Calls, IssuePair(c)
  PROVE  IInv'
<1> DEFINE k == refresh[c].pair
           y == [refresh[c] EXCEPT !.pc = "granted", !.new = issued + 1]
<1>1. /\ refresh[c].pc = "issue" /\ Issue
      /\ exchanged' = [exchanged EXCEPT ![k] = @ + 1]
      /\ refresh' = [refresh EXCEPT ![c].pc = "granted", ![c].new = issued + 1]
      /\ UNCHANGED <<account, change, late, storage, call, page, signedOut, expired, lapsed, login, logouts>>
  BY DEF IssuePair, client, owner, clocks, requests
<1>2. /\ k \in Pairs /\ k <= issued /\ k \in Nat /\ issued \in Nat /\ MaxTokens \in Nat /\ Dead(k)
      /\ exchanged \in [Pairs -> Nat] /\ refresh \in [Calls -> Refreshes] /\ refresh[c] \in Refreshes
  BY <1>1, StateTypes DEF IInv, TypeOK, RefreshesSound, InFlightNow
<1>3. Needing' \subseteq Needing \ {c} /\ c \in Needing
  <2>1. call[c].pc # "sent" /\ c \notin Tabs
    BY <1>1, SessionsAssumption DEF IInv, OnePerTab, InFlightNow
  <2>2. refresh'[c].pc = "granted" /\ \A d \in Calls \ {c} : refresh'[d] = refresh[d]
    BY <1>1, <1>2 DEF Refreshes
  <2> QED BY <1>1, <2>1, <2>2 DEF Needing, SigningIn
<1>4. issued' = issued + 1
  BY <1>1 DEF Issue
<1>5. PairsLeft' /\ issued + 1 \in Pairs
  BY <1>3, <1>4, OneUsed DEF IInv
<1>6. /\ issued' = issued + 1 /\ token'[issued + 1] = "live"
      /\ issued + 1 \notin logouts /\ exchanged[issued + 1] = 0
      /\ \A j \in Pairs : j # issued + 1 => token'[j] = token[j]
      /\ \A j \in Pairs : j <= issued => token'[j] = token[j] /\ j <= issued'
      /\ \A j \in Pairs : j > issued' <=> token'[j] = "unused"
  BY <1>1, <1>5, Issued
<1>7. refresh' = [refresh EXCEPT ![c] = y] /\ y \in Refreshes /\ y.pc = "granted" /\ y.new = issued + 1 /\ y.pair = k
  BY <1>1, <1>2, <1>5 DEF Refreshes
<1> HIDE DEF y
<1>8. /\ refresh' \in [Calls -> Refreshes] /\ refresh'[c] = y
      /\ \A d \in Calls \ {c} : refresh'[d] = refresh[d]
  BY <1>2, <1>7
<1>9. /\ exchanged' \in [Pairs -> Nat] /\ exchanged'[k] = exchanged[k] + 1
      /\ \A j \in Pairs \ {k} : exchanged'[j] = exchanged[j]
  BY <1>1, <1>2
<1>10. TypeOK'
  <2>1. issued' \in 0 .. MaxTokens /\ token' \in [Pairs -> {"unused", "live", "revoked", "deleted"}]
    BY <1>1, <1>2, <1>5, <1>6 DEF Issue, IInv, TypeOK, Pairs
  <2> QED BY <2>1, <1>1, <1>8, <1>9 DEF IInv, TypeOK
<1>12. RowsInOrder'
  <2>1. ASSUME NEW j \in Pairs, exchanged'[j] > 0 PROVE token'[j] \in {"revoked", "deleted"}
    <3>1. CASE j = k
      BY <3>1, <1>2, <1>6 DEF Dead
    <3>2. CASE j # k
      BY <3>2, <2>1, <1>6, <1>9 DEF IInv, RowsInOrder, Dead
    <3> QED BY <3>1, <3>2
  <2>2. \A j \in logouts : j <= issued'
    BY <1>6 DEF IInv, TypeOK, RowsInOrder
  <2>3. storage <= issued' /\ lapsed <= issued'
    BY <1>2, <1>6, StateTypes DEF IInv, RowsInOrder
  <2> QED BY <1>1, <1>6, <2>1, <2>2, <2>3 DEF RowsInOrder, Dead
<1>13. RefreshesSound'
  <2> SUFFICES ASSUME NEW d \in Calls
               PROVE  /\ InFlightNow(d)' => refresh'[d].pair \in Pairs /\ refresh'[d].pair <= issued'
                      /\ refresh'[d].pc \in {"issue", "granted"} => token'[refresh'[d].pair] \in {"revoked", "deleted"}
                      /\ refresh'[d].pc = "granted" => refresh'[d].new \in Pairs /\ refresh'[d].new <= issued'
    BY DEF RefreshesSound, Dead, InFlightNow
  <2>1. CASE d = c
    <3>1. issued + 1 <= issued'
      BY <1>2, <1>6
    <3> QED BY <2>1, <3>1, <1>2, <1>5, <1>6, <1>7, <1>8 DEF Dead
  <2>2. CASE d # c
    <3>1. refresh'[d] = refresh[d]
      BY <2>2, <1>8
    <3> QED BY <3>1, <1>6 DEF IInv, RefreshesSound, InFlightNow, Dead
  <2> QED BY <2>1, <2>2
<1>14. OnePerTab' /\ SameTab' /\ LoginsSound'
  BY <1>1, <1>6, <1>7, <1>8 DEF IInv, OnePerTab, SameTab, LoginsSound, OneTab, InFlightNow
<1>15. OneTab => \A d \in Calls \ {c} : refresh[d].pc = "none"
  BY <1>1 DEF IInv, SameTab, OnePerTab, InFlightNow
<1>16. Once'
  <2> SUFFICES ASSUME OneTab PROVE Once'
    BY DEF Once, OneTab
  <2>1. exchanged[k] = 0
    BY <1>1 DEF IInv, Once
  <2>2. \A j \in Pairs : exchanged'[j] <= 1
    BY <1>9, <2>1 DEF IInv, Once
  <2> QED BY <2>2, <1>7, <1>8, <1>15 DEF Once
<1>17. (Calm' <=> Calm) /\ (Undisturbed' <=> Undisturbed) /\ InUse' = InUse /\ (Calm => OneTab)
       /\ (Undisturbed => Calm)
  BY DEF Calm, Undisturbed, OneTab, InUse
<1>18. OneSession'
  BY <1>1, <1>7, <1>8, <1>17 DEF IInv, OneSession, InFlightNow
<1>19. LiveRows'
  <2> SUFFICES ASSUME Calm PROVE LiveRows'
    BY <1>17 DEF LiveRows
  <2>1. ASSUME NEW j \in Pairs, token'[j] = "live"
        PROVE  j <= lapsed \/ OnItsWay(j)'
    <3>1. CASE j = issued + 1
      BY <3>1, <1>7, <1>8 DEF OnItsWay
    <3>2. CASE j # issued + 1
      <4>1. token[j] = "live" /\ account # "deactivated" /\ \A d \in Calls : refresh[d].pc # "granted"
        BY <3>2, <2>1, <1>1, <1>6, <1>15, <1>17 DEF IInv, LiveRows
      <4>2. j <= lapsed \/ OnItsWay(j)
        BY <4>1 DEF IInv, LiveRows, Closing
      <4> QED BY <4>1, <4>2, <1>1 DEF OnItsWay
    <3> QED BY <3>1, <3>2
  <2>2. account # "deactivated"
    BY <1>1 DEF IInv, LiveRows
  <2>3. \A d \in Calls : refresh'[d].pc # "refused"
    BY <1>7, <1>8, <1>15, <1>17
  <2> QED BY <2>1, <2>2, <2>3, <1>1 DEF LiveRows
<1>20. Survives'
  <2> SUFFICES ASSUME Undisturbed PROVE Survives'
    BY <1>17 DEF Survives
  <2>1. refresh'[c].pc = "granted" /\ refresh'[c].new = issued + 1 /\ \A d \in Calls \ {c} : refresh'[d].pc = "none"
    BY <1>7, <1>8, <1>15, <1>17
  <2>2. /\ account # "deactivated" /\ change = "none" /\ lapsed = 0 /\ storage \notin logouts
        /\ \A t \in Tabs : login[t].pc = "none"
        /\ \A t \in InUse : page[t] = "login" => signedOut
    BY <1>1, <1>17, LoginAlone DEF IInv, Survives
  <2>3. \A d \in Calls : /\ refresh'[d].pc \notin {"reuse", "refused"}
                         /\ refresh'[d].pc = "granted" => refresh'[d].new = issued + 1
    BY <2>1
  <2>4. \A d \in Calls : refresh'[d].pc = "granted" =>
                token'[refresh'[d].new] = "live" /\ refresh'[d].new \notin logouts
    BY <2>3, <1>6
  <2> QED BY <2>1, <2>2, <2>3, <2>4, <1>1, <1>17 DEF Survives
<1> QED BY <1>5, <1>10, <1>12, <1>13, <1>14, <1>16, <1>18, <1>19, <1>20 DEF IInv

-----------------------------------------------------------------------------
(* A reply, or its loss, ends the refresh and releases the calls of its    *)
(* tab.                                                                    *)
LEMMA Replied ==
  ASSUME IInv, NEW c \in Calls, InFlightNow(c), NEW pc \in {"sent", "idle"},
         UNCHANGED <<env, tabOf, token, issued, exchanged, account, change, late, signedOut, expired, lapsed, login, logouts>>,
         call' = Released(tabOf[c], pc), refresh' = [refresh EXCEPT ![c] = NoRefresh],
         storage' \in Pairs \cup {Empty}, storage' <= issued, page' \in [Tabs -> {"login", "app"}],
         \A t \in Tabs : page'[t] = page[t] \/ page'[t] = "login"
  PROVE  /\ TypeOK' /\ PairsLeft' /\ RowsInOrder' /\ LoginsSound' /\ RefreshesSound' /\ OnePerTab' /\ SameTab' /\ Once'
         /\ refresh'[c].pc = "none" /\ \A d \in Calls \ {c} : refresh'[d] = refresh[d]
         /\ OneTab => \A d \in Calls : refresh'[d].pc = "none" /\ (d # c => refresh[d].pc = "none")
<1>1. refresh \in [Calls -> Refreshes] /\ call \in [Calls -> CallRecords] /\ NoRefresh \in Refreshes
      /\ NoRefresh.pc = "none"
  BY DEF IInv, TypeOK, Refreshes, NoRefresh
<1>2. /\ refresh' \in [Calls -> Refreshes] /\ refresh'[c].pc = "none"
      /\ \A d \in Calls \ {c} : refresh'[d] = refresh[d]
  BY <1>1
<1>3. [pc |-> pc, sent |-> IF pc = "sent" THEN storage' ELSE Empty, retried |-> pc = "sent"] \in CallRecords
  BY DEF CallRecords
<1>4. /\ call' \in [Calls -> CallRecords]
      /\ \A d \in Calls : \/ call'[d] = call[d]
                          \/ /\ tabOf[d] = tabOf[c] /\ call'[d].pc \in {"sent", "idle"}
                             /\ call'[d].pc = "sent" => call'[d].retried
  BY <1>1, <1>3 DEF Released
<1>5. TypeOK'
  BY <1>2, <1>4 DEF IInv, TypeOK
<1>6. PairsLeft'
  <2>1. Needing' \subseteq Needing
    BY <1>2, <1>4 DEF Needing, SigningIn
  <2> QED BY <2>1, NoMoreNeeded DEF IInv
<1>7. RowsInOrder' /\ SameTab' /\ LoginsSound'
  BY DEF IInv, RowsInOrder, Dead, SameTab, OneTab, LoginsSound
<1>8. RefreshesSound'
  BY <1>2 DEF IInv, RefreshesSound, InFlightNow, Dead
<1>9. OnePerTab'
  <2>1. \A d \in Calls : InFlightNow(d)' => d # c /\ InFlightNow(d) /\ tabOf[d] # tabOf[c]
    BY <1>2 DEF IInv, OnePerTab, InFlightNow
  <2> QED BY <2>1, <1>4 DEF IInv, OnePerTab
<1>10. Once'
  BY <1>2 DEF IInv, Once, OneTab
<1>11. OneTab => \A d \in Calls : d # c => refresh[d].pc = "none"
  BY DEF IInv, SameTab, OnePerTab, InFlightNow
<1> QED BY <1>2, <1>5, <1>6, <1>7, <1>8, <1>9, <1>10, <1>11

LEMMA GrantedKeeps ==
  ASSUME IInv, UNCHANGED <<env, tabOf>>, NEW c \in Calls, Granted(c)
  PROVE  IInv'
<1>1. /\ refresh[c].pc = "granted" /\ storage' = refresh[c].new /\ call' = Released(tabOf[c], "sent")
      /\ refresh' = [refresh EXCEPT ![c] = NoRefresh]
      /\ UNCHANGED <<token, issued, exchanged, account, change, late, page, signedOut, expired, lapsed, login, logouts>>
  BY DEF Granted, server, owner, clocks, requests
<1>2. /\ storage' \in Pairs /\ storage' <= issued /\ page \in [Tabs -> {"login", "app"}]
      /\ Dead(refresh[c].pair) /\ refresh[c].pair \in Pairs /\ InFlightNow(c)
  BY <1>1 DEF IInv, TypeOK, RefreshesSound, InFlightNow
<1>3. /\ TypeOK' /\ PairsLeft' /\ RowsInOrder' /\ LoginsSound' /\ RefreshesSound' /\ OnePerTab' /\ SameTab' /\ Once'
      /\ refresh'[c].pc = "none" /\ \A d \in Calls \ {c} : refresh'[d] = refresh[d]
      /\ OneTab => \A d \in Calls : refresh'[d].pc = "none" /\ (d # c => refresh[d].pc = "none")
  BY <1>1, <1>2, Replied
<1>4. (Calm' <=> Calm) /\ (Undisturbed' <=> Undisturbed) /\ InUse' = InUse /\ (Calm => OneTab)
      /\ (Undisturbed => Calm)
  BY DEF Calm, Undisturbed, OneTab, InUse
<1>5. ASSUME Calm
      PROVE  /\ storage = refresh[c].pair /\ storage # Empty /\ ~ signedOut /\ storage' # Empty
             /\ \A t \in InUse : page[t] # "login"
             /\ account # "deactivated" /\ \A t \in Tabs : login[t].pc = "none"
  <2>1. storage = refresh[c].pair /\ storage # Empty /\ storage' # Empty
    BY <1>2, <1>5, StateTypes DEF IInv, OneSession
  <2>2. account # "deactivated"
    BY <1>1, <1>5 DEF IInv, LiveRows
  <2>3. \A t \in Tabs : login[t].pc = "none"
    BY <2>1, <1>5, LoginAlone
  <2> QED BY <2>1, <2>2, <2>3, <1>5 DEF IInv, OneSession
<1>6. OneSession'
  BY <1>1, <1>3, <1>4, <1>5 DEF OneSession, InFlightNow
<1>7. LiveRows'
  <2> SUFFICES ASSUME Calm PROVE LiveRows'
    BY <1>4 DEF LiveRows
  <2>1. ASSUME NEW k \in Pairs, token[k] = "live" PROVE k <= lapsed \/ k = storage' \/ k \in logouts
    <3>1. k # storage
      BY <2>1, <1>2, <1>5 DEF Dead
    <3>2. \A d \in Calls : refresh[d].pc = "granted" => d = c
      BY <1>3, <1>4
    <3> QED BY <2>1, <3>1, <3>2, <1>1, <1>5 DEF IInv, LiveRows, OnItsWay, Closing
  <2>2. \A d \in Calls : refresh'[d].pc = "none"
    BY <1>3, <1>4
  <2> QED BY <2>1, <2>2, <1>1, <1>5 DEF LiveRows, OnItsWay
<1>8. Survives'
  <2> SUFFICES ASSUME Undisturbed PROVE Survives'
    BY <1>4 DEF Survives
  <2>1. \A d \in Calls : refresh'[d].pc = "none"
    BY <1>3, <1>4
  <2>2. token[storage'] = "live" /\ storage' \notin logouts
    BY <1>1 DEF IInv, Survives
  <2>3. account # "deactivated" /\ change = "none" /\ lapsed = 0 /\ \A t \in InUse : page[t] = "login" => signedOut
    BY DEF IInv, Survives
  <2> QED BY <2>1, <2>2, <2>3, <1>1, <1>4, <1>5 DEF Survives
<1> QED BY <1>3, <1>6, <1>7, <1>8 DEF IInv

LEMMA RefusedKeeps ==
  ASSUME IInv, UNCHANGED <<env, tabOf>>, NEW c \in Calls, Refused(c)
  PROVE  IInv'
<1>1. /\ refresh[c].pc = "refused" /\ storage' = Empty /\ call' = Released(tabOf[c], "idle")
      /\ refresh' = [refresh EXCEPT ![c] = NoRefresh] /\ page' = [page EXCEPT ![tabOf[c]] = "login"]
      /\ UNCHANGED <<token, issued, exchanged, account, change, late, signedOut, expired, lapsed, login, logouts>>
  BY DEF Refused, server, owner, clocks, requests
<1>2. /\ refresh[c].pair \in Pairs /\ InFlightNow(c) /\ page' \in [Tabs -> {"login", "app"}]
      /\ \A t \in Tabs : page'[t] = page[t] \/ page'[t] = "login"
      /\ Empty <= issued
  BY <1>1, StateTypes DEF IInv, TypeOK, RefreshesSound, InFlightNow, Empty
<1>3. /\ TypeOK' /\ PairsLeft' /\ RowsInOrder' /\ LoginsSound' /\ RefreshesSound' /\ OnePerTab' /\ SameTab' /\ Once'
      /\ OneTab => \A d \in Calls : refresh'[d].pc = "none" /\ (d # c => refresh[d].pc = "none")
  BY <1>1, <1>2, Replied
<1>4. (Calm' <=> Calm) /\ (Undisturbed' <=> Undisturbed) /\ InUse' = InUse /\ (Calm => OneTab)
  BY DEF Calm, Undisturbed, OneTab, InUse
<1>5. OneSession'
  <2>1. Calm => \A t \in InUse : page'[t] = "login"
    BY <1>1 DEF Calm, IInv, TypeOK, SameTab, InUse
  <2> QED BY <2>1, <1>1, <1>3, <1>4 DEF IInv, OneSession, InFlightNow
<1>6. LiveRows'
  <2> SUFFICES ASSUME Calm PROVE LiveRows'
    BY <1>4 DEF LiveRows
  <2>1. storage = refresh[c].pair /\ storage # Empty /\ ~ signedOut /\ \A t \in Tabs : login[t].pc = "none"
    BY <1>2, StateTypes, LoginAlone DEF IInv, OneSession
  <2>2. ASSUME NEW k \in Pairs, token[k] = "live" PROVE k <= lapsed \/ k \in logouts \/ Closing
    <3>1. \A d \in Calls : refresh[d].pc # "granted"
      BY <1>1, <1>3, <1>4
    <3>2. token[storage] # "live" \/ storage <= lapsed \/ Closing
      BY <1>1, <2>1 DEF IInv, LiveRows
    <3> QED BY <2>1, <2>2, <3>1, <3>2 DEF IInv, LiveRows, OnItsWay
  <2>3. \A d \in Calls : refresh'[d].pc = "none"
    BY <1>3, <1>4
  <2>4. account = "deactivated" => change # "none" /\ (change = "ended" => \A k \in Pairs : token[k] # "live")
    BY DEF IInv, LiveRows
  <2> QED BY <2>1, <2>2, <2>3, <2>4, <1>1 DEF LiveRows, OnItsWay, Closing
<1>7. Survives'
  BY <1>1, <1>4 DEF IInv, Survives
<1> QED BY <1>3, <1>5, <1>6, <1>7 DEF IInv

LEMMA LostKeeps ==
  ASSUME IInv, UNCHANGED <<env, tabOf>>, NEW c \in Calls, Lost(c)
  PROVE  IInv'
<1>1. /\ refresh[c].pc \in {"granted", "refused"} /\ call' = Released(tabOf[c], "idle") /\ "lost" \in env
      /\ refresh' = [refresh EXCEPT ![c] = NoRefresh] /\ page' = [page EXCEPT ![tabOf[c]] = "login"]
      /\ UNCHANGED <<token, issued, exchanged, account, change, late, signedOut, expired, lapsed, login, logouts, storage>>
  BY DEF Lost, server, owner, clocks, requests
<1>2. /\ InFlightNow(c) /\ page' \in [Tabs -> {"login", "app"}]
      /\ \A t \in Tabs : page'[t] = page[t] \/ page'[t] = "login"
      /\ storage \in Pairs \cup {Empty} /\ storage <= issued
  BY <1>1 DEF IInv, TypeOK, RowsInOrder, InFlightNow
<1>3. TypeOK' /\ PairsLeft' /\ RowsInOrder' /\ LoginsSound' /\ RefreshesSound' /\ OnePerTab' /\ SameTab' /\ Once'
  BY <1>1, <1>2, Replied
<1>4. ~ Calm' /\ ~ Undisturbed'
  BY <1>1 DEF Calm, Undisturbed
<1> QED BY <1>3, <1>4 DEF IInv, OneSession, LiveRows, Survives

-----------------------------------------------------------------------------
(* The ends of a session.  Signing out with no refresh in flight leaves    *)
(* the request as the only way to the row that was stored.                 *)
LEMMA LogoutKeeps ==
  ASSUME IInv, UNCHANGED <<env, tabOf>>, NEW t \in InUse, Logout(t)
  PROVE  IInv'
<1>1. /\ Quiet /\ page[t] = "app" /\ storage' = Empty /\ page' = [page EXCEPT ![t] = "login"]
      /\ signedOut' = TRUE /\ logouts' = IF storage = Empty THEN logouts ELSE logouts \cup {storage}
      /\ UNCHANGED <<token, issued, exchanged, account, change, late, expired, lapsed, login, call, refresh>>
  BY DEF Logout, server, owner, clocks, requests
<1>2. /\ storage \in Pairs \cup {Empty} /\ logouts \subseteq Pairs /\ page \in [Tabs -> {"login", "app"}]
      /\ t \in Tabs /\ storage <= issued /\ Empty <= issued /\ \A k \in logouts : k <= issued
  BY StateTypes DEF IInv, TypeOK, InUse, RowsInOrder, Empty
<1>3. logouts' \subseteq Pairs /\ logouts \subseteq logouts' /\ (\A k \in logouts' : k <= issued)
      /\ page' \in [Tabs -> {"login", "app"}]
      /\ \A k \in Pairs : k = storage => k \in logouts'
  BY <1>1, <1>2, StateTypes DEF IInv
<1>4. TypeOK'
  BY <1>1, <1>3 DEF IInv, TypeOK
<1>5. PairsLeft'
  <2>1. Needing' \subseteq Needing
    BY <1>1 DEF Needing, SigningIn
  <2> QED BY <1>1, <2>1, NoMoreNeeded DEF IInv
<1>6. RowsInOrder'
  BY <1>1, <1>2, <1>3 DEF IInv, RowsInOrder, Dead
<1>7. RefreshesSound' /\ LoginsSound' /\ OnePerTab' /\ SameTab' /\ Once'
  BY <1>1, <1>2 DEF IInv, RefreshesSound, LoginsSound, OnePerTab, SameTab, Once, OneTab, InFlightNow, Dead
<1>8. (Calm' <=> Calm) /\ (Undisturbed' <=> Undisturbed) /\ InUse' = InUse /\ (Undisturbed => Calm)
  BY DEF Calm, Undisturbed, OneTab, InUse
<1>9. ASSUME Calm
      PROVE  /\ \A c \in Calls : refresh[c].pc = "none"
             /\ \A u \in Tabs : login[u].pc = "none"
             /\ storage # Empty /\ ~ signedOut /\ \A u \in InUse : page'[u] = "login"
  <2>1. (\A c \in Calls : refresh[c].pc = "none") /\ \A u \in Tabs : login[u].pc = "none"
    BY <1>1, <1>9 DEF Calm, Quiet
  <2>2. storage # Empty /\ ~ signedOut
    BY <1>1, <1>9 DEF IInv, OneSession
  <2>3. \A u \in InUse : u = t
    BY <1>9 DEF Calm, IInv, SameTab, InUse
  <2> QED BY <1>1, <1>2, <2>1, <2>2, <2>3
<1>10. OneSession'
  BY <1>1, <1>8, <1>9 DEF OneSession, InFlightNow
<1>11. LiveRows'
  BY <1>1, <1>3, <1>8, <1>9 DEF IInv, LiveRows, OnItsWay, Closing
<1>12. Survives'
  BY <1>1, <1>2, <1>8, <1>9, StateTypes DEF IInv, Survives
<1> QED BY <1>4, <1>5, <1>6, <1>7, <1>10, <1>11, <1>12 DEF IInv

(* A step that only ends rows, and changes the account at most.            *)
LEMMA OnlyRows ==
  ASSUME IInv, UNCHANGED <<env, tabOf, issued, exchanged, storage, expired, lapsed, login, call, refresh, page,
                           signedOut>>,
         token' \in [Pairs -> {"unused", "live", "revoked", "deleted"}], RowsDie, logouts' \subseteq logouts,
         account' \in {"active", "deactivated", "archived"}, change' \in {"none", "written", "ended"}, late' \in Nat
  PROVE  /\ TypeOK' /\ PairsLeft' /\ RowsInOrder' /\ LoginsSound' /\ RefreshesSound' /\ OnePerTab' /\ SameTab' /\ Once'
         /\ OneSession'
         /\ \A k \in Pairs : token'[k] = "live" => token[k] = "live"
         /\ (Calm' <=> Calm) /\ (Undisturbed' <=> Undisturbed) /\ InUse' = InUse
<1>1. TypeOK'
  BY DEF IInv, TypeOK
<1>2. PairsLeft'
  <2>1. Needing' \subseteq Needing
    BY DEF Needing, SigningIn
  <2> QED BY <2>1, NoMoreNeeded DEF IInv
<1>3. RowsInOrder' /\ \A k \in Pairs : (token'[k] = "live" => token[k] = "live") /\ (Dead(k) => Dead(k)')
  <2>1. storage' \in Pairs \cup {Empty} /\ storage' <= issued /\ \A k \in logouts' : k <= issued
    BY DEF IInv, TypeOK, RowsInOrder
  <2> QED BY <2>1, DyingRows
<1>4. RefreshesSound'
  <2> SUFFICES ASSUME NEW d \in Calls
               PROVE  /\ InFlightNow(d) => refresh[d].pair \in Pairs /\ refresh[d].pair <= issued
                      /\ refresh[d].pc \in {"issue", "granted"} => token'[refresh[d].pair] \in {"revoked", "deleted"}
                      /\ refresh[d].pc = "granted" => refresh[d].new \in Pairs /\ refresh[d].new <= issued
    BY DEF RefreshesSound, Dead, InFlightNow
  <2> QED BY <1>3 DEF IInv, RefreshesSound, InFlightNow, Dead
<1>5. OnePerTab' /\ SameTab' /\ Once' /\ LoginsSound'
  BY DEF IInv, LoginsSound, OnePerTab, SameTab, Once, OneTab, InFlightNow
<1>6. (Calm' <=> Calm) /\ (Undisturbed' <=> Undisturbed) /\ InUse' = InUse
  BY DEF Calm, Undisturbed, OneTab, InUse
<1>7. OneSession'
  BY <1>6 DEF IInv, OneSession, InFlightNow
<1> QED BY <1>1, <1>2, <1>3, <1>4, <1>5, <1>6, <1>7

LEMMA ServeLogoutKeeps ==
  ASSUME IInv, UNCHANGED <<env, tabOf>>, NEW k \in Pairs, ServeLogout(k)
  PROVE  IInv'
<1>1. /\ k \in logouts /\ logouts' = logouts \ {k}
      /\ \/ token' = [token EXCEPT ![k] = IF @ = "live" THEN "revoked" ELSE @]
         \/ "error" \in env /\ UNCHANGED token
      /\ UNCHANGED <<issued, exchanged, account, change, late, storage, call, page, signedOut, expired, lapsed,
                     login, refresh>>
  BY DEF ServeLogout, client, owner, clocks
<1>2. /\ token' \in [Pairs -> {"unused", "live", "revoked", "deleted"}] /\ RowsDie
      /\ Calm => token'[k] # "live"
      /\ \A j \in Pairs : j # k => token'[j] = token[j]
      /\ account \in {"active", "deactivated", "archived"} /\ change \in {"none", "written", "ended"}
      /\ late \in Nat
  BY <1>1 DEF IInv, TypeOK, RowsDie, Calm
<1>3. /\ TypeOK' /\ PairsLeft' /\ RowsInOrder' /\ LoginsSound' /\ RefreshesSound' /\ OnePerTab' /\ SameTab' /\ Once'
      /\ OneSession'
      /\ \A j \in Pairs : token'[j] = "live" => token[j] = "live"
      /\ (Calm' <=> Calm) /\ (Undisturbed' <=> Undisturbed) /\ InUse' = InUse
  BY <1>1, <1>2, OnlyRows
<1>4. LiveRows'
  <2> SUFFICES ASSUME Calm PROVE LiveRows'
    BY <1>3 DEF LiveRows
  <2>1. ASSUME NEW j \in Pairs, token'[j] = "live"
        PROVE  j <= lapsed \/ OnItsWay(j)' \/ (Closing /\ ~ signedOut /\ storage = Empty)
    <3>1. token[j] = "live" /\ j # k
      BY <1>2, <1>3, <2>1
    <3>2. OnItsWay(j) => OnItsWay(j)'
      BY <1>1, <3>1 DEF OnItsWay
    <3> QED BY <3>1, <3>2 DEF IInv, LiveRows
  <2>2. \A c \in Calls : refresh[c].pc = "refused" =>
            token'[refresh[c].pair] # "live" \/ refresh[c].pair <= lapsed \/ Closing
    BY <1>3 DEF IInv, LiveRows, RefreshesSound, InFlightNow
  <2>3. account = "deactivated" =>
           /\ change # "none" /\ \A c \in Calls : refresh[c].pc \notin {"revoke", "issue", "granted"}
           /\ \A t \in Tabs : login[t].pc = "none"
           /\ change = "ended" => \A j \in Pairs : token'[j] # "live"
    BY <1>3 DEF IInv, LiveRows
  <2> QED BY <1>1, <2>1, <2>2, <2>3 DEF LiveRows, Closing
<1>5. Survives'
  <2> SUFFICES ASSUME Undisturbed PROVE Survives'
    BY <1>3 DEF Survives
  <2>1. /\ account # "deactivated" /\ change = "none" /\ lapsed = 0 /\ storage \notin logouts
        /\ \A t \in InUse : page[t] = "login" => signedOut
    BY DEF IInv, Survives
  <2>2. storage # Empty /\ (\A c \in Calls : refresh[c].pc \notin {"issue", "granted"}) => token'[storage] = "live"
    BY <1>1, <1>2, <2>1 DEF IInv, Survives, TypeOK
  <2>3. \A c \in Calls :
           /\ refresh[c].pc \notin {"reuse", "refused"}
           /\ refresh[c].pc = "granted" => token'[refresh[c].new] = "live" /\ refresh[c].new \notin logouts'
    BY <1>1, <1>2 DEF IInv, Survives, RefreshesSound
  <2>4. \A t \in Tabs : login[t].pc = "granted" => token'[login[t].new] = "live" /\ login[t].new \notin logouts'
    BY <1>1, <1>2 DEF IInv, Survives, LoginsSound
  <2> QED BY <1>1, <1>3, <2>1, <2>2, <2>3, <2>4 DEF Survives
<1> QED BY <1>3, <1>4, <1>5 DEF IInv

LEMMA PruneKeeps ==
  ASSUME IInv, UNCHANGED <<env, tabOf>>, NEW k \in Pairs, Prune(k)
  PROVE  IInv'
<1>1. /\ k <= lapsed \/ token[k] = "revoked"
      /\ token' = [token EXCEPT ![k] = "deleted"]
      /\ UNCHANGED <<issued, exchanged, account, change, late, storage, call, page, signedOut, expired, lapsed,
                     refresh, login, logouts>>
  BY DEF Prune, client, owner, clocks, requests
<1>2. token[k] # "unused"
  <2>1. k <= lapsed => k <= issued
    BY StateTypes DEF IInv, RowsInOrder
  <2>2. k <= issued => ~ (k > issued)
    BY StateTypes DEF IInv
  <2> QED BY <1>1, <2>1, <2>2 DEF IInv, RowsInOrder
<1>3. /\ token' \in [Pairs -> {"unused", "live", "revoked", "deleted"}] /\ RowsDie
      /\ \A j \in Pairs : token'[j] = "live" => token[j] = "live"
      /\ \A j \in Pairs : j # k => token'[j] = token[j]
      /\ account \in {"active", "deactivated", "archived"} /\ change \in {"none", "written", "ended"}
      /\ late \in Nat
  BY <1>1, <1>2 DEF IInv, TypeOK, RowsDie
<1>4. /\ TypeOK' /\ PairsLeft' /\ RowsInOrder' /\ LoginsSound' /\ RefreshesSound' /\ OnePerTab' /\ SameTab' /\ Once'
      /\ OneSession' /\ (Calm' <=> Calm) /\ (Undisturbed' <=> Undisturbed) /\ InUse' = InUse
  BY <1>1, <1>3, OnlyRows
<1>5. LiveRows'
  <2>1. \A c \in Calls : InFlightNow(c) => refresh[c].pair \in Pairs
    BY DEF IInv, RefreshesSound
  <2>2. \A j \in Pairs : OnItsWay(j) => OnItsWay(j)'
    BY <1>1 DEF OnItsWay
  <2> QED BY <1>1, <1>3, <1>4, <2>1, <2>2 DEF IInv, LiveRows, Closing, InFlightNow
<1>6. Survives'
  <2> SUFFICES ASSUME Undisturbed PROVE Survives'
    BY <1>4 DEF Survives
  <2>1. \A c \in Calls : refresh[c].pc = "granted" => refresh[c].new \in Pairs
    BY DEF IInv, RefreshesSound
  <2>2. \A t \in Tabs : login[t].pc = "granted" => login[t].new \in Pairs
    BY DEF IInv, LoginsSound
  <2>3. storage # Empty => storage \in Pairs
    BY DEF IInv, TypeOK
  <2>4. \A j \in Pairs : token[j] = "live" => token'[j] = "live"
    <3>1. lapsed = 0
      BY DEF IInv, Survives
    <3>2. token[k] = "revoked"
      BY <1>1, <3>1, StateTypes DEF IInv, Pairs
    <3> QED BY <1>3, <3>2
  <2> QED BY <1>1, <1>4, <2>1, <2>2, <2>3, <2>4 DEF IInv, Survives
<1> QED BY <1>4, <1>5, <1>6 DEF IInv

(* A change of the account leaves the rows to its second step; staff make  *)
(* it, where replies are in order, with no refresh in flight.              *)
LEMMA AccountChanges ==
  ASSUME IInv, UNCHANGED <<env, tabOf, token, issued, exchanged, storage, expired, lapsed, call, refresh, page,
                           signedOut, login, logouts>>,
         account' \in {"active", "deactivated", "archived"}, change' \in {"none", "written", "ended"}, UNCHANGED late,
         Calm /\ account' = "deactivated" => /\ change' = "written" /\ \A c \in Calls : refresh[c].pc = "none"
                                           /\ \A t \in Tabs : login[t].pc = "none",
         Calm => ~ Closing,
         Undisturbed => account' # "deactivated" /\ change' = "none"
  PROVE  IInv'
<1>1. /\ token' \in [Pairs -> {"unused", "live", "revoked", "deleted"}] /\ RowsDie /\ logouts' \subseteq logouts /\ late' \in Nat
  BY DEF IInv, TypeOK, RowsDie
<1>2. /\ TypeOK' /\ PairsLeft' /\ RowsInOrder' /\ LoginsSound' /\ RefreshesSound' /\ OnePerTab' /\ SameTab' /\ Once'
      /\ OneSession' /\ (Calm' <=> Calm) /\ (Undisturbed' <=> Undisturbed) /\ InUse' = InUse
  BY <1>1, OnlyRows
<1>3. LiveRows'
  <2>1. \A k \in Pairs : OnItsWay(k)' <=> OnItsWay(k)
    BY DEF OnItsWay
  <2>2. \A c \in Calls : refresh'[c] = refresh[c]
    OBVIOUS
  <2> QED BY <1>2, <2>1, <2>2 DEF IInv, LiveRows, Closing
<1>4. Survives'
  BY <1>2 DEF IInv, Survives
<1> QED BY <1>2, <1>3, <1>4 DEF IInv

LEMMA ChangePasswordKeeps ==
  ASSUME IInv, UNCHANGED <<env, tabOf>>, ChangePassword
  PROVE  IInv'
<1>1. /\ "password" \in env /\ account = "active" /\ change' = "written"
      /\ UNCHANGED <<token, issued, exchanged, account, late, storage, call, page, signedOut, expired, lapsed, refresh, login, logouts>>
  BY DEF ChangePassword, client, clocks, requests
<1>2. ~ Undisturbed
  BY <1>1 DEF Undisturbed
<1> QED BY <1>1, <1>2, AccountChanges DEF Closing

LEMMA ResetPasswordKeeps ==
  ASSUME IInv, UNCHANGED <<env, tabOf>>, ResetPassword
  PROVE  IInv'
<1>1. /\ "staff" \in env /\ change' = "written"
      /\ change = "none" \/ (change = "ended" /\ account = "deactivated")
      /\ account' = IF account = "deactivated" THEN "active" ELSE account
      /\ UNCHANGED <<token, issued, exchanged, late, storage, call, page, signedOut, expired, lapsed, refresh, login, logouts>>
  BY DEF ResetPassword, client, clocks, requests
<1>2. ~ Undisturbed /\ ~ Closing
  BY <1>1 DEF Undisturbed, Closing
<1>3. account' \in {"active", "archived"}
  BY <1>1 DEF IInv, TypeOK
<1> QED BY <1>1, <1>2, <1>3, AccountChanges

LEMMA DeactivateKeeps ==
  ASSUME IInv, UNCHANGED <<env, tabOf>>, Deactivate
  PROVE  IInv'
<1>1. /\ "staff" \in env /\ Quiet /\ account = "active" /\ account' = "deactivated" /\ change' = "written"
      /\ UNCHANGED <<token, issued, exchanged, late, storage, call, page, signedOut, expired, lapsed, refresh, login, logouts>>
  BY DEF Deactivate, client, clocks, requests
<1>2. ~ Undisturbed /\ ~ Closing
  BY <1>1 DEF Undisturbed, Closing
<1>3. Calm => (\A c \in Calls : refresh[c].pc = "none") /\ \A t \in Tabs : login[t].pc = "none"
  BY <1>1 DEF Calm, Quiet
<1> QED BY <1>1, <1>2, <1>3, AccountChanges

LEMMA ReactivateKeeps ==
  ASSUME IInv, UNCHANGED <<env, tabOf>>, Reactivate
  PROVE  IInv'
<1>1. /\ change = "ended" /\ account = "deactivated" /\ account' = "active" /\ change' = "none"
      /\ UNCHANGED <<token, issued, exchanged, late, storage, call, page, signedOut, expired, lapsed, refresh, login, logouts>>
  BY DEF Reactivate, client, clocks, requests
<1> QED BY <1>1, AccountChanges DEF Closing

LEMMA RosterKeeps ==
  ASSUME IInv, UNCHANGED <<env, tabOf>>, Roster
  PROVE  IInv'
<1>1. /\ account # "deactivated" /\ account' \in {"active", "archived"}
      /\ UNCHANGED <<token, issued, exchanged, change, late, storage, call, page, signedOut, expired, lapsed, refresh, login, logouts>>
  BY DEF Roster, client, clocks, requests
<1>2. change \in {"none", "written", "ended"} /\ (Undisturbed => change = "none")
  BY DEF IInv, TypeOK, Survives
<1> QED BY <1>1, <1>2, AccountChanges DEF Closing

LEMMA PassedFinite == IsFiniteSet(Passed) /\ Cardinality(Passed) \in Nat
<1>1. Passed \subseteq Calls \cup Tabs /\ IsFiniteSet(Calls \cup Tabs)
  BY SessionsAssumption, FS_Union DEF Passed, SigningIn
<1> QED BY <1>1, FS_Subset, FS_CardinalityType

LEMMA RevokeSessionsKeeps ==
  ASSUME IInv, UNCHANGED <<env, tabOf>>, RevokeSessions
  PROVE  IInv'
<1>1. /\ change = "written" /\ token' = RevokedAll /\ change' = "ended" /\ late' = Cardinality(Passed)
      /\ UNCHANGED <<issued, exchanged, account, storage, call, page, signedOut, expired, lapsed, refresh, login, logouts>>
  BY DEF RevokeSessions, client, clocks, requests
<1>2. /\ token' \in [Pairs -> {"unused", "live", "revoked", "deleted"}] /\ RowsDie
      /\ \A j \in Pairs : token'[j] # "live"
      /\ account \in {"active", "deactivated", "archived"} /\ late' \in Nat
  <2>1. late' \in Nat
    BY <1>1, PassedFinite
  <2> QED BY <1>1, <2>1 DEF IInv, TypeOK, RowsDie, RevokedAll
<1>3. /\ TypeOK' /\ PairsLeft' /\ RowsInOrder' /\ LoginsSound' /\ RefreshesSound' /\ OnePerTab' /\ SameTab' /\ Once'
      /\ OneSession' /\ (Calm' <=> Calm) /\ (Undisturbed' <=> Undisturbed) /\ InUse' = InUse
  BY <1>1, <1>2, OnlyRows
<1>4. LiveRows'
  <2>1. \A c \in Calls : InFlightNow(c) => refresh[c].pair \in Pairs
    BY DEF IInv, RefreshesSound
  <2> QED BY <1>1, <1>2, <1>3, <2>1 DEF IInv, LiveRows, Closing, InFlightNow
<1>5. ~ Undisturbed
  BY <1>1 DEF IInv, Survives
<1>6. Survives'
  BY <1>3, <1>5 DEF Survives
<1> QED BY <1>3, <1>4, <1>6 DEF IInv

-----------------------------------------------------------------------------
LEMMA InitIInv == Init => IInv
<1> SUFFICES ASSUME Init PROVE IInv
  OBVIOUS
<1>1. TypeOK
  BY SessionsAssumption DEF Init, TypeOK, Pairs, Empty, NoCall, NoRefresh, NoLogin, CallRecords,
     Refreshes, LoginRecords
<1>2. Needing = {} /\ (\A t \in Tabs : login[t].pc = "none") /\ \A c \in Calls : refresh[c].pc = "none" /\ call[c].pc = "idle"
  BY DEF Init, Needing, SigningIn, NoCall, NoRefresh, NoLogin
<1>3. PairsLeft
  <2>1. issued = 0 /\ Cardinality(Needing) = 0
    BY <1>2, FS_EmptySet DEF Init
  <2> QED BY <2>1, SessionsAssumption DEF PairsLeft
<1>4. RowsInOrder
  <2>1. \A k \in Pairs : k > 0 /\ token[k] = "unused" /\ exchanged[k] = 0
    BY SessionsAssumption DEF Init, Pairs
  <2> QED BY <2>1 DEF Init, RowsInOrder, Empty
<1>5. RefreshesSound /\ LoginsSound /\ OnePerTab
  BY <1>2 DEF RefreshesSound, LoginsSound, OnePerTab, InFlightNow
<1>6. SameTab
  BY DEF Init, SameTab, OneTab
<1>7. Once
  BY <1>2 DEF Init, Once
<1>8. InUse \subseteq Tabs
  BY <1>1 DEF TypeOK, InUse
<1>9. OneSession
  BY <1>2, <1>8 DEF Init, OneSession, InFlightNow
<1>10. LiveRows
  BY <1>2 DEF Init, LiveRows
<1>11. Survives
  BY <1>2, <1>8 DEF Init, Survives
<1> QED BY <1>1, <1>3, <1>4, <1>5, <1>6, <1>7, <1>9, <1>10, <1>11 DEF IInv

LEMMA NextIInv == IInv /\ [Next]_vars => IInv'
<1> SUFFICES ASSUME IInv, [Next]_vars PROVE IInv'
  OBVIOUS
<1>1. CASE UNCHANGED vars
  <2>1. UNCHANGED <<token, issued, exchanged, storage, expired, lapsed, call, refresh, page, signedOut, login, logouts,
                    account, change, late, tabOf, env>>
    BY <1>1 DEF vars
  <2>2. Needing' = Needing /\ InUse' = InUse /\ (\A k : OnItsWay(k)' <=> OnItsWay(k)) /\ (Calm' <=> Calm) /\ (Undisturbed' <=> Undisturbed)
    BY <2>1 DEF Needing, SigningIn, OnItsWay, InUse, Calm, Undisturbed, OneTab
  <2>3. TypeOK' /\ PairsLeft' /\ RowsInOrder' /\ LoginsSound'
    BY <2>1, <2>2 DEF IInv, TypeOK, LoginsSound, PairsLeft, RowsInOrder, Dead
  <2>4. RefreshesSound' /\ OnePerTab' /\ SameTab' /\ Once'
    BY <2>1 DEF IInv, RefreshesSound, OnePerTab, SameTab, Once, OneTab, InFlightNow, Dead
  <2>5. OneSession' /\ LiveRows' /\ Survives'
    BY <2>1, <2>2 DEF IInv, OneSession, LiveRows, Survives, Closing, InFlightNow
  <2> QED BY <2>3, <2>4, <2>5 DEF IInv
<1>2. CASE Next
  <2>1. UNCHANGED <<env, tabOf>>
    BY <1>2 DEF Next
  <2>2. ASSUME NEW t \in InUse, \/ Login(t) \/ LoginIssue(t) \/ SignedIn(t)
                              \/ LoginFails(t) \/ Open(t) \/ Logout(t)
        PROVE IInv'
    BY <2>1, <2>2, LoginKeeps, LoginIssueKeeps, SignedInKeeps, LoginFailsKeeps, OpenKeeps, LogoutKeeps
  <2>3. ASSUME NEW c \in Calls, Send(c) \/ Answer(c) \/ Reject(c) PROVE IInv'
    BY <2>1, <2>3, SendKeeps, AnswerKeeps, RejectKeeps
  <2>4. ASSUME NEW c \in Calls, RefreshStep(c) PROVE IInv'
    BY <2>1, <2>4, FindRowKeeps, FindUserKeeps, ReuseKeeps, RevokeKeeps, IssuePairKeeps, GrantedKeeps,
       RefusedKeeps, LostKeeps, FailKeeps DEF RefreshStep
  <2>5. ASSUME NEW k \in Pairs, ServeLogout(k) \/ Prune(k) PROVE IInv'
    BY <2>1, <2>5, ServeLogoutKeeps, PruneKeeps
  <2>6. CASE Expire \/ Lapse
    BY <2>1, <2>6, ExpireKeeps, LapseKeeps
  <2>7. CASE ChangePassword \/ ResetPassword \/ Deactivate \/ Reactivate \/ RevokeSessions \/ Roster
    BY <2>1, <2>7, ChangePasswordKeeps, ResetPasswordKeeps, DeactivateKeeps, ReactivateKeeps,
       RevokeSessionsKeeps, RosterKeeps
  <2> QED BY <1>2, <2>2, <2>3, <2>4, <2>5, <2>6, <2>7 DEF Next
<1> QED BY <1>1, <1>2

LEMMA Invariance == Spec => []IInv
<1> QED BY InitIInv, NextIInv, PTL DEF Spec

-----------------------------------------------------------------------------
(* What a deactivation leaves.  While the account is deactivated nobody    *)
(* passes the look at it, so the rows and requests only become fewer, or a *)
(* request becomes a row.                                                  *)
LEMMA LiveFinite == IsFiniteSet(Live) /\ Cardinality(Live) \in Nat
<1>1. Live \subseteq 1 .. MaxTokens /\ IsFiniteSet(1 .. MaxTokens)
  BY SessionsAssumption, FS_Interval DEF Live, Pairs
<1> QED BY <1>1, FS_Subset, FS_CardinalityType

LEMMA FewerRows ==
  ASSUME IInv, LateRows, account' = "deactivated" /\ change' = "ended" =>
            UNCHANGED <<account, change, late>> /\ Live' \subseteq Live /\ Passed' \subseteq Passed
  PROVE  LateRows'
<1> SUFFICES ASSUME account' = "deactivated", change' = "ended"
             PROVE  Cardinality(Live') + Cardinality(Passed') <= late'
  BY DEF LateRows
<1>1. Live' \subseteq Live /\ Passed' \subseteq Passed /\ account = "deactivated" /\ change = "ended" /\ late' = late
  OBVIOUS
<1>2. /\ Cardinality(Live') <= Cardinality(Live) /\ Cardinality(Live') \in Nat
      /\ Cardinality(Passed') <= Cardinality(Passed) /\ Cardinality(Passed') \in Nat
  BY <1>1, LiveFinite, PassedFinite, FS_Subset, FS_CardinalityType
<1> DEFINE a == Cardinality(Live)
           b == Cardinality(Passed)
           c == Cardinality(Live')
           d == Cardinality(Passed')
<1>3. a \in Nat /\ b \in Nat /\ c \in Nat /\ d \in Nat /\ c <= a /\ d <= b /\ a + b <= late /\ late \in Nat
  BY <1>1, <1>2, LiveFinite, PassedFinite DEF LateRows, IInv, TypeOK
<1> HIDE DEF a, b, c, d
<1>4. c + d <= late
  BY <1>3
<1> QED BY <1>1, <1>4 DEF c, d

LEMMA RequestBecomesRow ==
  ASSUME IInv, LateRows, UNCHANGED <<account, change, late>>, NEW x \in Passed, NEW k,
         Passed' \subseteq Passed \ {x}, Live' \subseteq Live \cup {k}
  PROVE  LateRows'
<1> SUFFICES ASSUME account = "deactivated", change = "ended"
             PROVE  Cardinality(Live') + Cardinality(Passed') <= late
  BY DEF LateRows
<1>1. IsFiniteSet(Passed \ {x}) /\ Cardinality(Passed \ {x}) = Cardinality(Passed) - 1
  BY PassedFinite, FS_RemoveElement
<1>2. /\ IsFiniteSet(Live \cup {k})
      /\ Cardinality(Live \cup {k}) = IF k \in Live THEN Cardinality(Live) ELSE Cardinality(Live) + 1
  BY LiveFinite, FS_AddElement
<1>3. IsFiniteSet(Passed') /\ Cardinality(Passed') <= Cardinality(Passed \ {x})
  BY <1>1, FS_Subset
<1>4. IsFiniteSet(Live') /\ Cardinality(Live') <= Cardinality(Live \cup {k})
  BY <1>2, FS_Subset
<1> DEFINE a == Cardinality(Live)
           b == Cardinality(Passed)
           c == Cardinality(Live')
           d == Cardinality(Passed')
           u == Cardinality(Live \cup {k})
           v == Cardinality(Passed \ {x})
<1>5. c \in Nat /\ d \in Nat /\ u \in Nat /\ v \in Nat
  BY <1>1, <1>2, <1>3, <1>4, FS_CardinalityType
<1>6. /\ a \in Nat /\ b \in Nat /\ late \in Nat /\ a + b <= late
      /\ u <= a + 1 /\ v = b - 1 /\ c <= u /\ d <= v
  BY <1>1, <1>2, <1>3, <1>4, LiveFinite, PassedFinite DEF LateRows, IInv, TypeOK
<1> HIDE DEF a, b, c, d, u, v
<1>7. c + d <= late
  BY <1>5, <1>6
<1> QED BY <1>7 DEF c, d

LEMMA LateNext ==
  ASSUME IInv, LateRows, [Next]_vars
  PROVE  LateRows'
<1>1. CASE UNCHANGED vars
  BY <1>1, FewerRows DEF vars, Live, Passed, SigningIn
<1>2. CASE \E t \in InUse : Login(t)
  BY <1>2, FewerRows DEF Login, server, owner
<1>3. ASSUME NEW t \in InUse, LoginIssue(t) PROVE LateRows'
  <2>1. t \in Passed /\ Passed' \subseteq Passed \ {t}
    BY <1>3, SessionsAssumption DEF LoginIssue, Passed, SigningIn, IInv, TypeOK, InUse
  <2>2. Live' \subseteq Live \cup {issued + 1}
    BY <1>3 DEF LoginIssue, Issue, Live, IInv, TypeOK
  <2> QED BY <1>3, <2>1, <2>2, RequestBecomesRow DEF LoginIssue, owner
<1>4. ASSUME NEW t \in InUse, SignedIn(t) \/ LoginFails(t) PROVE LateRows'
  <2>1. login \in [Tabs -> LoginRecords] /\ login' = [login EXCEPT ![t] = NoLogin]
    BY <1>4 DEF SignedIn, LoginFails, IInv, TypeOK
  <2>2. Live' = Live /\ Passed' \subseteq Passed
    BY <1>4, <2>1 DEF SignedIn, LoginFails, server, Live, Passed, SigningIn, NoLogin
  <2> QED BY <1>4, <2>2, FewerRows DEF SignedIn, LoginFails, server, owner
<1>5. CASE Expire \/ Lapse \/ \E t \in InUse : Open(t) \/ Logout(t)
  BY <1>5, FewerRows DEF Expire, Lapse, Open, Logout, server, owner, requests, Live, Passed, SigningIn
<1>6. CASE \E c \in Calls : Send(c) \/ Answer(c)
  BY <1>6, FewerRows DEF Send, Answer, server, owner, requests, Live, Passed, SigningIn
<1>7. ASSUME NEW c \in Calls, Reject(c) PROVE LateRows'
  <2>1. \A d \in Calls : refresh'[d].pc \in {"revoke", "issue"} => refresh[d].pc \in {"revoke", "issue"}
    BY <1>7 DEF Reject, Starts, NoRefresh, IInv, TypeOK
  <2> QED BY <1>7, <2>1, FewerRows DEF Reject, server, owner, requests, Live, Passed, SigningIn
<1>8. ASSUME NEW c \in Calls, FindRow(c) \/ Reuse(c) \/ Fail(c) PROVE LateRows'
  <2>0. PICK pc \in {"user", "reuse", "refused"} : Goto(c, pc)
    BY <1>8 DEF FindRow, Reuse, Fail
  <2>1. \A d \in Calls : refresh'[d].pc \in {"revoke", "issue"} => refresh[d].pc \in {"revoke", "issue"}
    BY <2>0 DEF Goto, IInv, TypeOK
  <2>2. Live' \subseteq Live
    BY <1>8 DEF FindRow, Reuse, Fail, RevokedAll, server, Live, IInv, TypeOK
  <2> QED BY <1>8, <2>1, <2>2, FewerRows DEF FindRow, Reuse, Fail, server, owner, requests, Passed, SigningIn
<1>9. ASSUME NEW c \in Calls, FindUser(c) PROVE LateRows'
  <2>1. account = "deactivated" =>
           \A d \in Calls : refresh'[d].pc \in {"revoke", "issue"} => refresh[d].pc \in {"revoke", "issue"}
    BY <1>9 DEF FindUser, Goto, IInv, TypeOK
  <2> QED BY <1>9, <2>1, FewerRows DEF FindUser, server, owner, requests, Live, Passed, SigningIn
<1>10. ASSUME NEW c \in Calls, Revoke(c) PROVE LateRows'
  <2>1. \A d \in Calls : refresh'[d].pc \in {"revoke", "issue"} => refresh[d].pc \in {"revoke", "issue"}
    BY <1>10 DEF Revoke, Goto, IInv, TypeOK
  <2>2. Live' \subseteq Live
    BY <1>10 DEF Revoke, Live, IInv, TypeOK
  <2> QED BY <1>10, <2>1, <2>2, FewerRows DEF Revoke, owner, requests, Passed, SigningIn
<1>11. ASSUME NEW c \in Calls, IssuePair(c) PROVE LateRows'
  <2>1. /\ refresh'[c].pc = "granted" /\ \A d \in Calls \ {c} : refresh'[d] = refresh[d]
        /\ c \notin Tabs /\ refresh[c].pc = "issue"
    BY <1>11, SessionsAssumption DEF IssuePair, IInv, TypeOK, Refreshes
  <2>2. c \in Passed /\ Passed' \subseteq Passed \ {c}
    BY <1>11, <2>1 DEF IssuePair, requests, Passed, SigningIn
  <2>3. Live' \subseteq Live \cup {issued + 1}
    BY <1>11 DEF IssuePair, Issue, Live, IInv, TypeOK
  <2> QED BY <1>11, <2>2, <2>3, RequestBecomesRow DEF IssuePair, owner
<1>12. ASSUME NEW c \in Calls, Granted(c) \/ Refused(c) \/ Lost(c) PROVE LateRows'
  <2>1. \A d \in Calls : refresh'[d].pc \in {"revoke", "issue"} => refresh[d].pc \in {"revoke", "issue"}
    BY <1>12 DEF Granted, Refused, Lost, NoRefresh, IInv, TypeOK
  <2> QED BY <1>12, <2>1, FewerRows DEF Granted, Refused, Lost, server, owner, requests, Live, Passed, SigningIn
<1>13. ASSUME NEW k \in Pairs, ServeLogout(k) \/ Prune(k) PROVE LateRows'
  <2>1. Live' \subseteq Live
    BY <1>13 DEF ServeLogout, Prune, Live, IInv, TypeOK
  <2> QED BY <1>13, <2>1, FewerRows DEF ServeLogout, Prune, owner, requests, Passed, SigningIn
<1>14. CASE ChangePassword \/ ResetPassword \/ Deactivate \/ Reactivate
  BY <1>14, FewerRows DEF ChangePassword, ResetPassword, Deactivate, Reactivate
<1>15. CASE Roster
  BY <1>15, FewerRows DEF Roster
<1>16. CASE RevokeSessions
  <2>1. Live' = {} /\ Passed' = Passed /\ late' = Cardinality(Passed)
    BY <1>16 DEF RevokeSessions, RevokedAll, Live, Passed, SigningIn, requests, IInv, TypeOK
  <2>2. Cardinality(Live') = 0
    BY <2>1, FS_EmptySet
  <2> QED BY <2>1, <2>2, PassedFinite DEF LateRows
<1> QED BY <1>1, <1>2, <1>3, <1>4, <1>5, <1>6, <1>7, <1>8, <1>9, <1>10, <1>11, <1>12, <1>13, <1>14, <1>15, <1>16
        DEF Next, RefreshStep

LEMMA LateInvariance == Spec => []LateRows
<1>1. Init => LateRows
  BY DEF Init, LateRows
<1> QED BY <1>1, LateNext, Invariance, PTL DEF Spec

-----------------------------------------------------------------------------
(* The variables keep their types: in particular no more pairs are issued  *)
(* than there are, although a refresh asks for its pair only after the     *)
(* calls that may need one were let in.                                    *)
THEOREM Typing == Spec => []TypeOK
<1>1. IInv => TypeOK
  BY DEF IInv
<1> QED BY <1>1, Invariance, PTL

(* Where the calls of a page share one refresh (refreshInFlight of api.ts) *)
(* no refresh token is exchanged for two pairs, although AuthService reads *)
(* the row and revokes it in two queries.                                  *)
THEOREM ExchangedAtMostOnce == Spec => []ExchangedOnce
<1>1. IInv => ExchangedOnce
  BY DEF IInv, Once, ExchangedOnce
<1> QED BY <1>1, Invariance, PTL

(* Nobody is sent to the login page by a refresh who did not sign out,     *)
(* where every refresh is answered and none is refused for a reason        *)
(* outside: an expiry, the throttle, an error, a changed password, staff.  *)
THEOREM SessionSurvivesRefresh == Spec => []SessionSurvives
<1>1. IInv => SessionSurvives
  <2> SUFFICES ASSUME IInv, OneTab,
                      env \cap {"lost", "error", "expiry", "password", "staff", "inFlight"} = {},
                      NEW c \in Calls, page[tabOf[c]] = "login"
               PROVE  signedOut
    BY DEF SessionSurvives
  <2>1. Undisturbed
    BY DEF Undisturbed, Calm
  <2> QED BY <2>1 DEF IInv, Survives, InUse
<1> QED BY <1>1, Invariance, PTL

(* Once the logout request is served nothing is left of the session; and   *)
(* once a deactivation has revoked the sessions no more rows are live than *)
(* requests were past their look at the account, whatever fails.           *)
THEOREM EndsAreFinal == Spec => []SessionsEnd
<1>1. IInv /\ LateRows => SessionsEnd
  <2> SUFFICES ASSUME IInv, LateRows PROVE SessionsEnd
    OBVIOUS
  <2>1. ASSUME Calm, signedOut, logouts = {}, \A t \in Tabs : login[t].pc = "none"
        PROVE  storage = Empty /\ \A k \in Pairs : ~ Usable(k)
    <3>1. storage = Empty /\ Empty \notin Pairs
      BY <2>1, StateTypes DEF IInv, OneSession
    <3>2. \A c \in Calls : ~ InFlightNow(c)
      BY <2>1, <3>1 DEF IInv, OneSession, RefreshesSound
    <3>3. \A k \in Pairs : token[k] = "live" => k <= lapsed
      BY <2>1, <3>1, <3>2 DEF IInv, LiveRows, OnItsWay, InFlightNow
    <3>4. \A k \in Pairs : k <= lapsed => ~ (k > lapsed)
      BY StateTypes DEF IInv
    <3> QED BY <3>1, <3>3, <3>4 DEF Usable
  <2>2. ASSUME account = "deactivated", change = "ended"
        PROVE  Cardinality({k \in Pairs : token[k] = "live"}) <= late
    <3> DEFINE a == Cardinality(Live)
               b == Cardinality(Passed)
    <3>1. a \in Nat /\ b \in Nat /\ a + b <= late /\ late \in Nat
      BY <2>2, LiveFinite, PassedFinite DEF LateRows, IInv, TypeOK
    <3> HIDE DEF a, b
    <3>2. a <= late
      BY <3>1
    <3> QED BY <3>2 DEF a, Live
  <2> QED BY <2>1, <2>2 DEF SessionsEnd, Calm
<1> QED BY <1>1, Invariance, LateInvariance, PTL

-----------------------------------------------------------------------------
(* The cache, a component of its own: its steps are those of an instance    *)
(* over the constants and variables of CacheState.                          *)
Cache == INSTANCE Cache

-----------------------------------------------------------------------------
(* The inductive invariant.  The history of the data: each version but the *)
(* last has the time it was superseded.                                    *)
History ==
    /\ now >= 1 /\ version = Len(changedAt) + 1
    /\ \A v \in 1 .. Len(changedAt) : changedAt[v] <= now

(* A value of version v that may be served until a time at most until. *)
Known(v) == v <= version
Superseded(v) == v \in 1 .. Len(changedAt)
Lifetime(v, until) ==
    /\ Known(v)
    /\ until <= now + Ttl
    /\ Superseded(v) => until <= changedAt[v] + MaxFill + Ttl

EntriesFresh ==
    /\ \A k \in Keys : Lifetime(redis[k].value, redis[k].expires)
    /\ \A p \in Procs : \A e \in memory[p] : Lifetime(e.value, e.expires)

(* A factory's value is of the version current when it was computed, and   *)
(* is stored at most MaxFill ticks later.                                  *)
FillsBounded ==
    \A p \in Procs : Cache!At(p, "set") =>
        /\ Known(proc[p].value)
        /\ proc[p].since <= now /\ now <= proc[p].since + MaxFill
        /\ Superseded(proc[p].value) => proc[p].since <= changedAt[proc[p].value]

ServedBounded ==
    \A p \in Procs :
        /\ served[p].value \in 1 .. version /\ served[p].at <= now
        /\ Superseded(served[p].value) =>
              served[p].at <= changedAt[served[p].value] + MaxFill + Ttl

(* Entries are of versions, or are no entries at all; so is what fills hold. *)
Valued ==
    /\ \A k \in Keys : redis[k].expires > 0 => redis[k].value >= 1
    /\ \A p \in Procs : \A e \in memory[p] : e.value >= 1
    /\ \A p \in Procs : Cache!At(p, "set") => proc[p].value >= 1

(* Before the first outage: Redis is used by all, and holds nothing older  *)
(* than what the last completed invalidation guarantees, nor does a fill.  *)
RedisOnly == outages = 0 => up /\ \A p \in Procs : healthy[p]
Floored ==
    /\ floor <= version
    /\ \A p \in Procs : Cache!At(p, "scan") => proc[p].version <= version
    /\ outages = 0 =>
          /\ \A k \in Keys : redis[k].expires > 0 => redis[k].value >= floor
          /\ \A p \in Procs : Cache!At(p, "set") => proc[p].value >= floor

(* What memory holds is finite, so that it has a last place. *)
MemoryFinite == \A p \in Procs : IsFiniteSet(memory[p])

CacheIInv ==
    /\ Cache!TypeOK /\ History /\ EntriesFresh /\ FillsBounded /\ ServedBounded /\ Valued
    /\ RedisOnly /\ Floored /\ MemoryFinite

-----------------------------------------------------------------------------
(* Facts about the helpers.                                                *)

(* A finite set of naturals has a greatest element: of the sets of those   *)
(* above a member, a smallest belongs to the greatest.                     *)
LEMMA MaxOfNaturals ==
  ASSUME NEW S \in SUBSET Nat, IsFiniteSet(S), S # {}
  PROVE  Cache!Max(S) \in S
<1> DEFINE above(n) == {m \in S : m > n}
           T == {above(n) : n \in S}
<1>1. T \subseteq FiniteSubsetsOf(S) /\ T # {}
  <2>1. \A n \in S : above(n) \in SUBSET S /\ IsFiniteSet(above(n))
    BY FS_Subset
  <2> QED BY <2>1 DEF FiniteSubsetsOf
<1>2. PICK x \in T : \A y \in T : ~ (<<y, x>> \in StrictSubsetOrdering(S))
  BY <1>1, FS_StrictSubsetOrderingWellFounded, WFMin
<1>3. PICK n \in S : x = above(n)
  OBVIOUS
<1>4. \A m \in S : n >= m
  <2> SUFFICES ASSUME NEW m \in S, m > n PROVE FALSE
    OBVIOUS
  <2>1. above(m) \in T /\ above(m) \subseteq x /\ m \in x /\ m \notin above(m)
    <3>1. n \in Nat /\ m \in Nat /\ \A j \in S : j \in Nat
      OBVIOUS
    <3>2. \A j \in S : j > m => j > n
      BY <3>1
    <3>3. ~ (m > m)
      BY <3>1
    <3> QED BY <1>3, <3>2, <3>3
  <2>2. <<above(m), x>> \in StrictSubsetOrdering(S)
    BY <2>1, <1>3 DEF StrictSubsetOrdering
  <2> QED BY <1>2, <2>1, <2>2
<1> QED BY <1>4 DEF Cache!Max

Entries == [key : Keys, value : Nat, expires : Nat, place : Nat]

LEMMA RememberedEntries ==
  ASSUME now \in Nat, NEW map \in SUBSET Entries, IsFiniteSet(map),
         NEW k \in Keys, NEW v \in Nat
  PROVE  /\ Cache!Remembered(map, k, v) \in SUBSET Entries
         /\ IsFiniteSet(Cache!Remembered(map, k, v))
         /\ \A e \in Cache!Remembered(map, k, v) : e \in map \/ (e.value = v /\ e.expires = now + Ttl)
<1> DEFINE room == IF Cache!Cardinality(map) >= MaxEntries
                   THEN {e \in map : \E older \in map : older.place < e.place} ELSE map
           held == {e \in room : e.key = k}
           of == IF held = {} THEN room ELSE held
           places == {e.place : e \in of}
           last == IF places = {} THEN 0 ELSE Cache!Max(places)
           new == [key |-> k, value |-> v, expires |-> now + Ttl,
                   place |-> IF held = {} THEN last + 1 ELSE last]
<1>1. Cache!Remembered(map, k, v) = (room \ held) \cup {new}
  BY Zenon DEF Cache!Remembered
<1>2. room \in SUBSET map /\ held \in SUBSET map /\ of \in SUBSET map
  OBVIOUS
<1> HIDE DEF room, held, of
<1>3. IsFiniteSet(of) /\ IsFiniteSet(room \ held)
  BY <1>2, FS_Subset
<1>4. places \in SUBSET Nat
  BY <1>2 DEF Entries
<1>5. IsFiniteSet(places)
  <2> DEFINE f == [e \in of |-> e.place]
  <2>1. f \in Surjection(of, places)
    BY DEF Surjection
  <2> QED BY <2>1, <1>3, FS_Surjection
<1> HIDE DEF places
<1>6. last \in Nat
  BY <1>4, <1>5, MaxOfNaturals
<1> HIDE DEF last
<1>7. new \in Entries /\ new.value = v /\ new.expires = now + Ttl
  BY <1>6, CacheAssumption DEF Entries
<1> HIDE DEF new
<1>8. IsFiniteSet((room \ held) \cup {new})
  BY <1>3, FS_AddElement
<1> QED BY <1>1, <1>2, <1>7, <1>8

LEMMA GotoProc ==
  ASSUME proc \in [Procs -> Cache!Activities], NEW p \in Procs, NEW x \in Cache!Activities, Cache!Goto(p, x)
  PROVE  /\ proc' \in [Procs -> Cache!Activities] /\ proc'[p] = x
         /\ \A q \in Procs \ {p} : proc'[q] = proc[q]
  BY DEF Cache!Goto

-----------------------------------------------------------------------------
(* The steps.                                                              *)

(* What the clock does not touch stays within its lifetime. *)
LEMMA Unaged ==
  ASSUME UNCHANGED Cache!clock
  PROVE  /\ \A v, u : Lifetime(v, u)' <=> Lifetime(v, u)
         /\ \A v : (Superseded(v)' <=> Superseded(v)) /\ (Known(v)' <=> Known(v))
         /\ History' <=> History
  BY DEF Cache!clock, Lifetime, Superseded, Known, History

LEMMA ServeServed ==
  ASSUME Cache!TypeOK, ServedBounded, UNCHANGED Cache!clock, NEW p \in Procs,
         NEW v \in 1 .. version, Superseded(v) => now <= changedAt[v] + MaxFill + Ttl,
         Cache!Serve(p, v)
  PROVE  ServedBounded' /\ served' \in [Procs -> [value : Nat, at : Nat]]
<1>1. served' = [served EXCEPT ![p] = [value |-> v, at |-> now]]
  BY DEF Cache!Serve
<1>2. version \in Nat /\ now \in Nat /\ served \in [Procs -> [value : Nat, at : Nat]]
  BY DEF Cache!TypeOK
<1>3. /\ served' \in [Procs -> [value : Nat, at : Nat]]
      /\ served'[p].value = v /\ served'[p].at = now
      /\ \A q \in Procs \ {p} : served'[q] = served[q]
  BY <1>1, <1>2
<1> QED BY <1>2, <1>3 DEF ServedBounded, Cache!clock, Superseded

LEMMA ProcTypes ==
  ASSUME Cache!TypeOK, NEW p \in Procs
  PROVE  /\ Cache!At(p, "set") => proc[p].key \in Keys /\ proc[p].value \in Nat /\ proc[p].since \in Nat
         /\ Cache!At(p, "fill") => proc[p].key \in Keys
         /\ Cache!At(p, "scan") => proc[p].version \in Nat
  BY DEF Cache!TypeOK, Cache!Activities, Cache!At

LEMMA CacheStateTypes ==
  ASSUME Cache!TypeOK, History
  PROVE  /\ now \in Nat /\ version \in Nat /\ floor \in Nat /\ outages \in Nat
         /\ changedAt \in Seq(Nat) /\ Len(changedAt) \in Nat /\ version = Len(changedAt) + 1
         /\ \A v \in 1 .. Len(changedAt) : changedAt[v] \in Nat
         /\ Ttl \in Nat /\ Ttl >= 1 /\ MaxFill \in Nat
  BY SMTT(20), CacheAssumption DEF Cache!TypeOK, History

LEMMA ComputeKeeps ==
  ASSUME CacheIInv, NEW p \in Procs, Cache!Compute(p)
  PROVE  CacheIInv'
<1> DEFINE x == [pc |-> "set", key |-> proc[p].key, value |-> version, since |-> now]
<1>0. Cache!TypeOK /\ History
  BY DEF CacheIInv
<1>1. Cache!At(p, "fill") /\ Cache!Goto(p, x) /\ UNCHANGED <<Cache!clock, Cache!tiers, up, outages, served, floor>>
  BY DEF Cache!Compute
<1>2. x \in Cache!Activities
  BY <1>0, <1>1, ProcTypes DEF Cache!TypeOK, Cache!Activities
<1>3. x.pc = "set" /\ x.value = version /\ x.since = now
  OBVIOUS
<1> HIDE DEF x
<1>4. /\ proc' \in [Procs -> Cache!Activities]
      /\ proc'[p].pc = "set" /\ proc'[p].value = version /\ proc'[p].since = now
      /\ \A q \in Procs \ {p} : proc'[q] = proc[q]
  BY <1>0, <1>1, <1>2, <1>3, GotoProc DEF Cache!TypeOK
<1>5. Cache!TypeOK'
  BY <1>0, <1>1, <1>4 DEF Cache!TypeOK, Cache!clock, Cache!tiers
<1>6. History' /\ EntriesFresh' /\ ServedBounded' /\ RedisOnly' /\ MemoryFinite'
  BY <1>1
     DEF CacheIInv, Cache!clock, Cache!tiers, History, EntriesFresh, ServedBounded, Lifetime,
         Superseded, Known, RedisOnly, MemoryFinite
<1>7. FillsBounded'
  <2> SUFFICES ASSUME NEW q \in Procs, proc'[q].pc = "set"
               PROVE  /\ proc'[q].value <= version
                      /\ proc'[q].since <= now /\ now <= proc'[q].since + MaxFill
                      /\ proc'[q].value \in 1 .. Len(changedAt) =>
                             proc'[q].since <= changedAt[proc'[q].value]
    BY <1>1 DEF FillsBounded, Cache!At, Known, Superseded, Cache!clock
  <2>1. CASE q = p
    BY <2>1, <1>0, <1>4, CacheStateTypes
  <2>2. CASE q # p
    BY <2>2, <1>4 DEF CacheIInv, FillsBounded, Cache!At, Known, Superseded
  <2> QED BY <2>1, <2>2
<1>8. Valued'
  <2>1. version >= 1
    BY <1>0, CacheStateTypes
  <2> QED BY <1>1, <1>4, <2>1 DEF CacheIInv, Valued, Cache!At, Cache!tiers
<1>9. Floored'
  BY <1>0, <1>1, <1>4, CacheStateTypes DEF CacheIInv, Floored, Cache!At, Cache!tiers,
       Cache!clock
<1> QED BY <1>5, <1>6, <1>7, <1>8, <1>9 DEF CacheIInv

LEMMA ChangeKeeps ==
  ASSUME CacheIInv, NEW p \in Procs, Cache!Change(p)
  PROVE  CacheIInv'
<1>1. /\ Cache!At(p, "idle") /\ Cache!Goto(p, [pc |-> "forget"]) /\ version' = version + 1
      /\ changedAt' = Append(changedAt, now)
      /\ UNCHANGED <<now, Cache!tiers, up, outages, served, floor>>
  BY DEF Cache!Change
<1>2. /\ proc' \in [Procs -> Cache!Activities] /\ proc'[p].pc = "forget"
      /\ \A q \in Procs \ {p} : proc'[q] = proc[q]
  BY <1>1, GotoProc DEF CacheIInv, Cache!TypeOK, Cache!Activities
<1>3. now \in Nat /\ version \in Nat /\ changedAt \in Seq(Nat) /\ Len(changedAt) \in Nat
      /\ version = Len(changedAt) + 1
  BY DEF CacheIInv, Cache!TypeOK, History
<1>4. /\ changedAt' \in Seq(Nat) /\ Len(changedAt') = version /\ changedAt'[version] = now
      /\ \A v \in 1 .. Len(changedAt) : changedAt'[v] = changedAt[v]
  BY <1>1, <1>3, AppendProperties
<1>5. Cache!TypeOK'
  BY <1>1, <1>2, <1>3, <1>4 DEF CacheIInv, Cache!TypeOK, Cache!tiers
<1>6. History'
  <2>1. \A v \in 1 .. version : v \in 1 .. Len(changedAt) \/ v = version
    BY <1>3
  <2> QED BY <1>1, <1>3, <1>4, <2>1 DEF CacheIInv, History
<1>7. ASSUME NEW v \in Nat, NEW u \in Nat, Lifetime(v, u)
      PROVE  /\ v <= version' /\ u <= now + Ttl
             /\ v \in 1 .. Len(changedAt') => u <= changedAt'[v] + MaxFill + Ttl
  BY <1>1, <1>3, <1>4, <1>7, CacheAssumption DEF Lifetime, Superseded, Known
<1>8. EntriesFresh'
  <2>1. \A k \in Keys : /\ redis[k].value \in Nat /\ redis[k].expires \in Nat
                        /\ Lifetime(redis[k].value, redis[k].expires)
    BY DEF CacheIInv, Cache!TypeOK, EntriesFresh
  <2>2. \A q \in Procs : \A e \in memory[q] :
           e.value \in Nat /\ e.expires \in Nat /\ Lifetime(e.value, e.expires)
    BY DEF CacheIInv, Cache!TypeOK, EntriesFresh
  <2> QED BY <1>1, <1>7, <2>1, <2>2 DEF EntriesFresh, Cache!tiers, Lifetime, Known, Superseded
<1>9. FillsBounded'
  <2> SUFFICES ASSUME NEW q \in Procs, Cache!At(q, "set")'
               PROVE  /\ Known(proc[q].value)'
                      /\ (proc[q].since <= now)' /\ (now <= proc[q].since + MaxFill)'
                      /\ Superseded(proc[q].value)'
                           => (proc[q].since <= changedAt[proc[q].value])'
    BY DEF FillsBounded
  <2>1. q # p /\ proc'[q] = proc[q] /\ Cache!At(q, "set")
    BY <1>2 DEF Cache!At
  <2>2. proc[q].value \in Nat /\ proc[q].since \in Nat
    BY <2>1 DEF CacheIInv, Cache!TypeOK, Cache!Activities, Cache!At
  <2> QED BY <2>1, <2>2, <1>1, <1>3, <1>4 DEF CacheIInv, FillsBounded, Known, Superseded
<1>10. ServedBounded'
  <2> SUFFICES ASSUME NEW q \in Procs
               PROVE  /\ served[q].value \in 1 .. version' /\ served[q].at <= now
                      /\ (served[q].value \in 1 .. Len(changedAt')) =>
                           served[q].at <= changedAt'[served[q].value] + MaxFill + Ttl
    BY <1>1 DEF ServedBounded, Superseded
  <2>1. /\ served[q].value \in 1 .. version /\ served[q].at <= now
        /\ Superseded(served[q].value) =>
             served[q].at <= changedAt[served[q].value] + MaxFill + Ttl
    BY DEF CacheIInv, ServedBounded
  <2>2. served[q].at \in Nat /\ Ttl \in Nat /\ MaxFill \in Nat
    BY CacheAssumption DEF CacheIInv, Cache!TypeOK
  <2>3. PICK v \in 1 .. version : v = served[q].value
    BY <2>1
  <2>4. v \in 1 .. version'
    BY <1>1, <1>3
  <2>5. CASE v = version
    <3>1. changedAt'[v] = now
      BY <1>4, <2>5
    <3> QED BY <1>3, <2>1, <2>2, <2>3, <2>4, <3>1
  <2>6. CASE v # version
    <3>1. v \in 1 .. Len(changedAt) /\ changedAt'[v] = changedAt[v]
      BY <1>3, <1>4, <2>6
    <3> QED BY <2>1, <2>3, <2>4, <3>1 DEF Superseded
  <2> QED BY <2>5, <2>6
<1>11. Valued' /\ RedisOnly' /\ Floored' /\ MemoryFinite'
  <2>1. Valued' /\ RedisOnly' /\ MemoryFinite'
    BY <1>1, <1>2 DEF CacheIInv, Cache!TypeOK, Cache!tiers, Valued, RedisOnly, MemoryFinite,
         Cache!At
  <2>2. \A q \in Procs : Cache!At(q, "scan")' => proc'[q].version <= version'
    <3> SUFFICES ASSUME NEW q \in Procs, Cache!At(q, "scan")' PROVE proc'[q].version <= version'
      OBVIOUS
    <3>1. q # p /\ proc'[q] = proc[q] /\ Cache!At(q, "scan")
      BY <1>2 DEF Cache!At
    <3>2. proc[q].version \in Nat
      BY <3>1 DEF CacheIInv, Cache!TypeOK, Cache!Activities, Cache!At
    <3> QED BY <3>1, <3>2, <1>1, <1>3 DEF CacheIInv, Floored
  <2>3. floor' <= version'
    BY <1>1, <1>3 DEF CacheIInv, Floored, Cache!TypeOK
  <2>4. outages' = 0 =>
          /\ \A k \in Keys : redis'[k].expires > 0 => redis'[k].value >= floor'
          /\ \A q \in Procs : Cache!At(q, "set")' => proc'[q].value >= floor'
    BY <1>1, <1>2 DEF CacheIInv, Cache!tiers, Floored, Cache!At
  <2> QED BY <2>1, <2>2, <2>3, <2>4 DEF Floored
<1> QED BY <1>5, <1>6, <1>8, <1>9, <1>10, <1>11 DEF CacheIInv

(* A process that moves on, to something that is no fill: the fills of the *)
(* others are as they were.                                                *)
LEMMA MovesOn ==
  ASSUME CacheIInv, UNCHANGED Cache!clock, NEW p \in Procs, NEW x \in Cache!Activities,
         Cache!Goto(p, x), x.pc # "set", x.pc = "scan" => x.version = version
  PROVE  /\ proc' \in [Procs -> Cache!Activities]
         /\ FillsBounded'
         /\ \A q \in Procs : Cache!At(q, "set")' => Cache!At(q, "set") /\ proc'[q] = proc[q]
         /\ \A q \in Procs : Cache!At(q, "scan")' => proc'[q].version <= version
<1>0. Cache!TypeOK /\ History
  BY DEF CacheIInv
<1>1. /\ proc' \in [Procs -> Cache!Activities] /\ proc'[p] = x
      /\ \A q \in Procs \ {p} : proc'[q] = proc[q]
  BY <1>0, GotoProc DEF Cache!TypeOK
<1>2. \A q \in Procs : Cache!At(q, "set")' => Cache!At(q, "set") /\ proc'[q] = proc[q]
  BY <1>1 DEF Cache!At
<1>3. FillsBounded'
  BY <1>2 DEF CacheIInv, FillsBounded, Known, Superseded, Cache!clock, Cache!At
<1>4. \A q \in Procs : Cache!At(q, "scan")' => proc'[q].version <= version
  BY <1>0, <1>1, CacheStateTypes DEF CacheIInv, Floored, Cache!At
<1> QED BY <1>1, <1>2, <1>3, <1>4

(* Memories that only lose entries, and Redis left alone. *)
LEMMA OnlyForgets ==
  ASSUME CacheIInv, UNCHANGED <<Cache!clock, redis>>,
         memory' \in [Procs -> SUBSET Entries],
         \A q \in Procs : memory'[q] \subseteq memory[q]
  PROVE  /\ EntriesFresh' /\ MemoryFinite'
         /\ \A q \in Procs : \A e \in memory'[q] : e.value >= 1
<1>1. MemoryFinite'
  <2>1. \A q \in Procs : memory'[q] \in SUBSET memory[q] /\ IsFiniteSet(memory[q])
    BY DEF CacheIInv, MemoryFinite
  <2> QED BY <2>1, FS_Subset DEF MemoryFinite
<1>2. EntriesFresh'
  BY DEF CacheIInv, EntriesFresh, Lifetime, Known, Superseded, Cache!clock
<1> QED BY <1>1, <1>2 DEF CacheIInv, Valued

LEMMA EnvironmentKeeps ==
  ASSUME CacheIInv, UNCHANGED <<Cache!clock, redis, memory, proc, served, floor>>,
         up' \in BOOLEAN, healthy' \in [Procs -> BOOLEAN], outages' \in Nat,
         outages' >= outages, RedisOnly'
  PROVE  CacheIInv'
<1>0. Cache!TypeOK /\ History
  BY DEF CacheIInv
<1>1. Cache!TypeOK'
  BY <1>0 DEF Cache!TypeOK, Cache!clock
<1>2. outages' = 0 => outages = 0
  BY <1>0 DEF Cache!TypeOK
<1>3. Floored'
  BY <1>2 DEF CacheIInv, Floored, Cache!At, Cache!clock
<1>4. History' /\ EntriesFresh' /\ ServedBounded' /\ MemoryFinite'
  BY DEF CacheIInv, Cache!clock, History, EntriesFresh, ServedBounded, Lifetime, Superseded,
       Known, MemoryFinite
<1>5. FillsBounded' /\ Valued'
  BY DEF CacheIInv, Cache!clock, FillsBounded, Superseded, Known, Valued, Cache!At
<1> QED BY <1>1, <1>3, <1>4, <1>5 DEF CacheIInv

LEMMA OutageKeeps ==
  ASSUME CacheIInv, Cache!Outage
  PROVE  CacheIInv'
<1>1. outages \in Nat /\ healthy \in [Procs -> BOOLEAN]
  BY DEF CacheIInv, Cache!TypeOK
<1>2. up' = FALSE /\ outages' = outages + 1
  BY DEF Cache!Outage
<1>3. UNCHANGED <<Cache!clock, redis, memory, proc, served, floor>> /\ UNCHANGED healthy
  BY DEF Cache!Outage, Cache!tiers
<1>4. outages' \in Nat /\ outages' >= outages /\ outages' # 0
  BY <1>1, <1>2
<1>5. up' \in BOOLEAN /\ healthy' \in [Procs -> BOOLEAN]
  BY <1>1, <1>2, <1>3
<1>6. RedisOnly'
  BY <1>4 DEF RedisOnly
<1> QED BY <1>3, <1>4, <1>5, <1>6, EnvironmentKeeps

LEMMA RecoverKeeps ==
  ASSUME CacheIInv, Cache!Recover
  PROVE  CacheIInv'
<1>1. /\ up' = TRUE /\ ~ up /\ outages \in Nat /\ healthy \in [Procs -> BOOLEAN]
      /\ UNCHANGED <<Cache!clock, Cache!tiers, outages, proc, served, floor>>
  BY DEF Cache!Recover, CacheIInv, Cache!TypeOK
<1>2. RedisOnly'
  BY <1>1 DEF CacheIInv, RedisOnly, Cache!tiers
<1> QED BY <1>1, <1>2, EnvironmentKeeps DEF Cache!tiers

LEMMA NoticedKeeps ==
  ASSUME CacheIInv, NEW p \in Procs, Cache!Noticed(p)
  PROVE  CacheIInv'
<1>1. /\ healthy' = [healthy EXCEPT ![p] = up] /\ outages \in Nat /\ up \in BOOLEAN
      /\ UNCHANGED <<Cache!clock, redis, memory, up, outages, proc, served, floor>>
      /\ healthy \in [Procs -> BOOLEAN]
  BY DEF Cache!Noticed, CacheIInv, Cache!TypeOK
<1>2. healthy' \in [Procs -> BOOLEAN] /\ \A q \in Procs : healthy'[q] = IF q = p THEN up ELSE healthy[q]
  BY <1>1
<1>3. RedisOnly'
  BY <1>1, <1>2 DEF CacheIInv, RedisOnly
<1>4. /\ UNCHANGED <<Cache!clock, redis, memory, proc, served, floor>>
      /\ up' \in BOOLEAN /\ outages' \in Nat /\ outages' >= outages
  BY <1>1
<1> QED BY <1>2, <1>3, <1>4, EnvironmentKeeps

LEMMA SweepKeeps ==
  ASSUME CacheIInv, NEW p \in Procs, Cache!Sweep(p)
  PROVE  CacheIInv'
<1>1. /\ memory' = [memory EXCEPT ![p] = {e \in memory[p] : Cache!Alive(e)}]
      /\ UNCHANGED <<Cache!clock, redis, healthy, up, outages, proc, served, floor>>
  BY DEF Cache!Sweep
<1>2. /\ memory' \in [Procs -> SUBSET Entries]
      /\ \A q \in Procs : memory'[q] \subseteq memory[q]
  BY <1>1 DEF CacheIInv, Cache!TypeOK, Entries
<1>3. /\ EntriesFresh' /\ MemoryFinite'
      /\ \A q \in Procs : \A e \in memory'[q] : e.value >= 1
  BY <1>1, <1>2, OnlyForgets
<1>4. Cache!TypeOK'
  BY <1>1, <1>2 DEF CacheIInv, Cache!TypeOK, Entries, Cache!clock
<1>5. History' /\ FillsBounded' /\ ServedBounded'
  BY <1>1 DEF CacheIInv, Cache!clock, History, FillsBounded, ServedBounded, Superseded,
       Known, Cache!At
<1>6. Valued' /\ RedisOnly' /\ Floored'
  BY <1>1, <1>3 DEF CacheIInv, Cache!clock, Valued, RedisOnly, Floored, Cache!At
<1> QED BY <1>3, <1>4, <1>5, <1>6 DEF CacheIInv

LEMMA ForgetMemoryKeeps ==
  ASSUME CacheIInv, NEW p \in Procs, Cache!ForgetMemory(p)
  PROVE  CacheIInv'
<1> DEFINE x == [pc |-> "scan", version |-> version]
<1>1. /\ memory' = [memory EXCEPT ![p] = {}] /\ Cache!Goto(p, x)
      /\ UNCHANGED <<Cache!clock, redis, up, outages, healthy, served, floor>>
  BY DEF Cache!ForgetMemory
<1>2. /\ memory' \in [Procs -> SUBSET Entries]
      /\ \A q \in Procs : memory'[q] \subseteq memory[q]
  BY <1>1 DEF CacheIInv, Cache!TypeOK, Entries
<1>3. /\ EntriesFresh' /\ MemoryFinite'
      /\ \A q \in Procs : \A e \in memory'[q] : e.value >= 1
  BY <1>1, <1>2, OnlyForgets
<1>4. x \in Cache!Activities /\ x.pc = "scan" /\ x.version = version
  BY DEF CacheIInv, Cache!TypeOK, Cache!Activities
<1> HIDE DEF x
<1>5. /\ proc' \in [Procs -> Cache!Activities] /\ FillsBounded'
      /\ \A q \in Procs : Cache!At(q, "set")' => Cache!At(q, "set") /\ proc'[q] = proc[q]
      /\ \A q \in Procs : Cache!At(q, "scan")' => proc'[q].version <= version
  BY <1>1, <1>4, MovesOn
<1>6. Cache!TypeOK'
  BY <1>1, <1>2, <1>5 DEF CacheIInv, Cache!TypeOK, Entries, Cache!clock
<1>7. Valued' /\ Floored'
  BY <1>1, <1>3, <1>5 DEF CacheIInv, Valued, Floored, Cache!clock
<1>8. History' /\ ServedBounded' /\ RedisOnly'
  BY <1>1 DEF CacheIInv, Cache!clock, History, ServedBounded, Superseded, Known, RedisOnly
<1> QED BY <1>3, <1>5, <1>6, <1>7, <1>8 DEF CacheIInv

LEMMA IdleActivity == Cache!Idle \in Cache!Activities /\ Cache!Idle.pc = "idle"
  BY DEF Cache!Idle, Cache!Activities

LEMMA ScanKeeps ==
  ASSUME CacheIInv, NEW p \in Procs, Cache!Scan(p)
  PROVE  CacheIInv'
<1>0. Cache!TypeOK /\ History /\ EntriesFresh /\ RedisOnly /\ Floored /\ Valued
  BY DEF CacheIInv
<1>1. /\ Cache!At(p, "scan") /\ Cache!Goto(p, Cache!Idle)
      /\ UNCHANGED <<Cache!clock, memory, up, outages, served>>
      /\ floor' = IF outages = 0 /\ ~ Cache!Filling THEN proc[p].version ELSE floor
  BY DEF Cache!Scan
<1>2. /\ proc' \in [Procs -> Cache!Activities] /\ FillsBounded'
      /\ \A q \in Procs : Cache!At(q, "set")' => Cache!At(q, "set") /\ proc'[q] = proc[q]
      /\ \A q \in Procs : Cache!At(q, "scan")' => proc'[q].version <= version
  BY <1>1, MovesOn, IdleActivity
<1>3. floor' \in Nat /\ floor' <= version
  BY <1>0, <1>1, ProcTypes, CacheStateTypes DEF Floored
<1>4. /\ redis' \in [Keys -> [value : Nat, expires : Nat]] /\ healthy' \in [Procs -> BOOLEAN]
      /\ EntriesFresh' /\ RedisOnly'
      /\ \A k \in Keys : redis'[k].expires > 0 => redis'[k] = redis[k]
      /\ outages = 0 => \A k \in Keys : ~ (redis'[k].expires > 0)
  <2>1. CASE healthy[p] /\ up
    <3>1. redis' = [k \in Keys |-> Cache!NoEntry] /\ UNCHANGED healthy
      BY <2>1 DEF Cache!Scan
    <3>2. /\ redis' \in [Keys -> [value : Nat, expires : Nat]]
          /\ \A k \in Keys : redis'[k].value = 0 /\ redis'[k].expires = 0
      BY <3>1 DEF Cache!NoEntry
    <3>3. EntriesFresh'
      BY <1>0, <1>1, <3>2, CacheStateTypes
           DEF EntriesFresh, Lifetime, Known, Superseded, Cache!clock
    <3>4. RedisOnly'
      BY <1>0, <1>1, <3>1 DEF RedisOnly
    <3> QED BY <1>0, <3>1, <3>2, <3>3, <3>4 DEF Cache!TypeOK
  <2>2. CASE ~ (healthy[p] /\ up)
    <3>1. UNCHANGED redis /\ healthy' = [healthy EXCEPT ![p] = FALSE]
      BY <2>2 DEF Cache!Scan
    <3>2. outages # 0
      BY <1>0, <2>2 DEF RedisOnly
    <3>3. EntriesFresh'
      BY <1>0, <1>1, <3>1 DEF EntriesFresh, Lifetime, Known, Superseded, Cache!clock
    <3>4. RedisOnly'
      BY <1>1, <3>2 DEF RedisOnly
    <3> QED BY <1>0, <3>1, <3>2, <3>3, <3>4 DEF Cache!TypeOK
  <2> QED BY <2>1, <2>2
<1>5. Cache!TypeOK'
  BY <1>0, <1>1, <1>2, <1>3, <1>4 DEF Cache!TypeOK, Cache!clock
<1>6. Valued'
  BY <1>0, <1>1, <1>2, <1>4 DEF Valued
<1>7. Floored'
  <2>1. ASSUME outages' = 0, NEW q \in Procs, Cache!At(q, "set")'
        PROVE  proc'[q].value >= floor'
    <3>1. Cache!At(q, "set") /\ proc'[q] = proc[q] /\ outages = 0
      BY <1>1, <1>2, <2>1
    <3>2. floor' = floor
      BY <1>1, <3>1 DEF Cache!Filling, Cache!At
    <3> QED BY <1>0, <3>1, <3>2 DEF Floored
  <2>2. outages' = 0 => \A k \in Keys : ~ (redis'[k].expires > 0)
    BY <1>1, <1>4
  <2> QED BY <1>1, <1>2, <1>3, <2>1, <2>2 DEF Floored, Cache!clock
<1>8. History' /\ ServedBounded' /\ MemoryFinite'
  BY <1>1 DEF CacheIInv, Cache!clock, History, ServedBounded, Superseded, Known, MemoryFinite
<1> QED BY <1>2, <1>4, <1>5, <1>6, <1>7, <1>8 DEF CacheIInv

(* What a read hands out. *)
LEMMA HitKeeps ==
  ASSUME CacheIInv, UNCHANGED <<Cache!clock, redis, memory, up, outages, floor>>,
         healthy' \in [Procs -> BOOLEAN], RedisOnly', NEW p \in Procs,
         NEW v \in Nat, NEW u \in Nat, v >= 1, Lifetime(v, u), u > now, Cache!Hit(p, v)
  PROVE  CacheIInv'
<1>0. Cache!TypeOK /\ History
  BY DEF CacheIInv
<1>1. Cache!Goto(p, Cache!Idle) /\ Cache!Serve(p, v)
  BY DEF Cache!Hit
<1>2. /\ proc' \in [Procs -> Cache!Activities] /\ FillsBounded'
      /\ \A q \in Procs : Cache!At(q, "set")' => Cache!At(q, "set") /\ proc'[q] = proc[q]
      /\ \A q \in Procs : Cache!At(q, "scan")' => proc'[q].version <= version
  BY <1>1, MovesOn, IdleActivity
<1>3. ServedBounded' /\ served' \in [Procs -> [value : Nat, at : Nat]]
  <2>1. v \in 1 .. version
    BY <1>0, CacheStateTypes DEF Lifetime, Known
  <2>2. Superseded(v) => now <= changedAt[v] + MaxFill + Ttl
    BY SMTT(20), <1>0, CacheStateTypes DEF Lifetime, Superseded
  <2> QED BY <1>0, <1>1, <2>1, <2>2, ServeServed DEF CacheIInv
<1>4. Cache!TypeOK'
  BY <1>0, <1>2, <1>3 DEF Cache!TypeOK, Cache!clock
<1>5. Valued' /\ Floored'
  BY <1>2 DEF CacheIInv, Valued, Floored, Cache!clock
<1>6. History' /\ EntriesFresh' /\ MemoryFinite'
  BY DEF CacheIInv, Cache!clock, History, EntriesFresh, Lifetime, Superseded, Known,
       MemoryFinite
<1> QED BY <1>2, <1>3, <1>4, <1>5, <1>6 DEF CacheIInv

LEMMA MissKeeps ==
  ASSUME CacheIInv, UNCHANGED <<Cache!clock, redis, up, outages, floor>>,
         healthy' \in [Procs -> BOOLEAN], RedisOnly', NEW p \in Procs, NEW k \in Keys,
         memory' \in [Procs -> SUBSET Entries],
         \A q \in Procs : memory'[q] \subseteq memory[q], Cache!Miss(p, k)
  PROVE  CacheIInv'
<1> DEFINE x == [pc |-> "fill", key |-> k]
<1>1. Cache!Goto(p, x) /\ UNCHANGED served
  BY DEF Cache!Miss
<1>2. x \in Cache!Activities /\ x.pc = "fill"
  BY DEF Cache!Activities
<1> HIDE DEF x
<1>3. /\ proc' \in [Procs -> Cache!Activities] /\ FillsBounded'
      /\ \A q \in Procs : Cache!At(q, "set")' => Cache!At(q, "set") /\ proc'[q] = proc[q]
      /\ \A q \in Procs : Cache!At(q, "scan")' => proc'[q].version <= version
  BY <1>1, <1>2, MovesOn
<1>4. /\ EntriesFresh' /\ MemoryFinite'
      /\ \A q \in Procs : \A e \in memory'[q] : e.value >= 1
  BY OnlyForgets
<1>5. Cache!TypeOK'
  BY <1>1, <1>3 DEF CacheIInv, Cache!TypeOK, Entries, Cache!clock
<1>6. Valued' /\ Floored'
  BY <1>3, <1>4 DEF CacheIInv, Valued, Floored, Cache!clock
<1>7. History' /\ ServedBounded'
  BY <1>1 DEF CacheIInv, Cache!clock, History, ServedBounded, Superseded, Known
<1> QED BY <1>3, <1>4, <1>5, <1>6, <1>7 DEF CacheIInv

LEMMA GetKeeps ==
  ASSUME CacheIInv, NEW p \in Procs, NEW k \in Keys, Cache!Get(p, k)
  PROVE  CacheIInv'
<1>0. Cache!TypeOK /\ RedisOnly /\ History
  BY DEF CacheIInv
<1>1. UNCHANGED <<Cache!clock, up, outages, floor>>
  BY DEF Cache!Get
<1>2. CASE healthy[p] /\ up
  <2>1. UNCHANGED Cache!tiers /\ IF Cache!Alive(redis[k]) THEN Cache!Hit(p, redis[k].value) ELSE Cache!Miss(p, k)
    BY <1>2 DEF Cache!Get
  <2>2. /\ healthy' \in [Procs -> BOOLEAN] /\ RedisOnly' /\ UNCHANGED <<redis, memory>>
        /\ memory' \in [Procs -> SUBSET Entries]
    BY <1>0, <1>1, <2>1 DEF Cache!TypeOK, RedisOnly, Cache!tiers, Entries
  <2>3. CASE Cache!Alive(redis[k])
    <3>1. /\ redis[k].value \in Nat /\ redis[k].expires \in Nat /\ redis[k].value >= 1
          /\ redis[k].expires > now /\ Lifetime(redis[k].value, redis[k].expires)
      BY <1>0, <2>3, CacheStateTypes DEF CacheIInv, Cache!TypeOK, Cache!Alive, Valued,
           EntriesFresh
    <3> QED BY <1>1, <2>1, <2>2, <2>3, <3>1, HitKeeps
  <2>4. CASE ~ Cache!Alive(redis[k])
    BY <1>1, <2>1, <2>2, <2>4, MissKeeps
  <2> QED BY <2>3, <2>4
<1>3. CASE ~ (healthy[p] /\ up)
  <2>1. /\ healthy' = [healthy EXCEPT ![p] = FALSE] /\ UNCHANGED redis
        /\ \/ \E e \in Cache!Cached(p, k) : Cache!Hit(p, e.value) /\ UNCHANGED memory
           \/ Cache!Miss(p, k) /\ memory' = [memory EXCEPT ![p] = memory[p] \ Cache!Held(p, k)]
    BY <1>3 DEF Cache!Get
  <2>2. healthy' \in [Procs -> BOOLEAN] /\ RedisOnly'
    BY <1>0, <1>1, <1>3, <2>1 DEF Cache!TypeOK, RedisOnly
  <2>3. ASSUME NEW e \in Cache!Cached(p, k), Cache!Hit(p, e.value), UNCHANGED memory
        PROVE  CacheIInv'
    <3>1. /\ e.value \in Nat /\ e.expires \in Nat /\ e.value >= 1 /\ e.expires > now
          /\ Lifetime(e.value, e.expires)
      BY <1>0 DEF CacheIInv, Cache!TypeOK, Cache!Cached, Cache!Held, Cache!Alive, Valued,
           EntriesFresh
    <3> QED BY <1>1, <2>1, <2>2, <2>3, <3>1, HitKeeps
  <2>4. ASSUME Cache!Miss(p, k), memory' = [memory EXCEPT ![p] = memory[p] \ Cache!Held(p, k)]
        PROVE  CacheIInv'
    <3>1. /\ memory' \in [Procs -> SUBSET Entries]
          /\ \A q \in Procs : memory'[q] \subseteq memory[q]
      BY <1>0, <2>4 DEF Cache!TypeOK, Entries
    <3> QED BY <1>1, <2>1, <2>2, <2>4, <3>1, MissKeeps
  <2> QED BY <2>1, <2>3, <2>4
<1> QED BY <1>2, <1>3

LEMMA SetKeeps ==
  ASSUME CacheIInv, NEW p \in Procs, Cache!Set(p)
  PROVE  CacheIInv'
<1> DEFINE v == proc[p].value
           k == proc[p].key
           t == proc[p].since
<1>0. Cache!TypeOK /\ History /\ RedisOnly /\ EntriesFresh /\ FillsBounded /\ Valued /\ Floored
  BY DEF CacheIInv
<1>1. /\ Cache!At(p, "set") /\ Cache!Goto(p, Cache!Idle) /\ Cache!Serve(p, v)
      /\ UNCHANGED <<Cache!clock, up, outages, floor>>
  BY DEF Cache!Set
<1>2. /\ v \in Nat /\ v >= 1 /\ k \in Keys /\ t \in Nat /\ Known(v) /\ t <= now /\ now <= t + MaxFill
      /\ Superseded(v) => t <= changedAt[v]
      /\ outages = 0 => v >= floor
  BY <1>0, <1>1, ProcTypes DEF FillsBounded, Valued, Floored
<1>3. /\ proc' \in [Procs -> Cache!Activities] /\ FillsBounded'
      /\ \A q \in Procs : Cache!At(q, "set")' => Cache!At(q, "set") /\ proc'[q] = proc[q]
      /\ \A q \in Procs : Cache!At(q, "scan")' => proc'[q].version <= version
  BY <1>1, MovesOn, IdleActivity
<1> HIDE DEF v, k, t
<1>4. Lifetime(v, now + Ttl) /\ (now + Ttl) \in Nat
  <2>1. now \in Nat /\ Ttl \in Nat /\ MaxFill \in Nat
    BY <1>0, CacheStateTypes
  <2>2. ASSUME Superseded(v)
        PROVE  now + Ttl <= changedAt[v] + MaxFill + Ttl
    <3>1. changedAt[v] \in Nat /\ t <= changedAt[v]
      BY <1>0, <1>2, <2>2, CacheStateTypes DEF Superseded
    <3> QED BY <1>2, <2>1, <3>1
  <2> QED BY <1>2, <2>1, <2>2 DEF Lifetime
<1>5. ServedBounded' /\ served' \in [Procs -> [value : Nat, at : Nat]]
  <2>1. v \in 1 .. version
    BY <1>0, <1>2, CacheStateTypes DEF Known
  <2>2. Superseded(v) => now <= changedAt[v] + MaxFill + Ttl
    BY SMTT(20), <1>0, <1>2, CacheStateTypes DEF Superseded
  <2> QED BY <1>0, <1>1, <2>1, <2>2, ServeServed DEF CacheIInv
<1>6. /\ redis' \in [Keys -> [value : Nat, expires : Nat]] /\ healthy' \in [Procs -> BOOLEAN]
      /\ memory' \in [Procs -> SUBSET Entries] /\ MemoryFinite' /\ RedisOnly'
      /\ \A j \in Keys : redis'[j] = redis[j] \/ redis'[j] = [value |-> v, expires |-> now + Ttl]
      /\ \A q \in Procs : \A e \in memory'[q] :
            e \in memory[q] \/ (e.value = v /\ e.expires = now + Ttl)
  <2>1. CASE healthy[p] /\ up
    <3>1. /\ redis' = [redis EXCEPT ![k] = [value |-> v, expires |-> now + Ttl]]
          /\ UNCHANGED <<healthy, memory>>
      BY <2>1 DEF Cache!Set, k, v
    <3>2. redis' \in [Keys -> [value : Nat, expires : Nat]]
          /\ \A j \in Keys : redis'[j] = redis[j] \/ redis'[j] = [value |-> v, expires |-> now + Ttl]
      BY <1>0, <1>2, <1>4, <3>1 DEF Cache!TypeOK
    <3> QED BY <1>0, <1>1, <3>1, <3>2 DEF Cache!TypeOK, Entries, CacheIInv, MemoryFinite,
         RedisOnly
  <2>2. CASE ~ (healthy[p] /\ up)
    <3>1. /\ memory' = [memory EXCEPT ![p] = Cache!Remembered(memory[p], k, v)]
          /\ healthy' = [healthy EXCEPT ![p] = FALSE] /\ UNCHANGED redis
      BY <2>2 DEF Cache!Set, k, v
    <3>2. memory \in [Procs -> SUBSET Entries] /\ now \in Nat /\ IsFiniteSet(memory[p])
      BY <1>0 DEF Cache!TypeOK, Entries, CacheIInv, MemoryFinite
    <3>3. /\ Cache!Remembered(memory[p], k, v) \in SUBSET Entries
          /\ IsFiniteSet(Cache!Remembered(memory[p], k, v))
          /\ \A e \in Cache!Remembered(memory[p], k, v) :
                e \in memory[p] \/ (e.value = v /\ e.expires = now + Ttl)
      BY <1>2, <3>2, RememberedEntries
    <3>4. /\ memory' \in [Procs -> SUBSET Entries] /\ memory'[p] = Cache!Remembered(memory[p], k, v)
          /\ \A q \in Procs \ {p} : memory'[q] = memory[q]
      BY <3>1, <3>2, <3>3
    <3>5. MemoryFinite'
      BY <3>3, <3>4 DEF CacheIInv, MemoryFinite
    <3>6. RedisOnly' /\ healthy' \in [Procs -> BOOLEAN]
      BY <1>0, <1>1, <2>2, <3>1 DEF Cache!TypeOK, RedisOnly
    <3> QED BY <1>0, <3>1, <3>3, <3>4, <3>5, <3>6 DEF Cache!TypeOK
  <2> QED BY <2>1, <2>2
<1>7. Cache!TypeOK'
  BY <1>0, <1>1, <1>3, <1>5, <1>6 DEF Cache!TypeOK, Entries, Cache!clock
<1>8. EntriesFresh'
  <2>1. \A j \in Keys : Lifetime(redis'[j].value, redis'[j].expires)
    BY <1>0, <1>4, <1>6 DEF EntriesFresh
  <2>2. \A q \in Procs : \A e \in memory'[q] : Lifetime(e.value, e.expires)
    BY <1>0, <1>4, <1>6 DEF EntriesFresh
  <2> QED BY <1>1, <2>1, <2>2 DEF EntriesFresh, Lifetime, Known, Superseded, Cache!clock
<1>9. Valued'
  BY <1>0, <1>2, <1>3, <1>6 DEF Valued
<1>10. Floored'
  BY <1>0, <1>1, <1>2, <1>3, <1>6 DEF Floored, Cache!clock
<1>11. History'
  BY <1>0, <1>1 DEF Cache!clock, History
<1> QED BY <1>3, <1>5, <1>6, <1>7, <1>8, <1>9, <1>10, <1>11 DEF CacheIInv

LEMMA TickKeeps ==
  ASSUME CacheIInv, Cache!Tick
  PROVE  CacheIInv'
<1>0. Cache!TypeOK /\ History
  BY DEF CacheIInv
<1>1. /\ now' = now + 1
      /\ UNCHANGED <<version, changedAt, Cache!tiers, up, outages, proc, served, floor>>
      /\ \A p \in Procs : Cache!At(p, "set") => now < proc[p].since + MaxFill
  BY DEF Cache!Tick
<1>2. Cache!TypeOK'
  BY <1>0, <1>1 DEF Cache!TypeOK, Cache!tiers
<1>3. History'
  BY SMTT(20), <1>0, <1>1, CacheStateTypes DEF History
<1>4. EntriesFresh'
  <2>1. ASSUME NEW v, NEW u \in Nat, Lifetime(v, u)
        PROVE  v <= version /\ u <= now' + Ttl /\ (Superseded(v) => u <= changedAt[v] + MaxFill + Ttl)
    BY <1>0, <1>1, <2>1, CacheStateTypes DEF Lifetime, Known
  <2>2. \A k \in Keys : redis[k].expires \in Nat /\ Lifetime(redis[k].value, redis[k].expires)
    BY DEF CacheIInv, Cache!TypeOK, EntriesFresh
  <2>3. \A q \in Procs : \A e \in memory[q] : e.expires \in Nat /\ Lifetime(e.value, e.expires)
    BY DEF CacheIInv, Cache!TypeOK, EntriesFresh
  <2> QED BY <1>1, <2>1, <2>2, <2>3 DEF EntriesFresh, Lifetime, Known, Superseded, Cache!tiers
<1>5. FillsBounded'
  <2> SUFFICES ASSUME NEW p \in Procs, Cache!At(p, "set")
               PROVE  /\ Known(proc[p].value)
                      /\ proc[p].since <= now + 1 /\ now + 1 <= proc[p].since + MaxFill
                      /\ Superseded(proc[p].value) => proc[p].since <= changedAt[proc[p].value]
    BY <1>1 DEF FillsBounded, Cache!At, Known, Superseded
  <2>1. proc[p].since \in Nat /\ proc[p].since <= now /\ now < proc[p].since + MaxFill
    BY <1>0, <1>1, ProcTypes DEF CacheIInv, FillsBounded
  <2>2. proc[p].since <= now + 1 /\ now + 1 <= proc[p].since + MaxFill
    BY <1>0, <2>1, CacheStateTypes
  <2> QED BY <2>2 DEF CacheIInv, FillsBounded
<1>6. ServedBounded'
  <2>1. \A p \in Procs : served[p].at \in Nat /\ served[p].at <= now + 1
    BY <1>0, CacheStateTypes DEF CacheIInv, Cache!TypeOK, ServedBounded
  <2> QED BY <1>1, <2>1 DEF CacheIInv, ServedBounded, Superseded
<1>7. Valued' /\ RedisOnly' /\ Floored' /\ MemoryFinite'
  BY <1>1 DEF CacheIInv, Cache!tiers, Valued, RedisOnly, Floored, MemoryFinite, Cache!At
<1> QED BY <1>2, <1>3, <1>4, <1>5, <1>6, <1>7 DEF CacheIInv

LEMMA CacheInitIInv == Cache!Init => CacheIInv
<1> SUFFICES ASSUME Cache!Init PROVE CacheIInv
  OBVIOUS
<1>1. /\ now = 1 /\ version = 1 /\ changedAt = <<>> /\ Len(changedAt) = 0 /\ up = TRUE
      /\ outages = 0 /\ floor = 1
  BY DEF Cache!Init
<1>2. /\ redis \in [Keys -> [value : Nat, expires : Nat]]
      /\ \A k \in Keys : redis[k].value = 0 /\ redis[k].expires = 0
      /\ healthy \in [Procs -> BOOLEAN] /\ \A p \in Procs : healthy[p] = TRUE
      /\ memory \in [Procs -> SUBSET Entries] /\ \A p \in Procs : memory[p] = {}
      /\ proc \in [Procs -> Cache!Activities] /\ \A p \in Procs : proc[p].pc = "idle"
      /\ served \in [Procs -> [value : Nat, at : Nat]]
      /\ \A p \in Procs : served[p].value = 1 /\ served[p].at = 1
  BY DEF Cache!Init, Cache!NoEntry, Cache!Idle, Cache!Activities
<1>3. changedAt \in Seq(Nat)
  BY <1>1, EmptySeq
<1>4. Cache!TypeOK
  BY <1>1, <1>2, <1>3 DEF Cache!TypeOK, Entries
<1>5. History /\ FillsBounded /\ Valued /\ RedisOnly /\ Floored
  BY <1>1, <1>2 DEF History, FillsBounded, Valued, RedisOnly, Floored, Cache!At
<1>6. EntriesFresh /\ ServedBounded
  BY <1>1, <1>2, CacheAssumption DEF EntriesFresh, ServedBounded, Lifetime, Known, Superseded
<1>7. MemoryFinite
  <2>1. IsFiniteSet({})
    BY FS_EmptySet
  <2> QED BY <1>2, <2>1 DEF MemoryFinite
<1> QED BY <1>4, <1>5, <1>6, <1>7 DEF CacheIInv

LEMMA CacheNextIInv == CacheIInv /\ [Cache!Next]_Cache!vars => CacheIInv'
<1> SUFFICES ASSUME CacheIInv, [Cache!Next]_Cache!vars PROVE CacheIInv'
  OBVIOUS
<1>1. CASE UNCHANGED Cache!vars
  <2>1. UNCHANGED <<Cache!clock, redis, memory, proc, served, floor>>
        /\ UNCHANGED <<up, healthy, outages>>
    BY <1>1 DEF Cache!vars, Cache!clock
  <2>2. /\ up' \in BOOLEAN /\ healthy' \in [Procs -> BOOLEAN] /\ outages' \in Nat
        /\ outages' >= outages /\ RedisOnly'
    BY <2>1 DEF CacheIInv, Cache!TypeOK, RedisOnly
  <2> QED BY <2>1, <2>2, EnvironmentKeeps
<1>2. CASE Cache!Next
  BY <1>2, GetKeeps, ComputeKeeps, SetKeeps, ChangeKeeps, ForgetMemoryKeeps, ScanKeeps,
     SweepKeeps, NoticedKeeps, OutageKeeps, RecoverKeeps, TickKeeps DEF Cache!Next
<1> QED BY <1>1, <1>2

LEMMA CacheInvariance == Cache!Spec => []CacheIInv
  BY CacheInitIInv, CacheNextIInv, PTL DEF Cache!Spec

-----------------------------------------------------------------------------
(* Every variable keeps its type, for any tiers, keys and outages.         *)
THEOREM CacheTyping == Cache!Spec => []Cache!TypeOK
<1>1. CacheIInv => Cache!TypeOK
  BY DEF CacheIInv
<1> QED BY <1>1, CacheInvariance, PTL

(* A figure is served at most one lifetime and one factory run after the   *)
(* data it shows was superseded, for every lifetime and any outages.       *)
THEOREM StalenessIsBounded == Cache!Spec => []StalenessBounded
<1>1. ASSUME CacheIInv PROVE StalenessBounded
  <2> SUFFICES ASSUME NEW p \in Procs, served[p].value < version
               PROVE  served[p].at <= changedAt[served[p].value] + MaxFill + Ttl
    BY DEF StalenessBounded
  <2>1. served[p].value \in 1 .. Len(changedAt)
    BY <1>1, CacheStateTypes DEF CacheIInv, ServedBounded
  <2> QED BY <1>1, <2>1 DEF CacheIInv, ServedBounded, Superseded
<1> QED BY <1>1, CacheInvariance, PTL

(* While Redis has not failed, no read returns a version older than the    *)
(* last invalidation that met no fill guarantees.                           *)
THEOREM InvalidationHolds == Cache!Spec => InvalidationIsFinal
<1>1. ASSUME CacheIInv, Cache!Next PROVE NothingOlder
  <2>0. Cache!TypeOK /\ History /\ Floored /\ RedisOnly /\ served \in [Procs -> [value : Nat, at : Nat]]
    BY <1>1 DEF CacheIInv, Cache!TypeOK
  <2> SUFFICES ASSUME outages = 0, NEW p \in Procs, served'[p] # served[p]
               PROVE  served'[p].value >= floor
    BY DEF NothingOlder
  <2>1. \A q \in Procs : \A v : Cache!Serve(q, v) => (q = p /\ served'[p].value = v)
    BY <2>0 DEF Cache!Serve
  <2>2. \A q \in Procs : healthy[q] /\ up
    BY <2>0 DEF RedisOnly
  <2>3. CASE \E q \in Procs, k \in Keys : Cache!Get(q, k)
    <3>1. PICK q \in Procs, k \in Keys : Cache!Alive(redis[k]) /\ Cache!Serve(q, redis[k].value)
      BY <2>2, <2>3 DEF Cache!Get, Cache!Hit, Cache!Miss
    <3>2. redis[k].expires > 0
      BY <2>0, <3>1, CacheStateTypes DEF Cache!Alive, Cache!TypeOK
    <3> QED BY <2>0, <2>1, <3>1, <3>2 DEF Floored
  <2>4. CASE \E q \in Procs : Cache!Set(q)
    <3>1. PICK q \in Procs : Cache!At(q, "set") /\ Cache!Serve(q, proc[q].value)
      BY <2>4 DEF Cache!Set
    <3> QED BY <2>0, <2>1, <3>1 DEF Floored
  <2> QED BY <1>1, <2>3, <2>4
          DEF Cache!Next, Cache!Compute, Cache!Change, Cache!ForgetMemory, Cache!Scan,
          Cache!Sweep, Cache!Noticed, Cache!Outage, Cache!Recover, Cache!Tick
<1>2. CacheIInv /\ [Cache!Next]_Cache!vars => [NothingOlder]_served
  BY <1>1 DEF Cache!vars
<1> QED BY <1>2, CacheInvariance, PTL DEF Cache!Spec, InvalidationIsFinal
=============================================================================
