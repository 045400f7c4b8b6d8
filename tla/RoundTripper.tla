---------------------------- MODULE RoundTripper ----------------------------
(***************************************************************************)
(* The GitHub App round tripper (pkg/github/roundtripper.go): goroutines   *)
(* that send requests through one appsRoundTripper share its three caches, *)
(* the installation of each organisation (installationLock, an            *)
(* RWMutex), the installation token of each installation (tokenLock, an   *)
(* RWMutex) and the app slug (appSlugLock, a Mutex).                       *)
(*                                                                         *)
(* Each goroutine's pc names the call it is about to make. A cache is read *)
(* between RLock and RUnlock; a miss takes the write lock, checks again,   *)
(* calls GitHub, stores and unlocks. The lock state is explicit so that a  *)
(* goroutine can block on a lock another one holds across a GitHub call.   *)
(* The GitHub client is an interface: each call may fail, and it answers   *)
(* from GitHub's current installations.                                    *)
(***************************************************************************)
EXTENDS Naturals, FiniteSets

CONSTANTS
  G,              \* goroutines calling RoundTrip
  Orgs,           \* organisations requests are made for
  Ids,            \* installation ids GitHub may hand out
  NoId,           \* no installation
  NoOrg,          \* the empty org of a request without one
  None,           \* no goroutine
  MaxRequests,    \* bound on RoundTrip calls
  MaxExpiries,    \* bound on tokens running into their last minute
  MaxReinstalls   \* bound on the app being reinstalled in an organisation

ASSUME NoId \notin Ids /\ None \notin G /\ NoOrg \notin Orgs

VARIABLES
  pc,             \* pc[g]: the step goroutine g takes next
  req,            \* req[g]: the request of g and what it found so far
  instLock,       \* installationLock: [w |-> writer or None, r |-> readers]
  tokLock,        \* tokenLock, likewise
  installations,  \* installations[o]: the cached installation id, or NoId
  tokens,         \* tokens[i]: "none", "fresh" or "stale" (in its last minute)
  appSlug,        \* appSlug is set
  github,         \* github[o]: GitHub's installation of the app in o, or NoId
  fetches,        \* fetches[i]: tokens getAppInstallationToken returned for i
  expiries,       \* expiries[i]: times the token of i went stale
  requests,       \* RoundTrip calls so far
  reinstalls      \* reinstalls so far

vars == << pc, req, instLock, tokLock, installations, tokens, appSlug,
           github, fetches, expiries, requests, reinstalls >>

Kinds == {"appRoot", "app", "org"}   \* path "/app", other JWT paths, the rest
Pcs == {"idle", "jwt", "instRLock", "instRead", "instLock", "instCheck",
        "tokRLock", "tokRead", "tokLock", "tokCheck", "slug", "send"}

Unlocked == [w |-> None, r |-> {}]

\* newAppsRoundTripper: empty caches; GitHub has some installations.
Init ==
  /\ pc = [g \in G |-> "idle"]
  /\ req = [g \in G |-> [kind |-> "org", org |-> NoOrg, id |-> NoId,
                         atStart |-> NoId, listed |-> NoId, err |-> "none"]]
  /\ instLock = Unlocked
  /\ tokLock = Unlocked
  /\ installations = [o \in Orgs |-> NoId]
  /\ tokens = [i \in Ids |-> "none"]
  /\ appSlug = FALSE
  /\ github \in { f \in [Orgs -> Ids \cup {NoId}] :
                    \A o1, o2 \in Orgs : f[o1] = f[o2] /\ f[o1] # NoId => o1 = o2 }
  /\ fetches = [i \in Ids |-> 0]
  /\ expiries = [i \in Ids |-> 0]
  /\ requests = 0
  /\ reinstalls = 0

-----------------------------------------------------------------------------
(* Helpers.                                                                *)

Goto(g, p) == pc' = [pc EXCEPT ![g] = p]

\* The request ends with an error (an appsAuthError, or "" when it was sent).
Fail(g, e) == /\ pc' = [pc EXCEPT ![g] = "idle"]
              /\ req' = [req EXCEPT ![g].err = e]

\* sync.RWMutex.RLock: blocks while a writer holds the lock or waits for
\* the readers to leave.
CanRLock(l, lockPc) ==
  /\ l.w = None
  /\ ~(l.r # {} /\ \E h \in G : pc[h] = lockPc)

UsedIds == { github[o] : o \in Orgs } \cup { installations[o] : o \in Orgs }

(* addAppInstallationAuth: an empty org is an error; otherwise             *)
(* installationTokenFor runs installationIDFor, then                      *)
(* getTokenForInstallation, and getSlug follows. The pc of the first step. *)
addAppInstallationAuth(o) == IF o = NoOrg THEN "idle" ELSE "instRLock"

-----------------------------------------------------------------------------
(* A client calls RoundTrip: the canonicalised path picks the JWT          *)
(* (addAppAuth) or the installation token (addAppInstallationAuth); an     *)
(* installation request without an org fails at once.                     *)
RoundTrip(g, k, o) ==
  /\ pc[g] = "idle"
  /\ requests < MaxRequests
  /\ requests' = requests + 1
  /\ req' = [req EXCEPT ![g] = [kind |-> k, org |-> o, id |-> NoId,
                                atStart |-> IF o = NoOrg THEN NoId ELSE github[o],
                                listed |-> NoId,
                                err |-> IF k = "org" /\ o = NoOrg THEN "auth"
                                                                ELSE "none"]]
  /\ Goto(g, IF k # "org" THEN "jwt" ELSE addAppInstallationAuth(o))
  /\ UNCHANGED << instLock, tokLock, installations, tokens, appSlug, github,
                  fetches, expiries, reinstalls >>

(* addAppAuth: signing the JWT may fail; the "/app" path is sent with the  *)
(* app id as budget id, others need the slug.                              *)
addAppAuth(g) ==
  /\ pc[g] = "jwt"
  /\ \E signed \in BOOLEAN :
       IF ~signed THEN Fail(g, "auth")
       ELSE /\ Goto(g, IF req[g].kind = "appRoot" THEN "send" ELSE "slug")
            /\ UNCHANGED req
  /\ UNCHANGED << instLock, tokLock, installations, tokens, appSlug, github,
                  fetches, expiries, requests, reinstalls >>

(* installationIDFor, under the read lock: RLock, then read the cache and  *)
(* RUnlock; a hit goes on to the token, a miss to the write lock.          *)
installationRLock(g) ==
  /\ pc[g] = "instRLock"
  /\ CanRLock(instLock, "instLock")
  /\ instLock' = [instLock EXCEPT !.r = @ \cup {g}]
  /\ Goto(g, "instRead")
  /\ UNCHANGED << req, tokLock, installations, tokens, appSlug, github,
                  fetches, expiries, requests, reinstalls >>

\* installationRead with RUnlock only on the miss path, kept as a mutant.
installationReadKeepsRLock(g) ==
  /\ pc[g] = "instRead"
  /\ LET id == installations[req[g].org] IN
       IF id # NoId
         THEN /\ req' = [req EXCEPT ![g].id = id]
              /\ Goto(g, "tokRLock")
              /\ UNCHANGED instLock
         ELSE /\ instLock' = [instLock EXCEPT !.r = @ \ {g}]
              /\ Goto(g, "instLock")
              /\ UNCHANGED req
  /\ UNCHANGED << tokLock, installations, tokens, appSlug, github,
                  fetches, expiries, requests, reinstalls >>

installationRead(g) ==
  /\ pc[g] = "instRead"
  /\ instLock' = [instLock EXCEPT !.r = @ \ {g}]
  /\ LET id == installations[req[g].org] IN
       IF id # NoId
         THEN /\ req' = [req EXCEPT ![g].id = id]
              /\ Goto(g, "tokRLock")
         ELSE /\ Goto(g, "instLock")
              /\ UNCHANGED req
  /\ UNCHANGED << tokLock, installations, tokens, appSlug, github,
                  fetches, expiries, requests, reinstalls >>

\* sync.RWMutex.Lock: waits until no writer and no reader holds the lock.
installationLock(g) ==
  /\ pc[g] = "instLock"
  /\ instLock = Unlocked
  /\ instLock' = [instLock EXCEPT !.w = g]
  /\ Goto(g, "instCheck")
  /\ UNCHANGED << req, tokLock, installations, tokens, appSlug, github,
                  fetches, expiries, requests, reinstalls >>

\* installationCheck without the second look at the cache, kept as a mutant.
installationCheckNoRecheck(g) ==
  /\ pc[g] = "instCheck"
  /\ instLock' = Unlocked
  /\ LET o == req[g].org IN
     \E listOk \in BOOLEAN :
              IF ~listOk THEN Fail(g, "github") /\ UNCHANGED installations
              ELSE LET listed == github
                       unchanged == installations = listed IN
                   /\ installations' = listed
                   /\ IF unchanged \/ listed[o] = NoId
                        THEN /\ pc' = [pc EXCEPT ![g] = "idle"]
                             /\ req' = [req EXCEPT ![g].err = "notInstalled",
                                                   ![g].listed = listed[o]]
                        ELSE /\ req' = [req EXCEPT ![g].id = listed[o],
                                                   ![g].listed = listed[o]]
                             /\ Goto(g, "tokRLock")
  /\ UNCHANGED << tokLock, tokens, appSlug, github,
                  fetches, expiries, requests, reinstalls >>

(* installationIDFor, under the write lock until the deferred Unlock:      *)
(* check again; ListAppInstallations (may fail); a list DeepEqual to the   *)
(* cache means not installed; otherwise the list replaces the cache and is *)
(* looked up. req.listed keeps what GitHub listed for the org.             *)
installationCheck(g) ==
  /\ pc[g] = "instCheck"
  /\ instLock' = Unlocked
  /\ LET o == req[g].org IN
     IF installations[o] # NoId
       THEN /\ req' = [req EXCEPT ![g].id = installations[o]]
            /\ Goto(g, "tokRLock")
            /\ UNCHANGED installations
       ELSE \E listOk \in BOOLEAN :
              IF ~listOk THEN Fail(g, "github") /\ UNCHANGED installations
              ELSE LET listed == github
                       unchanged == installations = listed IN
                   /\ installations' = listed
                   /\ IF unchanged \/ listed[o] = NoId
                        THEN /\ pc' = [pc EXCEPT ![g] = "idle"]
                             /\ req' = [req EXCEPT ![g].err = "notInstalled",
                                                   ![g].listed = listed[o]]
                        ELSE /\ req' = [req EXCEPT ![g].id = listed[o],
                                                   ![g].listed = listed[o]]
                             /\ Goto(g, "tokRLock")
  /\ UNCHANGED << tokLock, tokens, appSlug, github,
                  fetches, expiries, requests, reinstalls >>

(* getTokenForInstallation, under the read lock: a cached token with more  *)
(* than a minute left is used, anything else takes the write lock.         *)
tokenRLock(g) ==
  /\ pc[g] = "tokRLock"
  /\ CanRLock(tokLock, "tokLock")
  /\ tokLock' = [tokLock EXCEPT !.r = @ \cup {g}]
  /\ Goto(g, "tokRead")
  /\ UNCHANGED << req, instLock, installations, tokens, appSlug, github,
                  fetches, expiries, requests, reinstalls >>

\* tokenRead accepting a token in its last minute, kept as a mutant.
tokenReadNoMargin(g) ==
  /\ pc[g] = "tokRead"
  /\ tokLock' = [tokLock EXCEPT !.r = @ \ {g}]
  /\ Goto(g, IF tokens[req[g].id] # "none" THEN "slug" ELSE "tokLock")
  /\ UNCHANGED << req, instLock, installations, tokens, appSlug, github,
                  fetches, expiries, requests, reinstalls >>

tokenRead(g) ==
  /\ pc[g] = "tokRead"
  /\ tokLock' = [tokLock EXCEPT !.r = @ \ {g}]
  /\ Goto(g, IF tokens[req[g].id] = "fresh" THEN "slug" ELSE "tokLock")
  /\ UNCHANGED << req, instLock, installations, tokens, appSlug, github,
                  fetches, expiries, requests, reinstalls >>

tokenLock(g) ==
  /\ pc[g] = "tokLock"
  /\ tokLock = Unlocked
  /\ tokLock' = [tokLock EXCEPT !.w = g]
  /\ Goto(g, "tokCheck")
  /\ UNCHANGED << req, instLock, installations, tokens, appSlug, github,
                  fetches, expiries, requests, reinstalls >>

(* getAppInstallationToken: GitHub issues a token only for an installation *)
(* it has, and the call may fail.                                          *)
getAppInstallationToken(i) ==
  \E ok \in BOOLEAN : ok /\ \E o \in Orgs : github[o] = i

\* tokenCheck without the second look at the cache, kept as a mutant.
tokenCheckNoRecheck(g) ==
  /\ pc[g] = "tokCheck"
  /\ tokLock' = Unlocked
  /\ LET i == req[g].id IN
     IF getAppInstallationToken(i)
         THEN /\ tokens' = [tokens EXCEPT ![i] = "fresh"]
              /\ fetches' = [fetches EXCEPT ![i] = @ + 1]
              /\ Goto(g, "slug")
              /\ UNCHANGED req
         ELSE Fail(g, "github") /\ UNCHANGED << tokens, fetches >>
  /\ UNCHANGED << instLock, installations, appSlug, github,
                  expiries, requests, reinstalls >>

(* getTokenForInstallation, under the write lock until the deferred        *)
(* Unlock: check again; otherwise fetch a token and store it.              *)
tokenCheck(g) ==
  /\ pc[g] = "tokCheck"
  /\ tokLock' = Unlocked
  /\ LET i == req[g].id IN
     IF tokens[i] = "fresh"
       THEN Goto(g, "slug") /\ UNCHANGED << req, tokens, fetches >>
       ELSE IF getAppInstallationToken(i)
         THEN /\ tokens' = [tokens EXCEPT ![i] = "fresh"]
              /\ fetches' = [fetches EXCEPT ![i] = @ + 1]
              /\ Goto(g, "slug")
              /\ UNCHANGED req
         ELSE Fail(g, "github") /\ UNCHANGED << tokens, fetches >>
  /\ UNCHANGED << instLock, installations, appSlug, github,
                  expiries, requests, reinstalls >>

(* getSlug, under appSlugLock: the cached slug, or GetApp (may fail),      *)
(* stored. addAppAuth and addAppInstallationAuth fail with its error.      *)
getSlug(g) ==
  /\ pc[g] = "slug"
  /\ IF appSlug
       THEN Goto(g, "send") /\ UNCHANGED << req, appSlug >>
       ELSE \E ok \in BOOLEAN :
              IF ok THEN appSlug' = TRUE /\ Goto(g, "send") /\ UNCHANGED req
                    ELSE Fail(g, "github") /\ UNCHANGED appSlug
  /\ UNCHANGED << instLock, tokLock, installations, tokens, github,
                  fetches, expiries, requests, reinstalls >>

(* arr.upstream.RoundTrip sends the request with its headers.              *)
Send(g) ==
  /\ pc[g] = "send"
  /\ Goto(g, "idle")
  /\ UNCHANGED << req, instLock, tokLock, installations, tokens, appSlug,
                  github, fetches, expiries, requests, reinstalls >>

-----------------------------------------------------------------------------
(* GitHub and time.                                                        *)

(* A cached token enters its last minute.                                  *)
Expire(i) ==
  /\ tokens[i] = "fresh"
  /\ expiries[i] < MaxExpiries
  /\ tokens' = [tokens EXCEPT ![i] = "stale"]
  /\ expiries' = [expiries EXCEPT ![i] = @ + 1]
  /\ UNCHANGED << pc, req, instLock, tokLock, installations, appSlug, github,
                  fetches, requests, reinstalls >>

(* The app is installed again in an organisation: GitHub gives the new     *)
(* installation an id it never used.                                       *)
Reinstall(o) ==
  /\ reinstalls < MaxReinstalls
  /\ reinstalls' = reinstalls + 1
  /\ \E i \in Ids : /\ i \notin UsedIds
                    /\ tokens[i] = "none"
                    /\ github' = [github EXCEPT ![o] = i]
  /\ UNCHANGED << pc, req, instLock, tokLock, installations, tokens, appSlug,
                  fetches, expiries, requests >>

\* The steps of goroutine g once its request has started.
Step(g) ==
  \/ addAppAuth(g)
  \/ installationRLock(g) \/ installationRead(g)
  \/ installationLock(g) \/ installationCheck(g)
  \/ tokenRLock(g) \/ tokenRead(g) \/ tokenLock(g) \/ tokenCheck(g)
  \/ getSlug(g)
  \/ Send(g)

Next ==
  \/ \E g \in G, k \in Kinds, o \in Orgs \cup {NoOrg} :
        /\ (k # "org" => o = NoOrg)
        /\ RoundTrip(g, k, o)
  \/ \E g \in G : Step(g)
  \/ \E i \in Ids : Expire(i)
  \/ \E o \in Orgs : Reinstall(o)

(* The Go scheduler runs every runnable goroutine, and a goroutine blocked *)
(* on a lock runs once the lock is free. Clients and GitHub need not act.  *)
Spec == Init /\ [][Next]_vars /\ \A g \in G : WF_vars(Step(g))

-----------------------------------------------------------------------------
(* Properties.                                                             *)

(* Goroutines that miss the token cache together fetch one token between  *)
(* them: getTokenForInstallation checks the cache again under the write    *)
(* lock, so GitHub issues at most one token per installation until that    *)
(* token enters its last minute.                                           *)
TokenFetchedOncePerEpoch ==
  \A i \in Ids : fetches[i] <= expiries[i] + 1

(* installationIDFor reports "not installed" only for an organisation the  *)
(* list from GitHub lacks, also when another goroutine filled the cache    *)
(* while this one waited for the write lock (the DeepEqual shortcut is     *)
(* only right after the second check).                                     *)
NotInstalledOnlyWhenAbsent ==
  \A g \in G : req[g].err = "notInstalled" => req[g].listed = NoId

(* Every RoundTrip call returns: no goroutine waits forever on             *)
(* installationLock or tokenLock.                                          *)
RequestsComplete ==
  \A g \in G : pc[g] # "idle" ~> pc[g] = "idle"

(* A request is sent with a token of the organisation's current            *)
(* installation, unless the app was reinstalled while it was in flight.    *)
TokenOfCurrentInstallation ==
  \A g \in G :
     (pc[g] = "send" /\ req[g].kind = "org" /\ github[req[g].org] = req[g].atStart)
        => req[g].id = req[g].atStart

(* The phase of a goroutine's request, as AppInstallationAuth sees it.     *)
Phase(g) ==
  CASE pc[g] \in {"instRLock", "instRead", "instLock", "instCheck"} -> "installation"
    [] pc[g] \in {"tokRLock", "tokRead", "tokLock", "tokCheck"}     -> "token"
    [] pc[g] \in {"jwt", "slug"}                                    -> "auth"
    [] OTHER                                                       -> pc[g]

Auth == INSTANCE AppInstallationAuth
          WITH phase <- [g \in G |-> Phase(g)],
               org   <- [g \in G |-> req[g].org],
               id    <- [g \in G |-> req[g].id]

(* With its locks, the round tripper behaves as if each cache lookup were  *)
(* one atomic step: an installation is listed only on a miss, a token is   *)
(* fetched only when the cached one is absent or in its last minute and    *)
(* reused only while fresh, and every request ends.                        *)
AuthRefined == Auth!Spec
====
