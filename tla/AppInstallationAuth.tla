------------------------- MODULE AppInstallationAuth -------------------------
(***************************************************************************)
(* What the GitHub App round tripper promises its callers, with no locks:  *)
(* each request looks up its organisation's installation and then the      *)
(* installation's token in one atomic step each, the way a single caller   *)
(* would see the caches.                                                   *)
(*   - An installation is taken from the cache when it is there; only a    *)
(*     miss asks GitHub, whose whole list replaces the cache.              *)
(*   - A token is reused while it is fresh (more than a minute left); only *)
(*     a token that is absent or in its last minute is fetched, and GitHub *)
(*     issues one only for an installation it has.                         *)
(*   - Only a call to GitHub, or signing a JWT, can fail.                  *)
(* Every request that has started ends, sent or failed.                    *)
(***************************************************************************)
EXTENDS Naturals

CONSTANTS G, Orgs, Ids, NoId, NoOrg

VARIABLES
  phase,          \* phase[g]: "idle", "installation", "token", "auth", "send"
  org,            \* org[g]: the organisation of g's request, or NoOrg
  id,             \* id[g]: the installation found for it, or NoId
  installations,  \* the cached installation of each organisation
  tokens,         \* the cached token of each installation
  appSlug,        \* the app slug is cached
  github          \* GitHub's installation of the app in each organisation

avars == << phase, org, id, installations, tokens, appSlug, github >>

Init ==
  /\ phase = [g \in G |-> "idle"]
  /\ org = [g \in G |-> NoOrg]
  /\ id = [g \in G |-> NoId]
  /\ installations = [o \in Orgs |-> NoId]
  /\ tokens = [i \in Ids |-> "none"]
  /\ appSlug = FALSE
  /\ github \in [Orgs -> Ids \cup {NoId}]

Caches == << installations, tokens, appSlug, github >>

(* A request starts: one for an organisation needs its installation, an    *)
(* app request goes to signing, one for the empty organisation is refused. *)
Begin(g) ==
  /\ phase[g] = "idle"
  /\ \E o \in Orgs \cup {NoOrg} :
       /\ org' = [org EXCEPT ![g] = o]
       /\ \E p \in IF o = NoOrg THEN {"auth", "idle"} ELSE {"installation"} :
            phase' = [phase EXCEPT ![g] = p]
  /\ id' = [id EXCEPT ![g] = NoId]
  /\ UNCHANGED Caches

(* The installation, from the cache or from GitHub's list.                 *)
LookupInstallation(g) ==
  /\ phase[g] = "installation"
  /\ LET o == org[g] IN
     IF installations[o] # NoId
       THEN /\ id' = [id EXCEPT ![g] = installations[o]]
            /\ phase' = [phase EXCEPT ![g] = "token"]
            /\ UNCHANGED installations
       ELSE /\ installations' = github
            /\ IF github[o] = NoId
                 THEN phase' = [phase EXCEPT ![g] = "idle"] /\ UNCHANGED id
                 ELSE /\ id' = [id EXCEPT ![g] = github[o]]
                      /\ phase' = [phase EXCEPT ![g] = "token"]
  /\ UNCHANGED << org, tokens, appSlug, github >>

(* The token, reused while fresh or fetched for an installation GitHub has.*)
LookupToken(g) ==
  /\ phase[g] = "token"
  /\ \/ tokens[id[g]] = "fresh" /\ UNCHANGED tokens
     \/ /\ tokens[id[g]] # "fresh"
        /\ \E o \in Orgs : github[o] = id[g]
        /\ tokens' = [tokens EXCEPT ![id[g]] = "fresh"]
  /\ phase' = [phase EXCEPT ![g] = "auth"]
  /\ UNCHANGED << org, id, installations, appSlug, github >>

(* The JWT is signed and the slug, if needed, is cached.                   *)
Authorize(g) ==
  /\ phase[g] = "auth"
  /\ phase' = [phase EXCEPT ![g] = "send"]
  /\ appSlug' \in {appSlug, TRUE}
  /\ UNCHANGED << org, id, installations, tokens, github >>

Complete(g) ==
  /\ phase[g] = "send"
  /\ phase' = [phase EXCEPT ![g] = "idle"]
  /\ UNCHANGED << org, id, installations, tokens, appSlug, github >>

(* A GitHub call or the signing fails: on a cache miss, a token that is    *)
(* not fresh, or at signing and slug time.                                 *)
Fail(g) ==
  /\ \/ phase[g] = "installation" /\ installations[org[g]] = NoId
     \/ phase[g] = "token" /\ tokens[id[g]] # "fresh"
     \/ phase[g] = "auth"
  /\ phase' = [phase EXCEPT ![g] = "idle"]
  /\ UNCHANGED << org, id, installations, tokens, appSlug, github >>

Expire(i) ==
  /\ tokens[i] = "fresh"
  /\ tokens' = [tokens EXCEPT ![i] = "stale"]
  /\ UNCHANGED << phase, org, id, installations, appSlug, github >>

(* GitHub gives an organisation an installation id it never used.          *)
Reinstall(o) ==
  /\ \E i \in Ids :
       /\ i \notin { github[p] : p \in Orgs } \cup { installations[p] : p \in Orgs }
       /\ tokens[i] = "none"
       /\ github' = [github EXCEPT ![o] = i]
  /\ UNCHANGED << phase, org, id, installations, tokens, appSlug >>

Step(g) ==
  LookupInstallation(g) \/ LookupToken(g) \/ Authorize(g) \/ Complete(g) \/ Fail(g)

Next ==
  \/ \E g \in G : Begin(g) \/ Step(g)
  \/ \E i \in Ids : Expire(i)
  \/ \E o \in Orgs : Reinstall(o)

Spec == Init /\ [][Next]_avars /\ \A g \in G : WF_avars(Step(g))
=============================================================================
