------------------------- MODULE LinkedRepositories -------------------------
(***************************************************************************)
(* The GitHub repositories linked to a project, and the answers of GitHub  *)
(* about them, which one API process keeps for a while.                    *)
(***************************************************************************)
EXTENDS ApiRequests

CONSTANTS
  GithubRepos,
  GithubUsers,   \* users who have connected a GitHub account
  Ttl,           \* how long an answer is kept
  MaxTime        \* bound: time passes up to here

ASSUME RepositoriesAssumption == Ttl \in Nat /\ MaxTime \in Nat

VARIABLES
  linked,     \* ProjectRepository rows: the repository each links
  onGithub,   \* the repositories that exist on GitHub
  cache,      \* cache[i]: when the answer about row i that is kept expires
  clock

repositoryVars == <<linked, onGithub, cache, clock>>

RepositoriesInit ==
  /\ linked \in [FirstRow({"repositories"}) -> GithubRepos]
  /\ onGithub = GithubRepos
  /\ cache = [i \in {} |-> None]
  /\ clock = 0

RepositoriesTypeOK ==
  /\ RowsOf(linked, GithubRepos)
  /\ onGithub \subseteq GithubRepos
  /\ RowsOf(cache, Nat)
  /\ clock \in 0 .. MaxTime

AcceptRepositoryRequest(r) ==
  /\ area = "repositories"
  /\ \E u \in Users :
       \/ \E g \in GithubRepos : Accept(r, u, Managers, "linkRepository", g)
       \/ \E i \in DOMAIN linked, o \in {"unlinkRepository", "refreshRepository"} :
            Accept(r, u, Managers, o, i)
       \/ \E i \in DOMAIN linked : Accept(r, u, Everybody, "readRepository", i)
  /\ UNCHANGED repositoryVars

Tick ==
  /\ area = "repositories"
  /\ clock < MaxTime
  /\ clock' = clock + 1
  /\ UNCHANGED <<baseVars, linked, onGithub, cache>>

\* A repository is deleted on GitHub.
DeleteOnGithub(g) ==
  /\ area = "repositories"
  /\ onGithub' = onGithub \ {g}
  /\ UNCHANGED <<baseVars, linked, cache, clock>>

EnsureLinkedRow(r) ==
  /\ at[r] = "accepted"
  /\ ctx[r].op \in {"unlinkRepository", "refreshRepository", "readRepository"}
  /\ ctx[r].what \in DOMAIN linked
  /\ Goto(r, "row", linked[ctx[r].what])
  /\ UNCHANGED <<projectVars, repositoryVars>>

\* The caller's GitHub account; a request to link needs no row before it.
CreateOctokitForUser(r) ==
  /\ \/ On(r, "linkRepository", "accepted")
     \/ at[r] = "row" /\ ctx[r].op \in {"refreshRepository", "readRepository"}
  /\ ctx[r].by \in GithubUsers
  /\ Goto(r, "octokit", IF ctx[r].op = "linkRepository" THEN ctx[r].what ELSE ctx[r].seen)
  /\ UNCHANGED <<projectVars, repositoryVars>>

GetFromGithub(r) ==
  /\ at[r] = "octokit" /\ ctx[r].op \in {"linkRepository", "refreshRepository"}
  /\ ctx[r].seen \in onGithub
  /\ Goto(r, "got", ctx[r].seen)
  /\ UNCHANGED <<projectVars, repositoryVars>>

\* The database keeps the links of a project to one repository to one.
LinkRepository(r) ==
  /\ On(r, "linkRepository", "got")
  /\ project = "live"
  /\ ctx[r].seen \notin Range(linked)
  /\ linked' = Put(linked, r, ctx[r].seen)
  /\ Write(r, "done")
  /\ UNCHANGED <<projectVars, onGithub, cache, clock>>

UnlinkRepository(r) ==
  /\ On(r, "unlinkRepository", "row")
  /\ ctx[r].what \in DOMAIN linked
  /\ linked' = Drop(linked, ctx[r].what)
  /\ Write(r, "done")
  /\ UNCHANGED <<projectVars, onGithub, cache, clock>>

\* The row is written anew; answers that are kept stay.
RefreshRepository(r) ==
  /\ On(r, "refreshRepository", "got")
  /\ ctx[r].what \in DOMAIN linked
  /\ Write(r, "done")
  /\ UNCHANGED <<projectVars, repositoryVars>>

\* TtlCache.get.
Kept(i) == i \in DOMAIN cache /\ clock <= cache[i]

\* An answer that is kept is given without asking GitHub.
Serve(r) ==
  /\ On(r, "readRepository", "octokit")
  /\ Kept(ctx[r].what)
  /\ End(r)
  /\ UNCHANGED <<projectVars, repositoryVars>>

\* GitHub answers; an answer that has expired is dropped.
Fetch(r) ==
  /\ On(r, "readRepository", "octokit")
  /\ ~Kept(ctx[r].what)
  /\ ctx[r].seen \in onGithub
  /\ cache' = Drop(cache, ctx[r].what)
  /\ Goto(r, "fetched", None)
  /\ UNCHANGED <<projectVars, linked, onGithub, clock>>

\* TtlCache.set.
Keep(r) ==
  /\ On(r, "readRepository", "fetched")
  /\ cache' = Put(cache, ctx[r].what, clock + Ttl)
  /\ End(r)
  /\ UNCHANGED <<projectVars, linked, onGithub, clock>>

RepositoryStep(r) ==
  \/ AcceptRepositoryRequest(r) \/ EnsureLinkedRow(r) \/ CreateOctokitForUser(r)
  \/ GetFromGithub(r) \/ LinkRepository(r) \/ UnlinkRepository(r)
  \/ RefreshRepository(r) \/ Serve(r) \/ Fetch(r) \/ Keep(r)
=============================================================================
