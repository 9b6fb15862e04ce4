--------------------------------- MODULE Media ---------------------------------
(***************************************************************************)
(* The team's logo: the chain of requests that the portal's page teams     *)
(* sends to replace it (apps/api/src/storage/storage.service.ts), and the  *)
(* clean-up that follows.  The object store is external; the job record    *)
(* that an upload leaves behind for image processing is left out: nothing  *)
(* reads it.                                                               *)
(***************************************************************************)
EXTENDS Rosters

VARIABLES
  team,       \* the Team row: its logo (0: none) and its version
  assets,     \* MediaAsset rows
  cleanups,   \* assets of the outbox events media.orphan-cleanup.requested
  worn        \* history: assets that were the logo

mediaVars == <<team, assets, cleanups, worn>>
beforeMedia == <<beforeRosters, rosterVars>>

\* A team may have a logo already.
MediaInit ==
  \E logo \in {0, 1} :
    /\ team = [logo |-> logo, version |-> 1 + logo]
    /\ assets = IF logo = 1 THEN <<"AVAILABLE">> ELSE <<>>
    /\ worn = DOMAIN assets
    /\ cleanups = {}

\* uploadLogo of the page teams: a chain of three requests and an upload for one asset,
\* the last with the version of the team that the page has loaded.
UploadLogo(user, asset) ==
  [op |-> "put", user |-> user, asset |-> asset, expected |-> team.version]

\* requestUpload, for the type and size of the file.
RequestUpload(r, user) ==
  /\ ListsTeam(user) /\ Len(assets) < MaxRows
  /\ Begin(r, user, "media", {"team"}, UploadLogo(user, Len(assets) + 1))
  /\ assets' = Append(assets, "PENDING_UPLOAD")
  /\ UNCHANGED <<beforeMedia, overtaken, team, cleanups, worn>>

\* The page puts the object and asks for its completion, which reads the asset and the
\* object's metadata: the object as it was announced, or another one.
CompleteRead(r, matches) ==
  /\ requests[r].op = "put"
  /\ HasPermission(requests[r].user, "media", {"team"})
  /\ assets[requests[r].asset] = "PENDING_UPLOAD"
  /\ Continue(r, [requests[r] EXCEPT !.op = IF matches THEN "complete" ELSE "reject"])
  /\ UNCHANGED <<beforeMedia, overtaken, mediaVars>>

RejectUpload(r) ==
  /\ requests[r].op = "reject"
  /\ assets' = [assets EXCEPT ![requests[r].asset] = "REJECTED"]
  /\ End(r)
  /\ UNCHANGED <<beforeMedia, overtaken, team, cleanups, worn>>

CompleteUpload(r) ==
  /\ requests[r].op = "complete"
  /\ assets' = [assets EXCEPT ![requests[r].asset] = "AVAILABLE"]
  /\ Continue(r, [requests[r] EXCEPT !.op = "logo"])
  /\ UNCHANGED <<beforeMedia, overtaken, team, cleanups, worn>>

\* replaceTeamLogo reads the team and the asset, and compares the version ...
ReplaceRead(r) ==
  /\ requests[r].op = "logo"
  /\ HasPermission(requests[r].user, "media", {"team"})
  /\ assets[requests[r].asset] = "AVAILABLE"
  /\ requests[r].expected = team.version
  /\ Continue(r, [op |-> "replace", asset |-> requests[r].asset, found |-> team.logo])
  /\ UNCHANGED <<beforeMedia, overtaken, mediaVars>>

\* Variant: the team is read after its update.
ReplacedByItself(r) == {requests[r].asset}

\* The logo that the request has found.
Replaced(r) == {requests[r].found} \ {0, requests[r].asset}

\* ... and updates the team by its id, whatever its logo is by now.
ReplaceTeamLogo(r) ==
  LET asset == requests[r].asset
  IN
  /\ requests[r].op = "replace"
  /\ team' = [logo |-> asset, version |-> team.version + 1]
  /\ assets' = [a \in DOMAIN assets |-> IF a \in Replaced(r) THEN "REPLACED" ELSE assets[a]]
  /\ cleanups' = cleanups \cup Replaced(r)
  /\ worn' = worn \cup {asset}
  /\ overtaken' = IF requests[r].found = team.logo THEN overtaken
                  ELSE overtaken \cup {<<"logo", team.logo>>}
  /\ End(r)
  /\ UNCHANGED beforeMedia

\* updateTeam: one statement, conditional on the version that the page shows.
UpdateTeam(user) ==
  /\ ListsTeam(user)
  /\ AtOnce(user, "team", {"team"})
  /\ team' = [team EXCEPT !.version = @ + 1]
  /\ UNCHANGED <<beforeMedia, overtaken, assets, cleanups, worn>>
-----------------------------------------------------------------------------
\* markMediaForSecureDeletion, a week later.
MarkForDeletion(a) ==
  /\ a \in cleanups
  /\ cleanups' = cleanups \ {a}
  /\ assets' = IF assets[a] = "REPLACED" THEN [assets EXCEPT ![a] = "DELETION_PENDING"] ELSE assets
  /\ UNCHANGED <<beforeMedia, requests, acts, overtaken, team, worn>>
=============================================================================
