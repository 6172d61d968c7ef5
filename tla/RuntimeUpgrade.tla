---------------------------- MODULE RuntimeUpgrade ----------------------------
(***************************************************************************)
(* Runtime upgrades as the client follows them: onRuntimeUpgrade() of      *)
(* V2Client.ts listens to the best blocks and fetches new metadata when    *)
(* their runtime changes; setupMetadata() of BaseSubstrateClient.ts keeps  *)
(* it, in memory and in the local cache.  The best chain may change to a   *)
(* fork with the former runtime: upgrades overlap and go back.             *)
(***************************************************************************)
EXTENDS Integers

CONSTANTS Versions,    \* the spec versions
          MaxUpgrades, \* bound: the changes of the runtime
          NoVersion    \* nothing is stored, nothing was asked

ASSUME NoVersionAssumption == NoVersion \notin Versions

VARIABLES bestRuntime, \* the runtime of the best block
          client,      \* the fields of the client
          fetches,     \* the calls of onRuntimeUpgrade() that fetch
          disorder     \* history: a fetch failed, or ended before an earlier one

upgradeVars == <<bestRuntime, client, fetches, disorder>>

UpgradeInit ==
    /\ bestRuntime \in Versions
    /\ client = [version   |-> bestRuntime, \* _runtimeVersion
                 metadata  |-> bestRuntime, \* the version _metadata is of
                 stored    |-> [v \in Versions |-> NoVersion], \* _localCache
                 upgrades  |-> 0]           \* how many were started
    /\ fetches = {}
    /\ disorder = FALSE

HearsLate(version) == \* mutant: the version is taken over without a fetch, when one is under way
    /\ bestRuntime' = version
    /\ IF version = client.version
       THEN UNCHANGED <<client, fetches>>
       ELSE /\ client' = [client EXCEPT !.version = version,
                                        !.upgrades = @ + 1]
            /\ fetches' = IF fetches # {} THEN fetches
                          ELSE {[id |-> client.upgrades + 1, got |-> NoVersion]}
    /\ UNCHANGED disorder

\* The listener of 'bestBlock': the new version, and the
\* first request of fetchMetadata().
UpgradeHears(version) ==
    /\ bestRuntime' = version
    /\ IF version = client.version
       THEN UNCHANGED <<client, fetches>>
       ELSE /\ client' = [client EXCEPT !.version = version,
                                        !.upgrades = @ + 1]
            /\ fetches' = fetches \cup {[id |-> client.upgrades + 1, got |-> NoVersion]}
    /\ UNCHANGED disorder

\* A request is answered without the metadata: with the metadata versions, with
\* none for one of them, with an error.  The next one, for the next version and
\* at last for that of old runtimes, is made at the block that is the best by
\* then.
NextRequest(fetch) ==
    /\ fetches' = (fetches \ {fetch}) \cup {[fetch EXCEPT !.got = bestRuntime]}
    /\ UNCHANGED <<bestRuntime, client, disorder>>

\* The metadata is there: it is stored under the version the client has now,
\* which need not be the one it was fetched for, and used.
MetadataAnswered(fetch) ==
    /\ fetch.got # NoVersion
    /\ client' = [client EXCEPT !.stored[client.version] = fetch.got,
                                !.metadata = fetch.got]
    /\ fetches' = fetches \ {fetch}
    /\ disorder' = (disorder \/ \E other \in fetches : other.id < fetch.id)
    /\ UNCHANGED bestRuntime

\* Every way to fetch the metadata failed: the listener ends with an error and
\* the upgrade is never done.
FetchFails(fetch) ==
    /\ fetches' = fetches \ {fetch}
    /\ disorder' = TRUE
    /\ UNCHANGED <<bestRuntime, client>>

UpgradeNext ==
    \E fetch \in fetches : NextRequest(fetch) \/ MetadataAnswered(fetch) \/ FetchFails(fetch)

----------------------------------------------------------------------------
(***************************************************************************)
(* Properties.                                                             *)
(***************************************************************************)

\* Upgrades that follow each other closely, and those a fork takes back, leave
\* the client with the metadata of the runtime of the best block, and so does
\* its cache under that runtime, once no fetch is under way.  It takes that
\* fetches end in the order they began in and none fails: nothing in the code
\* sees to either.
MetadataFollows ==
    fetches = {} /\ ~disorder =>
        /\ client.version = bestRuntime
        /\ client.metadata = bestRuntime
        /\ client.stored[bestRuntime] \in {bestRuntime, NoVersion}
=============================================================================
