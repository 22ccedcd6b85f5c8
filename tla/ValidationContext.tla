------------------------- MODULE ValidationContext -------------------------
(***************************************************************************)
(* What the calls of a process share.  A validation context caches the     *)
(* keys, the installed packs and what is opened from them, and asks the    *)
(* provider of the application for a file only when it has to; a sandbox   *)
(* owns a context of its own.  The random sequence of the game and the     *)
(* rounding mode are the process's: a validation and the ticks of a        *)
(* sandbox run in a scope that sets both and puts the caller's back,       *)
(* however the call ends.  Blocks whose mobil is left to chance draw from  *)
(* the sequence when the map of a replay is built.                         *)
(*                                                                         *)
(* An asset repository is cached before it has decoded anything: the first *)
(* map that needs it opens its pack and makes its stores, and it stays as  *)
(* that call leaves it.                                                    *)
(*                                                                         *)
(* The calls of one thread are modelled, one after another.  The sequence  *)
(* has the period 2^32; its states are given by their positions in it.     *)
(***************************************************************************)
EXTENDS Integers, Sequences, FiniteSets, Functions

CONSTANTS
    Contexts,   \* validation contexts
    Sandboxes,
    Replays,
    Routes,     \* of every replay, the entries its route needs, in order
    Blocks,     \* of every replay, the number of mobils of each automatic block
    Randoms,    \* the values of the sequence, from the position 0 on
    RandomRange,    \* one more than the greatest of them (2^15 in the code)
    Roundings,  \* rounding modes
    Nearest,    \* FE_TONEAREST
    MaxRequests,    \* bound on the replays of a batch
    MaxCalls,   \* bound on the calls
    MaxFaults   \* bound on the faults

Owners == Contexts \cup Sandboxes

ASSUME ContextAssumption ==
    /\ Nearest \in Roundings
    /\ DOMAIN Routes = Replays
    \* the first entry of a route is the repository of the map
    /\ \A r \in Replays : 1 \in DOMAIN Routes[r] /\ Routes[r][1].kind = "repository"
    /\ \A r \in Replays : Blocks[r] \in Seq(Nat)
    /\ {MaxRequests, MaxCalls, MaxFaults} \subseteq Nat

VARIABLES
    keys,       \* the owners with packKeys
    packs,      \* installedPacks, by owner: names, and if they can be decoded
    opened,     \* assetRepositories and vehicleAssets, by owner
    packReady,  \* by owner, its repositories that have opened their pack
    stores,     \* by owner, what they have made since, <<repository, store>>
    struck,     \* <<owner, repository>> where memory ran out while it did
    random,     \* the position of the random sequence
    rounding,   \* the rounding mode
    scope,      \* what the open scope has saved: a set of at most one
    call,       \* the call in progress
    pending,    \* the requests of the batch that follow it
    report,     \* how the last call ended
    sandboxes,  \* the replay and the map of every sandbox
    snapshots,  \* states captured: a set of at most one
    calls, faults

repositories == <<packReady, stores, struck>>
caches == <<keys, packs, opened, repositories>>
process == <<random, rounding, scope>>
vars == <<caches, process, call, pending, report, sandboxes, snapshots, calls, faults>>

-----------------------------------------------------------------------------
\* GetVariantIndex: a block with one mobil does not draw.
Draws(mobils) == mobils > 1

\* RandNat(0, mobils - 1)
Mobil(position, mobils) ==
    IF Draws(mobils) THEN (Randoms[position] * mobils) \div RandomRange ELSE 0

\* The number of draws of the first n blocks of replay r.
Drawn(r, n) == Cardinality({i \in 1..n : Draws(Blocks[r][i])})

\* The map of a replay as a process builds it that has drawn nothing yet.
FirstMap(r) == [i \in DOMAIN Blocks[r] |-> Mobil(Drawn(r, i - 1), Blocks[r][i])]

NoSandbox == [replay |-> "none", map |-> <<>>]

\* A call: how far it is, the route entries prepared, the mobils chosen, and
\* the state of the process it was called in.
Idle == [kind |-> "none"]
Called(kind, owner, r, stage) ==
    [kind |-> kind, owner |-> owner, replay |-> r, stage |-> stage, ready |-> 0,
     map |-> <<>>, random |-> random, rounding |-> rounding]

NoReport == [call |-> Idle, result |-> "None", rounding |-> Nearest]

Init ==
    /\ keys = {}
    /\ packs = [o \in Owners |-> {}]
    /\ opened = [o \in Owners |-> {}]
    /\ packReady = [o \in Owners |-> {}]
    /\ stores = [o \in Owners |-> {}]
    /\ struck = {}
    /\ random = 0 /\ rounding = Nearest /\ scope = {}
    /\ call = Idle /\ pending = <<>>
    /\ report = NoReport
    /\ sandboxes = [s \in Sandboxes |-> NoSandbox]
    /\ snapshots = {}
    /\ calls = 0 /\ faults = 0

-----------------------------------------------------------------------------
(* DeterministicExecutionScope and the ends of a call.                     *)

(* Mutant: the sequence is not reset. *)
OpenWithoutReset ==
    /\ scope = {}
    /\ scope' = {[random |-> random, rounding |-> rounding]}
    /\ rounding' = Nearest
    /\ UNCHANGED random

\* A scope within a scope is refused.
Open ==
    /\ scope = {}
    /\ scope' = {[random |-> random, rounding |-> rounding]}
    /\ rounding' = Nearest
    /\ random' = 0

(* Mutant: the sequence stays where the call has brought it. *)
CloseKeepingSequence ==
    /\ scope' = {}
    /\ UNCHANGED random
    /\ IF scope = {} THEN UNCHANGED rounding
       ELSE \E saved \in scope : rounding' = saved.rounding

\* Restore, called or by the destructor.
Close ==
    /\ scope' = {}
    /\ IF scope = {} THEN UNCHANGED <<random, rounding>>
       ELSE \E saved \in scope : random' = saved.random /\ rounding' = saved.rounding

Ends(result) ==
    /\ call' = Idle
    /\ report' = [call |-> call, result |-> result, rounding |-> rounding]
    /\ Close

\* The provider, an allocation, a decoder or the physics fails the call.
FailsByFault ==
    /\ faults < MaxFaults
    /\ faults' = faults + 1
    /\ Ends("Fault")

Fault ==
    /\ call # Idle
    /\ FailsByFault
    /\ UNCHANGED <<caches, pending, sandboxes, snapshots, calls>>

Begins == call = Idle /\ pending = <<>> /\ calls < MaxCalls /\ calls' = calls + 1

-----------------------------------------------------------------------------
(* ValidateReplay, alone or for one request of a batch after another.      *)
Validate(context, r) ==
    /\ call' = Called("validate", context, r, "assets")
    /\ Open
    /\ UNCHANGED <<caches, report, sandboxes, snapshots, faults>>

ValidateReplayBatch(context, requests) ==
    /\ Begins
    /\ Validate(context, Head(requests))
    /\ pending' = Tail(requests)

NextRequest ==
    /\ call = Idle /\ pending # <<>>
    /\ Validate(report.call.owner, Head(pending))
    /\ pending' = Tail(pending)
    /\ UNCHANGED calls

(* PrepareAssets: an entry is opened from a cached pack, a pack is read     *)
(* with the cached keys.  What a call has cached stays when it fails.      *)
Route == Routes[call.replay]
Needed == Route[call.ready + 1]
Preparing == call # Idle /\ call.stage = "assets" /\ call.ready < Len(Route)
Missing == Preparing /\ Needed \notin opened[call.owner]
Installed == {p \in packs[call.owner] : p.name = Needed.pack}

PreparePackKeys ==
    /\ Missing
    /\ Installed = {} /\ call.owner \notin keys
    /\ keys' = keys \cup {call.owner}
    /\ UNCHANGED <<packs, opened, repositories, process, call, pending, report,
                   sandboxes, snapshots, calls, faults>>

(* Mutant: the pack is cached before it is known to be decodable. *)
CachedUnprobed(pack) == {pack}

\* The probe of a pack opens it once before it is cached.
Cached(pack) == IF pack.valid THEN {pack} ELSE {}

PrepareInstalledPack(valid) ==
    /\ Missing
    /\ Installed = {} /\ call.owner \in keys
    /\ LET pack == [name |-> Needed.pack, valid |-> valid]
       IN packs' = [packs EXCEPT ![call.owner] = @ \cup Cached(pack)]
    /\ IF valid THEN UNCHANGED <<process, call, report, faults>> ELSE FailsByFault
    /\ UNCHANGED <<keys, opened, repositories, pending, sandboxes, snapshots, calls>>

\* PreparePackAssets, which only configures the repository, and
\* PrepareVehicleAssets, which decodes the vehicle before it is cached.
OpenEntry ==
    /\ Missing
    /\ \E pack \in Installed :
        IF pack.valid
        THEN /\ opened' = [opened EXCEPT ![call.owner] = @ \cup {Needed}]
             /\ UNCHANGED <<process, call, report>>
        ELSE Ends("Failure") /\ UNCHANGED opened
    /\ UNCHANGED <<keys, packs, repositories, pending, sandboxes, snapshots, calls,
                   faults>>

UseEntry ==
    /\ Preparing
    /\ Needed \in opened[call.owner]
    /\ call' = [call EXCEPT !.ready = @ + 1]
    /\ UNCHANGED <<caches, process, pending, report, sandboxes, snapshots, calls, faults>>

AssetsPrepared ==
    /\ call # Idle /\ call.stage = "assets" /\ call.ready = Len(Route)
    /\ call' = [call EXCEPT !.stage = "map"]
    /\ UNCHANGED <<caches, process, pending, report, sandboxes, snapshots, calls, faults>>

-----------------------------------------------------------------------------
(* Preload: the repositories are filled, then the mobils of the blocks are *)
(* chosen one after another, then the static scene is made of their solids. *)
Building == call # Idle /\ call.stage = "map"

Repositories(r) == {e \in Range(Routes[r]) : e.kind = "repository"}
MapAssets == Route[1]
Unready == Repositories(call.replay) \ packReady[call.owner]
Made(repository, store) == <<repository, store>> \in stores[call.owner]

\* The stores EnsurePack makes; it may run out of memory at either.
AllStores == {"blockInfos", "materials"}
Partial == {{}, {"blockInfos"}, AllStores}

\* The pack counts as ready before the stores are made, so that what is not
\* made now is not made later.  The map's catalog is asked for first.
EnsurePack(repository, made) ==
    /\ Building
    /\ repository \in Unready
    /\ repository = MapAssets \/ Made(MapAssets, "blockInfos")
    /\ packReady' = [packReady EXCEPT ![call.owner] = @ \cup {repository}]
    /\ stores' = [stores EXCEPT ![call.owner] = @ \cup ({repository} \X made)]
    /\ IF made = AllStores THEN UNCHANGED <<struck, process, call, report, faults>>
       ELSE FailsByFault /\ struck' = struck \cup {<<call.owner, repository>>}
    /\ UNCHANGED <<keys, packs, opened, pending, sandboxes, snapshots, calls>>

MapChosen == Len(call.map) = Len(Blocks[call.replay])

\* Without its block infos a repository has no catalog, without its materials
\* the solids of the scene, of the map or of the decoration, are refused.
AssetsUnavailable ==
    /\ Building
    /\ \/ MapAssets \notin Unready /\ ~Made(MapAssets, "blockInfos")
       \/ /\ Unready = {} /\ MapChosen
          /\ \E e \in Repositories(call.replay) : ~Made(e, "materials")
    /\ Ends("Failure")
    /\ UNCHANGED <<caches, pending, sandboxes, snapshots, calls, faults>>

CreateBlockMobil ==
    /\ Building
    /\ Unready = {} /\ Made(MapAssets, "blockInfos")
    /\ Len(call.map) < Len(Blocks[call.replay])
    /\ LET mobils == Blocks[call.replay][Len(call.map) + 1]
       IN /\ call' = [call EXCEPT !.map = Append(@, Mobil(random, mobils))]
          /\ random' = IF Draws(mobils) THEN random + 1 ELSE random
    /\ UNCHANGED <<caches, rounding, scope, pending, report, sandboxes, snapshots, calls,
                   faults>>

\* A validation runs in the scope it has; a load installs the new scenario and
\* opens one for its Restart.
MapBuilt ==
    /\ Building
    /\ MapChosen
    /\ \A e \in Repositories(call.replay) : \A store \in AllStores : Made(e, store)
    /\ call' = [call EXCEPT !.stage = "run"]
    /\ IF call.kind = "load"
       THEN /\ sandboxes' = [sandboxes EXCEPT ![call.owner] =
                                [replay |-> call.replay, map |-> call.map]]
            /\ Open
       ELSE UNCHANGED <<sandboxes, process>>
    /\ UNCHANGED <<caches, pending, report, snapshots, calls, faults>>

\* The ticks are simulated; they draw nothing.
Succeed ==
    /\ call # Idle /\ call.stage = "run"
    /\ Ends("Success")
    /\ UNCHANGED <<caches, pending, sandboxes, snapshots, calls, faults>>

-----------------------------------------------------------------------------
(* The calls of a sandbox: a load opens no scope for its map.              *)
LoadScenario(s, r) ==
    /\ Begins
    /\ call' = Called("load", s, r, "assets")
    /\ UNCHANGED <<caches, process, pending, report, sandboxes, snapshots, faults>>

Loaded(s) == sandboxes[s] # NoSandbox

AdvanceTicks(s) ==
    /\ Begins
    /\ Loaded(s)
    /\ call' = Called("advance", s, sandboxes[s].replay, "run")
    /\ Open
    /\ UNCHANGED <<caches, pending, report, sandboxes, snapshots, faults>>

\* A snapshot has the position of the sequence, and its restore sets it.
CaptureState(s) ==
    /\ Begins
    /\ Loaded(s)
    /\ snapshots' = {[replay |-> sandboxes[s].replay, random |-> random]}
    /\ UNCHANGED <<caches, process, call, pending, report, sandboxes, faults>>

RestoreState(s) ==
    /\ Begins
    /\ \E state \in snapshots :
        /\ sandboxes[s].replay = state.replay
        /\ random' = state.random
    /\ UNCHANGED <<caches, rounding, scope, call, pending, report, sandboxes, snapshots,
                   faults>>

\* The application sets a rounding mode of its own between the calls.
SetRounding(mode) ==
    /\ call = Idle /\ pending = <<>>
    /\ mode # rounding
    /\ rounding' = mode
    /\ UNCHANGED <<caches, random, scope, call, pending, report, sandboxes, snapshots,
                   calls, faults>>

Requests == UNION {[1..n -> Replays] : n \in 1..MaxRequests}

Next ==
    \/ \E c \in Contexts, requests \in Requests : ValidateReplayBatch(c, requests)
    \/ NextRequest
    \/ PreparePackKeys \/ OpenEntry \/ UseEntry \/ AssetsPrepared
    \/ \E valid \in BOOLEAN : PrepareInstalledPack(valid)
    \/ \E e \in UNION {Repositories(r) : r \in Replays}, made \in Partial :
            EnsurePack(e, made)
    \/ AssetsUnavailable \/ CreateBlockMobil \/ MapBuilt \/ Succeed \/ Fault
    \/ \E s \in Sandboxes : \E r \in Replays : LoadScenario(s, r)
    \/ \E s \in Sandboxes : AdvanceTicks(s) \/ CaptureState(s) \/ RestoreState(s)
    \/ \E mode \in Roundings : SetRounding(mode)

Spec == Init /\ [][Next]_vars

-----------------------------------------------------------------------------
(* A replay that is validated runs on the map, and under the rounding mode, *)
(* that it has as the first call of a process, whatever was validated,     *)
(* loaded, captured, restored or broken off before, in this batch or in an *)
(* earlier call.                                                           *)
ValidatesAsFirstCall ==
    report.result = "Success" /\ report.call.kind = "validate" =>
        /\ report.call.map = FirstMap(report.call.replay)
        /\ report.rounding = Nearest

(* However a validation or an advance ends, its caller finds the random    *)
(* sequence and the rounding mode as they were; so with the rounding mode  *)
(* of a load.                                                              *)
CallerIsUndisturbed ==
    [][call # Idle /\ call' = Idle =>
        /\ rounding' = call.rounding
        /\ call.kind # "load" => random' = call.random]_vars

(* Of all the ways in which an earlier call may have been broken off, one  *)
(* is remembered: a call that nothing goes wrong in fails only because a   *)
(* repository of its route, of the same context or sandbox, ran out of     *)
(* memory between opening its pack and having made its stores.             *)
OnlyHalfBuiltIsRemembered ==
    report.result = "Failure" =>
        \E e \in Repositories(report.call.replay) : <<report.call.owner, e>> \in struck
=============================================================================
