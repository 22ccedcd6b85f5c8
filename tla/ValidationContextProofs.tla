---------------------- MODULE ValidationContextProofs ----------------------
(* Proofs about ValidationContext for any contexts, sandboxes, replays and *)
(* random values: a validation runs on the map a first call would build,   *)
(* a scoped call leaves the process as it found it, and of all failures    *)
(* only that of a repository broken off while it made its stores is        *)
(* remembered by the caches.                                               *)
EXTENDS ValidationContext, FiniteSetTheorems, TLAPS

Kinds == {"validate", "load", "advance"}
Stages == {"assets", "map", "run"}
Mobils == {Mobil(p, n) : p \in Nat, n \in Nat}
Names == Replays \cup {"none"}

Calls == [kind : Kinds, owner : Owners, replay : Names, stage : Stages, ready : Nat,
          map : Seq(Mobils), random : Nat, rounding : Roundings]

TypeInv ==
    /\ random \in Nat /\ rounding \in Roundings
    /\ call = Idle \/ call \in Calls
    /\ call # Idle => IF call.kind = "advance" THEN call.stage = "run"
                      ELSE call.replay \in Replays
    /\ pending \in Seq(Replays)
    /\ sandboxes \in [Sandboxes -> [replay : Names, map : Seq(Mobils)]]
    /\ snapshots \subseteq [replay : Names, random : Nat]
    /\ DOMAIN packs = Owners
    /\ report.call = Idle \/ report.call \in Calls
    /\ pending # <<>> /\ call = Idle => report.call \in Calls

(* An open scope has saved what the process was in when it was called; a   *)
(* load opens its scope when it has built its map, later in the sequence.  *)
ScopeInv ==
    /\ call = Idle => scope = {}
    /\ call # Idle /\ (call.kind # "load" \/ call.stage = "run") =>
        /\ rounding = Nearest
        /\ \E saved \in [random : Nat, rounding : Roundings] :
            /\ scope = {saved}
            /\ saved.rounding = call.rounding
            /\ call.kind # "load" => saved.random = call.random
    /\ call # Idle /\ call.kind = "load" /\ call.stage # "run" =>
        scope = {} /\ rounding = call.rounding

(* A validation has chosen the first mobils of its map as a first call     *)
(* does, and the sequence is where their draws have brought it.            *)
MapInv ==
    call # Idle /\ call.kind = "validate" =>
        /\ call.replay \in Replays
        /\ Len(call.map) <= Len(Blocks[call.replay])
        /\ random = Drawn(call.replay, Len(call.map))
        /\ \A i \in 1..Len(call.map) :
            call.map[i] = Mobil(Drawn(call.replay, i - 1), Blocks[call.replay][i])
        /\ call.stage = "run" => Len(call.map) = Len(Blocks[call.replay])

\* Only packs that can be decoded are cached.
PackInv == \A o \in Owners : \A p \in packs[o] : p.valid

(* A repository that counts as ready has its stores, or ran out of memory  *)
(* when it should have made them.                                          *)
FillInv ==
    /\ DOMAIN packReady = Owners /\ DOMAIN stores = Owners
    /\ \A o \in Owners : \A e \in packReady[o] :
        \/ <<o, e>> \in struck
        \/ \A store \in AllStores : <<e, store>> \in stores[o]

IInv == /\ TypeInv /\ ScopeInv /\ MapInv /\ PackInv /\ FillInv
        /\ ValidatesAsFirstCall /\ OnlyHalfBuiltIsRemembered

-----------------------------------------------------------------------------
(* The number of draws of the blocks of a replay.                          *)

LEMMA NothingDrawn ==
    ASSUME NEW r \in Replays
    PROVE  Drawn(r, 0) = 0
<1>1. {i \in 1..0 : Draws(Blocks[r][i])} = {}
  OBVIOUS
<1> QED
  BY <1>1, FS_EmptySet DEF Drawn

\* One more block draws once more, if it draws.
LEMMA OneBlockMore ==
    ASSUME NEW r \in Replays, NEW n \in Nat
    PROVE  /\ Drawn(r, n) \in Nat
           /\ Drawn(r, n + 1) = IF Draws(Blocks[r][n + 1]) THEN Drawn(r, n) + 1
                                ELSE Drawn(r, n)
<1> DEFINE D(k) == {i \in 1..k : Draws(Blocks[r][i])}
<1>1. IsFiniteSet(D(n)) /\ Cardinality(D(n)) \in Nat
  <2>1. IsFiniteSet(1..n)
    BY FS_Interval
  <2>2. D(n) \subseteq 1..n
    OBVIOUS
  <2>3. IsFiniteSet(D(n))
    BY <2>1, <2>2, FS_Subset
  <2> QED
    BY <2>3, FS_CardinalityType
<1>2. CASE Draws(Blocks[r][n + 1])
  <2>1. D(n + 1) = D(n) \cup {n + 1}
    BY <1>2
  <2>2. n + 1 \notin D(n)
    OBVIOUS
  <2>3. Cardinality(D(n) \cup {n + 1}) = Cardinality(D(n)) + 1
    BY <1>1, <2>2, FS_AddElement
  <2> QED
    BY <1>1, <1>2, <2>1, <2>3 DEF Drawn
<1>3. CASE ~Draws(Blocks[r][n + 1])
  <2>1. D(n + 1) = D(n)
    BY <1>3
  <2> QED
    BY <1>1, <1>3, <2>1 DEF Drawn
<1> QED
  BY <1>2, <1>3

-----------------------------------------------------------------------------
(* The invariant.                                                          *)

LEMMA InitIInv == Init => IInv
<1> SUFFICES ASSUME Init PROVE IInv
  OBVIOUS
<1> USE ContextAssumption DEF Init, Idle
<1>1. TypeInv
  BY DEF TypeInv, Names, NoSandbox, NoReport
<1>2. ScopeInv /\ MapInv
  BY DEF ScopeInv, MapInv
<1>3. PackInv /\ FillInv
  BY DEF PackInv, FillInv
<1>4. ValidatesAsFirstCall /\ OnlyHalfBuiltIsRemembered
  BY DEF ValidatesAsFirstCall, OnlyHalfBuiltIsRemembered, NoReport
<1> QED
  BY <1>1, <1>2, <1>3, <1>4 DEF IInv

\* What a validation that has chosen all its mobils runs on.
LEMMA WholeMap ==
    ASSUME IInv, call # Idle, call.kind = "validate", call.stage = "run"
    PROVE  call.map = FirstMap(call.replay) /\ rounding = Nearest
<1>1. /\ call \in Calls /\ call.replay \in Replays
      /\ Len(call.map) = Len(Blocks[call.replay])
      /\ \A i \in 1..Len(call.map) :
            call.map[i] = Mobil(Drawn(call.replay, i - 1), Blocks[call.replay][i])
  BY DEF IInv, TypeInv, MapInv
<1>2. /\ call.map \in Seq(Mobils) /\ Blocks[call.replay] \in Seq(Nat)
  BY <1>1, ContextAssumption DEF Calls
<1>3. call.map = [i \in 1..Len(call.map) |-> call.map[i]]
  BY <1>2
<1>4. DOMAIN Blocks[call.replay] = 1..Len(call.map)
  BY <1>1, <1>2
<1>5. call.map = FirstMap(call.replay)
  BY <1>1, <1>3, <1>4 DEF FirstMap
<1>6. rounding = Nearest
  BY DEF IInv, ScopeInv
<1> QED
  BY <1>5, <1>6

\* A call that ends closes its scope, if it has one.
LEMMA EndsIInv ==
    ASSUME IInv, NEW result \in {"Success", "Failure", "Fault"}, call # Idle, Ends(result),
           result = "Success" => call.stage = "run",
           result = "Failure" =>
                \E e \in Repositories(call.replay) : <<call.owner, e>> \in struck',
           UNCHANGED <<pending, sandboxes, snapshots>>,
           DOMAIN packs' = Owners, PackInv', FillInv'
    PROVE  IInv'
<1>1. call \in Calls /\ call' = Idle /\ report'.call = call
  BY DEF IInv, TypeInv, Ends
<1>2. random' \in Nat /\ rounding' \in Roundings /\ scope' = {}
  <2>1. CASE scope = {}
    BY <2>1 DEF IInv, TypeInv, Ends, Close
  <2>2. CASE scope # {}
    <3>1. PICK saved \in [random : Nat, rounding : Roundings] : scope = {saved}
      BY <1>1, <2>2 DEF IInv, ScopeInv, Calls
    <3>2. random' = saved.random /\ rounding' = saved.rounding /\ scope' = {}
      BY <2>2, <3>1 DEF Ends, Close
    <3> QED
      BY <3>2
  <2> QED
    BY <2>1, <2>2
<1>3. TypeInv'
  BY <1>1, <1>2 DEF IInv, TypeInv
<1>4. ScopeInv' /\ MapInv'
  BY <1>1, <1>2 DEF ScopeInv, MapInv
<1>5. ValidatesAsFirstCall'
  <2> SUFFICES ASSUME report'.result = "Success", report'.call.kind = "validate"
               PROVE  /\ report'.call.map = FirstMap(report'.call.replay)
                      /\ report'.rounding = Nearest
    BY DEF ValidatesAsFirstCall
  <2>1. result = "Success" /\ report'.rounding = rounding
    BY DEF Ends
  <2>2. call.kind = "validate" /\ call.stage = "run"
    BY <1>1, <2>1
  <2> QED
    BY <1>1, <2>1, <2>2, WholeMap
<1>6. OnlyHalfBuiltIsRemembered'
  BY <1>1 DEF OnlyHalfBuiltIsRemembered, Ends, Repositories
<1> QED
  BY <1>3, <1>4, <1>5, <1>6 DEF IInv

\* A call of a kind that opens a scope at once.
LEMMA OpensIInv ==
    ASSUME IInv, call = Idle, Open,
           NEW kind \in Kinds \ {"load"}, NEW owner \in Owners, NEW r \in Names,
           NEW stage \in Stages,
           IF kind = "validate" THEN r \in Replays /\ stage = "assets"
           ELSE stage = "run",
           call' = Called(kind, owner, r, stage),
           pending' \in Seq(Replays),
           UNCHANGED <<caches, report, sandboxes, snapshots>>
    PROVE  IInv'
<1>1. /\ call' \in Calls /\ call'.kind = kind /\ call'.map = <<>>
      /\ call'.replay = r /\ call'.stage = stage
      /\ call'.random = random /\ call'.rounding = rounding
  BY DEF IInv, TypeInv, Called, Calls
<1>2. call' # Idle /\ (kind = "validate" \/ kind = "advance")
  BY <1>1 DEF Idle, Kinds
<1>3. TypeInv'
  <2>1. random' = 0 /\ rounding' = Nearest
    BY DEF Open
  <2> QED
    BY <1>1, <1>2, <2>1, ContextAssumption DEF IInv, TypeInv, caches
<1>4. ScopeInv'
  <2>1. /\ rounding' = Nearest
        /\ scope' = {[random |-> random, rounding |-> rounding]}
        /\ [random |-> random, rounding |-> rounding] \in
                [random : Nat, rounding : Roundings]
    BY DEF Open, IInv, TypeInv
  <2> QED
    BY <1>1, <1>2, <2>1 DEF ScopeInv
<1>5. MapInv'
  <2> SUFFICES ASSUME kind = "validate"
               PROVE  MapInv'
    BY <1>1 DEF MapInv
  <2>1. /\ r \in Replays /\ stage = "assets" /\ Len(<<>>) = 0
        /\ Blocks[r] \in Seq(Nat) /\ Drawn(r, 0) = 0 /\ random' = 0
    BY NothingDrawn, ContextAssumption DEF Open
  <2> QED
    BY <1>1, <2>1 DEF MapInv
<1>6. PackInv' /\ FillInv'
  BY DEF IInv, PackInv, FillInv, caches, repositories
<1>7. ValidatesAsFirstCall' /\ OnlyHalfBuiltIsRemembered'
  BY DEF IInv, ValidatesAsFirstCall, OnlyHalfBuiltIsRemembered, caches, repositories
<1> QED
  BY <1>3, <1>4, <1>5, <1>6, <1>7 DEF IInv

\* The preparation of the assets, and of the repositories, leaves the process
\* and the report alone.
LEMMA CallStaysIInv ==
    ASSUME IInv, call # Idle, call' \in Calls,
           call'.kind = call.kind, call'.random = call.random,
           call'.rounding = call.rounding, call'.replay = call.replay,
           call'.map = call.map, call.stage \in {"assets", "map"},
           call'.stage \in {"assets", "map"},
           UNCHANGED <<struck, process, pending, report, sandboxes, snapshots>>,
           DOMAIN packs' = Owners, PackInv', FillInv'
    PROVE  IInv'
<1>1. call \in Calls /\ call' # Idle
  BY DEF IInv, TypeInv, Idle, Calls, Kinds
<1>2. TypeInv'
  BY <1>1 DEF IInv, TypeInv, process
<1>3. ScopeInv' /\ MapInv'
  BY <1>1 DEF IInv, ScopeInv, MapInv, process
<1>4. ValidatesAsFirstCall' /\ OnlyHalfBuiltIsRemembered'
  BY DEF IInv, ValidatesAsFirstCall, OnlyHalfBuiltIsRemembered
<1> QED
  BY <1>2, <1>3, <1>4 DEF IInv

\* One mobil more.
LEMMA CreateIInv ==
    ASSUME IInv, CreateBlockMobil
    PROVE  IInv'
<1> DEFINE mobils == Blocks[call.replay][Len(call.map) + 1]
<1>1. /\ call \in Calls /\ call # Idle /\ call.stage = "map" /\ random \in Nat
      /\ call.replay \in Replays
      /\ Len(call.map) < Len(Blocks[call.replay])
      /\ call' = [call EXCEPT !.map = Append(@, Mobil(random, mobils))]
      /\ random' = IF Draws(mobils) THEN random + 1 ELSE random
  BY DEF IInv, TypeInv, CreateBlockMobil, Building
<1>2. PICK n \in Nat : n = Len(call.map)
  BY <1>1 DEF Calls
<1>3. mobils \in Nat /\ random' \in Nat
  <2>1. Blocks[call.replay] \in Seq(Nat)
    BY <1>1, ContextAssumption
  <2>2. n + 1 \in 1..Len(Blocks[call.replay])
    BY <1>1, <1>2, <2>1
  <2>3. mobils \in Nat
    BY <1>2, <2>1, <2>2
  <2> QED
    BY <1>1, <2>3
<1>4. Mobil(random, mobils) \in Mobils
  BY <1>1, <1>3 DEF Mobils
<1>5. /\ call' \in Calls /\ call' # Idle /\ call'.kind = call.kind
      /\ call'.replay = call.replay /\ call'.stage = "map"
      /\ call'.random = call.random /\ call'.rounding = call.rounding
      /\ Len(call'.map) = n + 1 /\ call'.map[n + 1] = Mobil(random, mobils)
      /\ \A i \in 1..n : call'.map[i] = call.map[i]
  <2> DEFINE map == Append(call.map, Mobil(random, mobils))
  <2>1. /\ map \in Seq(Mobils) /\ Len(map) = n + 1
        /\ map[n + 1] = Mobil(random, mobils)
        /\ \A i \in 1..n : map[i] = call.map[i]
    <3>1. call.map \in Seq(Mobils)
      BY <1>1 DEF Calls
    <3> HIDE DEF mobils
    <3> QED
      BY <1>2, <1>4, <3>1
  <2>2. call' = [call EXCEPT !.map = map]
    BY <1>1
  <2> HIDE DEF map
  <2>3. /\ call' \in Calls /\ call'.kind = call.kind /\ call'.map = map
        /\ call'.replay = call.replay /\ call'.stage = call.stage
        /\ call'.random = call.random /\ call'.rounding = call.rounding
    BY <1>1, <2>1, <2>2 DEF Calls
  <2> QED
    BY <1>1, <2>1, <2>3 DEF Calls, Idle, Kinds
<1>6. TypeInv'
  BY <1>1, <1>3, <1>5 DEF IInv, TypeInv, CreateBlockMobil, caches
<1>7. ScopeInv'
  BY <1>1, <1>5 DEF IInv, ScopeInv, CreateBlockMobil
<1>8. MapInv'
  <2> SUFFICES ASSUME call.kind = "validate"
               PROVE  MapInv'
    BY <1>5 DEF MapInv
  <2> DEFINE r == call.replay
  <2>1. /\ random = Drawn(r, n)
        /\ \A i \in 1..n : call.map[i] = Mobil(Drawn(r, i - 1), Blocks[r][i])
    BY <1>1, <1>2 DEF IInv, MapInv
  <2>2. random' = Drawn(r, n + 1)
    BY <1>1, <1>2, <2>1, OneBlockMore
  <2>3. \A i \in 1..(n + 1) : call'.map[i] = Mobil(Drawn(r, i - 1), Blocks[r][i])
    <3> SUFFICES ASSUME NEW i \in 1..(n + 1)
                 PROVE  call'.map[i] = Mobil(Drawn(r, i - 1), Blocks[r][i])
      OBVIOUS
    <3>1. CASE i \in 1..n
      BY <1>5, <2>1, <3>1
    <3>2. CASE i = n + 1
      BY <1>2, <1>5, <2>1, <3>2
    <3> QED
      BY <3>1, <3>2
  <2> QED
    BY <1>1, <1>2, <1>5, <2>2, <2>3 DEF MapInv
<1>9. PackInv' /\ FillInv'
  BY DEF IInv, PackInv, FillInv, CreateBlockMobil, caches, repositories
<1>10. ValidatesAsFirstCall' /\ OnlyHalfBuiltIsRemembered'
  BY DEF IInv, ValidatesAsFirstCall, OnlyHalfBuiltIsRemembered, CreateBlockMobil, caches,
     repositories
<1> QED
  BY <1>6, <1>7, <1>8, <1>9, <1>10 DEF IInv

\* The map is whole; a load installs it and opens its scope.
LEMMA BuiltIInv ==
    ASSUME IInv, MapBuilt
    PROVE  IInv'
<1>1. /\ call \in Calls /\ call # Idle /\ call.stage = "map"
      /\ call.kind # "advance" /\ call.replay \in Replays
      /\ call' = [call EXCEPT !.stage = "run"]
      /\ Len(call.map) = Len(Blocks[call.replay])
      /\ UNCHANGED <<caches, pending, report, snapshots>>
  BY DEF IInv, TypeInv, MapBuilt, MapChosen, Building
<1>2. /\ call' \in Calls /\ call' # Idle /\ call'.kind = call.kind
      /\ call'.replay = call.replay /\ call'.stage = "run" /\ call'.map = call.map
      /\ call'.random = call.random /\ call'.rounding = call.rounding
  BY <1>1 DEF Calls, Idle, Kinds, Stages
<1>3. CASE call.kind = "load"
  <2>1. /\ Open
        /\ sandboxes' = [sandboxes EXCEPT ![call.owner] =
                            [replay |-> call.replay, map |-> call.map]]
    BY <1>3 DEF MapBuilt
  <2>2. sandboxes' \in [Sandboxes -> [replay : Names, map : Seq(Mobils)]]
    BY <1>1, <2>1 DEF IInv, TypeInv, Calls
  <2>3. TypeInv'
    BY <1>1, <1>2, <1>3, <2>1, <2>2, ContextAssumption DEF IInv, TypeInv, Open, caches
  <2>4. ScopeInv'
    <3>1. /\ rounding' = Nearest /\ rounding = call.rounding
          /\ scope' = {[random |-> random, rounding |-> rounding]}
          /\ [random |-> random, rounding |-> rounding] \in
                [random : Nat, rounding : Roundings]
      BY <1>1, <1>3, <2>1 DEF Open, IInv, TypeInv, ScopeInv
    <3> QED
      BY <1>2, <1>3, <3>1 DEF ScopeInv
  <2>5. MapInv'
    BY <1>2, <1>3 DEF MapInv
  <2> QED
    BY <1>1, <2>3, <2>4, <2>5 DEF IInv, PackInv, FillInv, caches, repositories,
       ValidatesAsFirstCall, OnlyHalfBuiltIsRemembered
<1>4. CASE call.kind # "load"
  <2>1. UNCHANGED <<sandboxes, process>>
    BY <1>4 DEF MapBuilt
  <2>2. TypeInv'
    BY <1>1, <1>2, <1>4, <2>1 DEF IInv, TypeInv, caches, process
  <2>3. ScopeInv' /\ MapInv'
    BY <1>1, <1>2, <1>4, <2>1 DEF IInv, ScopeInv, MapInv, process, Kinds, Calls
  <2> QED
    BY <1>1, <2>1, <2>2, <2>3 DEF IInv, PackInv, FillInv, caches, repositories,
       ValidatesAsFirstCall, OnlyHalfBuiltIsRemembered
<1> QED
  BY <1>3, <1>4

\* A repository that becomes ready has its stores or is struck.
LEMMA EnsureIInv ==
    ASSUME IInv, NEW repository, NEW made, EnsurePack(repository, made)
    PROVE  IInv'
<1> DEFINE owner == call.owner
           rest == {repository} \X made
<1>1. /\ call # Idle /\ call \in Calls /\ call.stage = "map" /\ owner \in Owners
      /\ packReady' = [packReady EXCEPT ![owner] = @ \cup {repository}]
      /\ stores' = [stores EXCEPT ![owner] = @ \cup rest]
      /\ UNCHANGED <<keys, packs, opened, pending, sandboxes, snapshots, calls>>
  BY DEF IInv, TypeInv, EnsurePack, Building, Calls
<1>2. /\ struck \subseteq struck'
      /\ made = AllStores \/ <<owner, repository>> \in struck'
  BY DEF EnsurePack
<1>3. FillInv'
  <2>1. DOMAIN packReady' = Owners /\ DOMAIN stores' = Owners
    BY <1>1 DEF IInv, FillInv
  <2>2. ASSUME NEW o \in Owners, NEW e \in packReady'[o]
        PROVE  \/ <<o, e>> \in struck'
               \/ \A store \in AllStores : <<e, store>> \in stores'[o]
    <3>1. stores[o] \subseteq stores'[o]
      BY <1>1 DEF IInv, FillInv
    <3>2. CASE e \in packReady[o]
      BY <1>2, <3>1, <3>2 DEF IInv, FillInv
    <3>3. CASE e \notin packReady[o]
      <4>1. o = owner /\ e = repository
        BY <1>1, <2>2, <3>3 DEF IInv, FillInv
      <4>2. rest \subseteq stores'[o]
        BY <1>1, <4>1 DEF IInv, FillInv
      <4> QED
        BY <1>2, <4>1, <4>2
    <3> QED
      BY <3>2, <3>3
  <2> QED
    BY <2>1, <2>2 DEF FillInv
<1>4. DOMAIN packs' = Owners /\ PackInv'
  BY <1>1 DEF IInv, TypeInv, PackInv
<1>5. CASE made = AllStores
  BY <1>1, <1>3, <1>4, <1>5, CallStaysIInv DEF EnsurePack
<1>6. CASE made # AllStores
  BY <1>1, <1>3, <1>4, <1>6, EndsIInv DEF EnsurePack, FailsByFault
<1> QED
  BY <1>5, <1>6

\* A map that cannot be built meets a repository that was struck.
LEMMA UnavailableIInv ==
    ASSUME IInv, AssetsUnavailable
    PROVE  IInv'
<1> DEFINE owner == call.owner
           r == call.replay
<1>1. /\ call # Idle /\ call \in Calls /\ call.stage = "map" /\ owner \in Owners
      /\ r \in Replays
      /\ Ends("Failure")
      /\ UNCHANGED <<caches, pending, sandboxes, snapshots>>
  BY DEF IInv, TypeInv, AssetsUnavailable, Building, Calls
<1>2. \E e \in Repositories(r) : <<owner, e>> \in struck'
  <2>1. ASSUME NEW e \in Repositories(r), e \notin Unready,
               NEW store \in AllStores, ~Made(e, store)
        PROVE  <<owner, e>> \in struck'
    <3>1. e \in packReady[owner] /\ <<e, store>> \notin stores[owner]
      BY <2>1 DEF Unready, Made
    <3>2. <<owner, e>> \in struck
      BY <1>1, <3>1 DEF IInv, FillInv
    <3> QED
      BY <1>1, <3>2 DEF caches, repositories
  <2>2. MapAssets \in Repositories(r)
    BY <1>1, ContextAssumption DEF MapAssets, Route, Repositories, Range
  <2>3. CASE MapAssets \notin Unready /\ ~Made(MapAssets, "blockInfos")
    BY <2>1, <2>2, <2>3 DEF AllStores
  <2>4. CASE Unready = {} /\ \E e \in Repositories(r) : ~Made(e, "materials")
    BY <2>1, <2>4 DEF AllStores
  <2> QED
    BY <2>3, <2>4 DEF AssetsUnavailable
<1>3. DOMAIN packs' = Owners /\ PackInv' /\ FillInv'
  BY <1>1 DEF IInv, TypeInv, PackInv, FillInv, caches, repositories
<1> QED
  BY <1>1, <1>2, <1>3, EndsIInv

LEMMA StepIInv == IInv /\ [Next]_vars => IInv'
<1> SUFFICES ASSUME IInv, [Next]_vars PROVE IInv'
  OBVIOUS
<1> USE DEF caches, repositories, process
<1>0. /\ DOMAIN packs = Owners /\ PackInv /\ pending \in Seq(Replays)
      /\ call = Idle \/ call \in Calls
  BY DEF IInv, TypeInv
<1>f. UNCHANGED repositories => FillInv'
  BY DEF IInv, FillInv
<1>1. ASSUME NEW c \in Contexts, NEW requests \in Requests,
             ValidateReplayBatch(c, requests)
      PROVE  IInv'
  <2>1. PICK n \in 1..MaxRequests : requests \in [1..n -> Replays]
    BY <1>1 DEF Requests
  <2>2. n \in Nat \ {0}
    BY <2>1, ContextAssumption
  <2>3. requests \in Seq(Replays) /\ requests # <<>>
    BY <2>1, <2>2
  <2>4. Head(requests) \in Replays /\ Tail(requests) \in Seq(Replays)
    BY <2>3
  <2>5. /\ call = Idle /\ Open /\ call' = Called("validate", c, Head(requests), "assets")
        /\ pending' = Tail(requests)
        /\ UNCHANGED <<caches, report, sandboxes, snapshots>>
    BY <1>1 DEF ValidateReplayBatch, Begins, Validate
  <2> QED
    BY <2>4, <2>5, OpensIInv DEF Kinds, Owners, Names, Stages
<1>2. CASE NextRequest
  <2>1. /\ call = Idle /\ Open /\ pending # <<>> /\ pending' = Tail(pending)
        /\ call' = Called("validate", report.call.owner, Head(pending), "assets")
        /\ UNCHANGED <<caches, report, sandboxes, snapshots>>
    BY <1>2 DEF NextRequest, Validate
  <2>2. Head(pending) \in Replays /\ Tail(pending) \in Seq(Replays)
    BY <1>0, <2>1
  <2>3. report.call.owner \in Owners
    BY <2>1 DEF IInv, TypeInv, Calls
  <2> QED
    BY <2>1, <2>2, <2>3, OpensIInv DEF Kinds, Names, Stages
<1>3. CASE PreparePackKeys
  BY <1>0, <1>f, <1>3, CallStaysIInv DEF PreparePackKeys, Missing, Preparing, PackInv
<1>4. ASSUME NEW valid \in BOOLEAN, PrepareInstalledPack(valid)
      PROVE  IInv'
  <2> DEFINE pack == [name |-> Needed.pack, valid |-> valid]
  <2>1. /\ packs' = [packs EXCEPT ![call.owner] = @ \cup Cached(pack)]
        /\ call # Idle /\ call.stage = "assets" /\ call \in Calls
        /\ UNCHANGED <<pending, sandboxes, snapshots>>
    BY <1>0, <1>4 DEF PrepareInstalledPack, Missing, Preparing
  <2>2. DOMAIN packs' = Owners /\ PackInv' /\ FillInv'
    BY <1>0, <1>4, <1>f, <2>1 DEF PrepareInstalledPack, PackInv, Cached
  <2>3. CASE valid
    BY <1>4, <2>1, <2>2, <2>3, CallStaysIInv DEF PrepareInstalledPack
  <2>4. CASE ~valid
    BY <1>4, <2>1, <2>2, <2>4, EndsIInv DEF PrepareInstalledPack, FailsByFault
  <2> QED
    BY <2>3, <2>4
<1>5. CASE OpenEntry
  <2>1. /\ call # Idle /\ call.stage = "assets" /\ call \in Calls
        /\ UNCHANGED <<packs, repositories, pending, sandboxes, snapshots>>
    BY <1>0, <1>f, <1>5 DEF OpenEntry, Missing, Preparing
  <2>2. \A pack \in Installed : pack.valid
    BY <1>0, <1>f, <2>1 DEF Installed, PackInv, Calls
  <2>3. UNCHANGED <<process, call, report>>
    BY <1>5, <2>2 DEF OpenEntry
  <2> QED
    BY <1>0, <1>f, <2>1, <2>3, CallStaysIInv DEF PackInv
<1>6. CASE UseEntry
  <2>1. /\ call # Idle /\ call.stage = "assets" /\ call \in Calls
        /\ call' = [call EXCEPT !.ready = @ + 1]
        /\ UNCHANGED <<caches, process, pending, report, sandboxes, snapshots>>
    BY <1>0, <1>f, <1>6 DEF UseEntry, Preparing
  <2>2. /\ call' \in Calls /\ call'.kind = call.kind /\ call'.random = call.random
        /\ call'.rounding = call.rounding /\ call'.replay = call.replay
        /\ call'.map = call.map /\ call'.stage = call.stage
    BY <2>1 DEF Calls
  <2> QED
    BY <1>0, <1>f, <2>1, <2>2, CallStaysIInv DEF PackInv
<1>7. CASE AssetsPrepared
  <2>1. /\ call # Idle /\ call.stage = "assets" /\ call \in Calls
        /\ call' = [call EXCEPT !.stage = "map"]
        /\ UNCHANGED <<caches, process, pending, report, sandboxes, snapshots>>
    BY <1>0, <1>f, <1>7 DEF AssetsPrepared
  <2>2. /\ call' \in Calls /\ call'.kind = call.kind /\ call'.random = call.random
        /\ call'.rounding = call.rounding /\ call'.replay = call.replay
        /\ call'.map = call.map /\ call'.stage = "map"
    BY <2>1 DEF Calls, Stages
  <2> QED
    BY <1>0, <1>f, <2>1, <2>2, CallStaysIInv DEF PackInv
<1>8. CASE CreateBlockMobil
  BY <1>8, CreateIInv
<1>9. CASE MapBuilt
  BY <1>9, BuiltIInv
<1>18. ASSUME NEW e, NEW made, EnsurePack(e, made)
       PROVE  IInv'
  BY <1>18, EnsureIInv
<1>19. CASE AssetsUnavailable
  BY <1>19, UnavailableIInv
<1>10. CASE Succeed
  BY <1>0, <1>f, <1>10, EndsIInv DEF Succeed, PackInv
<1>11. CASE Fault
  BY <1>0, <1>f, <1>11, EndsIInv DEF Fault, FailsByFault, PackInv
<1>12. ASSUME NEW s \in Sandboxes, NEW r \in Replays, LoadScenario(s, r)
       PROVE  IInv'
  <2>1. /\ call = Idle /\ call' = Called("load", s, r, "assets")
        /\ UNCHANGED <<caches, process, pending, report, sandboxes, snapshots>>
    BY <1>12 DEF LoadScenario, Begins
  <2>2. /\ call' \in Calls /\ call'.kind = "load" /\ call'.stage = "assets"
        /\ call'.replay = r /\ call'.rounding = rounding
    BY <2>1 DEF IInv, TypeInv, Called, Calls, Kinds, Owners, Names, Stages
  <2>3. call' # Idle
    BY <2>2 DEF Idle
  <2>4. TypeInv'
    BY <2>1, <2>2, <2>3 DEF IInv, TypeInv
  <2>5. ScopeInv' /\ MapInv'
    BY <2>1, <2>2, <2>3 DEF IInv, ScopeInv, MapInv
  <2> QED
    BY <2>1, <2>4, <2>5 DEF IInv, PackInv, FillInv, ValidatesAsFirstCall, OnlyHalfBuiltIsRemembered
<1>13. ASSUME NEW s \in Sandboxes, AdvanceTicks(s)
       PROVE  IInv'
  <2>1. sandboxes[s].replay \in Names
    BY DEF IInv, TypeInv
  <2>2. /\ call = Idle /\ Open
        /\ call' = Called("advance", s, sandboxes[s].replay, "run")
        /\ UNCHANGED <<caches, pending, report, sandboxes, snapshots>>
    BY <1>13 DEF AdvanceTicks, Begins
  <2> QED
    BY <1>0, <1>f, <2>1, <2>2, OpensIInv DEF Kinds, Owners, Stages
<1>14. ASSUME NEW s \in Sandboxes, CaptureState(s)
       PROVE  IInv'
  <2>1. snapshots' \subseteq [replay : Names, random : Nat]
    BY <1>14 DEF CaptureState, IInv, TypeInv
  <2> QED
    BY <1>14, <2>1 DEF CaptureState, IInv, TypeInv, ScopeInv, MapInv, PackInv, FillInv,
       ValidatesAsFirstCall, OnlyHalfBuiltIsRemembered
<1>15. ASSUME NEW s \in Sandboxes, RestoreState(s)
       PROVE  IInv'
  <2>1. random' \in Nat /\ call = Idle
    BY <1>15 DEF RestoreState, Begins, IInv, TypeInv
  <2> QED
    BY <1>15, <2>1 DEF RestoreState, IInv, TypeInv, ScopeInv, MapInv, PackInv, FillInv,
       ValidatesAsFirstCall, OnlyHalfBuiltIsRemembered
<1>16. ASSUME NEW mode \in Roundings, SetRounding(mode)
       PROVE  IInv'
  BY <1>16 DEF SetRounding, IInv, TypeInv, ScopeInv, MapInv, PackInv, FillInv,
     ValidatesAsFirstCall, OnlyHalfBuiltIsRemembered
<1>17. CASE UNCHANGED vars
  BY <1>17 DEF vars, IInv, TypeInv, ScopeInv, MapInv, PackInv, FillInv, ValidatesAsFirstCall,
     OnlyHalfBuiltIsRemembered
<1> QED
  BY <1>1, <1>2, <1>3, <1>4, <1>5, <1>6, <1>7, <1>8, <1>9, <1>10, <1>11, <1>12, <1>13,
     <1>14, <1>15, <1>16, <1>17, <1>18, <1>19 DEF Next

LEMMA Invariance == Spec => []IInv
<1>1. Init => IInv
  BY InitIInv
<1>2. IInv /\ [Next]_vars => IInv'
  BY StepIInv
<1> QED
  BY <1>1, <1>2, PTL DEF Spec

-----------------------------------------------------------------------------
(* A validation never depends on what the process did before it.           *)
THEOREM ValidationIsReproducible == Spec => []ValidatesAsFirstCall
<1>1. IInv => ValidatesAsFirstCall
  BY DEF IInv
<1> QED
  BY <1>1, Invariance, PTL

(* A call never fails by what an earlier one left in the caches, but where *)
(* that one ran out of memory making the stores of a repository.           *)
THEOREM OnlyHalfBuiltFails == Spec => []OnlyHalfBuiltIsRemembered
<1>1. IInv => OnlyHalfBuiltIsRemembered
  BY DEF IInv
<1> QED
  BY <1>1, Invariance, PTL

\* A call ends by closing its scope.
LEMMA OnlyEndsEnd ==
    ASSUME IInv, Next, call # Idle, call' = Idle
    PROVE  Close
<1>1. call \in Calls /\ call.kind # "none"
  BY DEF IInv, TypeInv, Calls, Kinds
<1>2. CASE \E valid \in BOOLEAN : PrepareInstalledPack(valid)
  BY <1>2 DEF PrepareInstalledPack, FailsByFault, Ends
<1>3. CASE OpenEntry
  BY <1>3 DEF OpenEntry, Ends
<1>4. CASE Succeed \/ Fault \/ AssetsUnavailable
  BY <1>4 DEF Succeed, Fault, AssetsUnavailable, FailsByFault, Ends
<1>9. ASSUME NEW e, NEW made, EnsurePack(e, made)
      PROVE  Close
  BY <1>9 DEF EnsurePack, FailsByFault, Ends
<1>5. CASE UseEntry \/ AssetsPrepared \/ CreateBlockMobil \/ MapBuilt
  <2>1. call'.kind = call.kind
    BY <1>1, <1>5 DEF UseEntry, AssetsPrepared, CreateBlockMobil, MapBuilt, Calls
  <2> QED
    BY <1>1, <2>1 DEF Idle
<1>6. ~NextRequest
  BY DEF NextRequest
<1>7. CASE \/ \E c \in Contexts, requests \in Requests : ValidateReplayBatch(c, requests)
           \/ \E s \in Sandboxes : \E r \in Replays : LoadScenario(s, r)
           \/ \E s \in Sandboxes : AdvanceTicks(s) \/ CaptureState(s) \/ RestoreState(s)
           \/ \E mode \in Roundings : SetRounding(mode)
  BY <1>7 DEF ValidateReplayBatch, LoadScenario, AdvanceTicks, CaptureState, RestoreState,
     SetRounding, Begins
<1>8. CASE PreparePackKeys
  BY <1>8 DEF PreparePackKeys
<1> QED
  BY <1>2, <1>3, <1>4, <1>5, <1>6, <1>7, <1>8, <1>9 DEF Next

(* However a scoped call ends, its caller finds the process as it was.     *)
THEOREM ScopesLeaveNoTrace == Spec => CallerIsUndisturbed
<1> DEFINE A == call # Idle /\ call' = Idle =>
                    /\ rounding' = call.rounding
                    /\ call.kind # "load" => random' = call.random
<1>1. ASSUME IInv, [Next]_vars
      PROVE  [A]_vars
  <2> SUFFICES ASSUME Next, call # Idle, call' = Idle PROVE A
    BY <1>1
  <2>1. Close
    BY <1>1, OnlyEndsEnd
  <2>2. CASE call.kind # "load" \/ call.stage = "run"
    <3>1. PICK saved \in [random : Nat, rounding : Roundings] :
            /\ scope = {saved} /\ saved.rounding = call.rounding
            /\ call.kind # "load" => saved.random = call.random
      BY <1>1, <2>2 DEF IInv, ScopeInv
    <3>2. random' = saved.random /\ rounding' = saved.rounding
      BY <2>1, <3>1 DEF Close
    <3> QED
      BY <3>1, <3>2
  <2>3. CASE call.kind = "load" /\ call.stage # "run"
    BY <1>1, <2>1, <2>3 DEF IInv, ScopeInv, Close
  <2> QED
    BY <2>2, <2>3
<1> QED
  BY <1>1, Invariance, PTL DEF Spec, CallerIsUndisturbed
=============================================================================
