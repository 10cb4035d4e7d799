----------------------------- MODULE PagedQuery -----------------------------
(***************************************************************************)
(* The queries of OraiswapV3Handler that read a list of the contract in    *)
(* several calls, while transactions of other people change the list       *)
(* between the calls.  Each call is answered from the list as it is then.  *)
(*                                                                         *)
(* The contract is not in this repository.  It is modelled by what its     *)
(* queries are used for: a page after a key, in the order of the keys; a   *)
(* page from an offset; a count; a batch that fails if one entry is gone.  *)
(***************************************************************************)
EXTENDS Naturals, Sequences, FiniteSets, SequencesExt

CONSTANTS
  Methods,         \* the queries to look at
  MaxStart,        \* bound: the highest id of an entry at the start
  MaxChanges,      \* bound on the changes that others make
  CHUNK_QUERY,     \* the page size that is asked for
  POSITION_TICKS_LIMIT, LIQUIDITY_TICKS_LIMIT,
  Multicall        \* tokens per aggregate query: 40

ByOffset == {"getPositions", "getPositionTicks"}
UntilShort == {"getPositions", "getPools", "approveForAll"}
Counted == {"getPositionTicks", "tokens", "allTokens", "allPositions"}
Nfts == {"tokens", "allTokens", "allPositions"}

Ids == 1..(MaxStart + MaxChanges)

ASSUME PagesAssumption ==
  /\ MaxStart \in Nat /\ MaxChanges \in Nat
  /\ {CHUNK_QUERY, POSITION_TICKS_LIMIT, LIQUIDITY_TICKS_LIMIT, Multicall}
       \subseteq Nat \ {0}
  /\ Methods \subseteq UntilShort \cup Counted \cup {"getAllLiquidityTicks"}

VARIABLES
  method,    \* the query, fixed
  mine,      \* the entries of the owner that tokens(owner) asks for, fixed
  entries,   \* the list of the contract
  born,      \* how many ids have been given out
  changes,   \* bound
  pc,        \* "start", "page", "counted", "chunks", "done", "failed"
  count,     \* numTokens, positonsLength: as read at the start
  i,         \* the loop variable
  todo,      \* entries still to be asked about in chunks
  result,    \* what has been collected
  always,    \* history: the entries that have been there ever since the start
  removed    \* history: whether any has gone since

listVars == <<method, mine, entries, born, changes, always, removed>>
vars == <<method, mine, entries, born, changes, pc, count, i, todo, result,
          always, removed>>

\* The ids of S in ascending order: at place k, the one with k - 1 below it.
SortedOf(S) ==
  [k \in 1..Cardinality(S) |-> CHOOSE x \in S : Cardinality({y \in S : y < x}) = k - 1]

Init ==
  /\ method \in Methods
  /\ entries \in {SortedOf(S) : S \in SUBSET (1..MaxStart)}
  /\ mine \in IF method = "tokens" THEN SUBSET Ids ELSE {Ids}
  /\ born = MaxStart
  /\ changes = 0
  /\ pc = "start"
  /\ count = 0
  /\ i = 0
  /\ todo = <<>>
  /\ result = <<>>
  /\ always = ToSet(entries)
  /\ removed = FALSE

-----------------------------------------------------------------------------
(***************************************************************************)
(* Others.  A new position is the last of its owner and its token gets the *)
(* next id; pools, operators and ticks may be added anywhere.  When a      *)
(* position goes, the later ones of its owner move up or the last one      *)
(* takes its place: the queries do not rely on either.                     *)
(***************************************************************************)
Change ==
  /\ pc \notin {"start", "done", "failed"}
  /\ changes < MaxChanges
  /\ changes' = changes + 1
  /\ UNCHANGED <<method, mine, pc, count, i, todo, result>>

AddEntry(id) ==
  /\ Change
  /\ id \notin ToSet(entries)
  /\ method \in Nfts \cup ByOffset => id = born + 1
  /\ born' = born + 1
  /\ entries' = IF method \in ByOffset THEN Append(entries, id)
                ELSE SortedOf(ToSet(entries) \cup {id})
  /\ UNCHANGED <<always, removed>>

RemoveEntry(k) ==
  /\ Change
  /\ \/ entries' = RemoveAt(entries, k)
     \/ method \in ByOffset /\ entries' = Front([entries EXCEPT ![k] = Last(entries)])
  /\ always' = always \ {entries[k]}
  /\ removed' = TRUE
  /\ UNCHANGED born

-----------------------------------------------------------------------------
(***************************************************************************)
(* What one call is answered.                                              *)
(***************************************************************************)
First(s, n) == SubSeq(s, 1, IF Len(s) < n THEN Len(s) ELSE n)

PageAfter(key, n) == First(SortedOf({id \in ToSet(entries) : id > key}), n)
PageFrom(offset, n) == First(SubSeq(entries, offset + 1, Len(entries)), n)

\* Mutant: the last entry is asked for again.
LastKeyInclusive == IF result = <<>> THEN 0 ELSE Last(result) - 1

LastKey == IF result = <<>> THEN 0 ELSE Last(result)

(***************************************************************************)
(* getPositions, getPools, approveForAll: until a page is not full.        *)
(***************************************************************************)
NextPage == IF method = "getPositions" THEN PageFrom(Len(result), CHUNK_QUERY)
            ELSE PageAfter(LastKey, CHUNK_QUERY)

Start ==
  /\ pc = "start"
  /\ pc' = IF method \in UntilShort THEN "page"
           ELSE IF method \in Counted THEN "counted" ELSE "chunks"
  /\ count' = IF method \in Counted THEN Len(entries) ELSE 0
  /\ todo' = IF method = "getAllLiquidityTicks" THEN entries ELSE <<>>
  /\ UNCHANGED <<i, result>>
  /\ UNCHANGED listVars

\* Mutants: stop one entry too early; never look at the size of the page.
QueryPageEarly ==
  /\ pc = "page"
  /\ result' = result \o NextPage
  /\ pc' = IF Len(NextPage) <= CHUNK_QUERY THEN "done" ELSE "page"
  /\ UNCHANGED <<count, i, todo>>
  /\ UNCHANGED listVars
QueryPageForever ==
  /\ pc = "page"
  /\ result' = result \o NextPage
  /\ UNCHANGED <<pc, count, i, todo>>
  /\ UNCHANGED listVars

QueryPage ==
  /\ pc = "page"
  /\ result' = result \o NextPage
  /\ pc' = IF Len(NextPage) < CHUNK_QUERY THEN "done" ELSE "page"
  /\ UNCHANGED <<count, i, todo>>
  /\ UNCHANGED listVars

(***************************************************************************)
(* getPositionTicks and tokens: a loop over 0, limit, 2*limit, ... below   *)
(* the count that was read at the start.  tokens passes the loop variable  *)
(* as the token id to start after, and its count is that of all owners.    *)
(***************************************************************************)
Step == IF method = "tokens" THEN CHUNK_QUERY ELSE POSITION_TICKS_LIMIT

\* Mutant: the loop is never left.
QueryFromForever ==
  /\ pc = "counted" /\ method \in {"getPositionTicks", "tokens"}
  /\ i' = i + Step
  /\ UNCHANGED <<pc, count, todo, result>>
  /\ UNCHANGED listVars

QueryFrom ==
  /\ pc = "counted" /\ method \in {"getPositionTicks", "tokens"}
  /\ i < count
  /\ result' = result \o
       IF method = "tokens"
       THEN First(SortedOf({id \in ToSet(entries) : id > i /\ id \in mine}), CHUNK_QUERY)
       ELSE PageFrom(i, POSITION_TICKS_LIMIT)
  /\ i' = i + Step
  /\ UNCHANGED <<pc, count, todo>>
  /\ UNCHANGED listVars

\* allTokens: until as many tokens are collected as there were at the start.
QueryAllTokens ==
  /\ pc = "counted" /\ method \in {"allTokens", "allPositions"}
  /\ Len(result) < count
  /\ result' = result \o PageAfter(LastKey, CHUNK_QUERY)
  /\ UNCHANGED <<pc, count, i, todo>>
  /\ UNCHANGED listVars

\* The loop is over: the list is returned, or allPositions goes on with it.
LoopEnds ==
  /\ pc = "counted"
  /\ IF method \in {"allTokens", "allPositions"} THEN Len(result) >= count ELSE i >= count
  /\ IF method = "allPositions"
     THEN pc' = "chunks" /\ todo' = result /\ result' = <<>>
     ELSE pc' = "done" /\ UNCHANGED <<todo, result>>
  /\ UNCHANGED <<count, i>>
  /\ UNCHANGED listVars

(***************************************************************************)
(* allPositions and liquidityTicks: chunks of a list that was read before, *)
(* until it is used up.  The whole query throws if one entry is gone.      *)
(***************************************************************************)
ChunkSize == IF method = "allPositions" THEN Multicall ELSE LIQUIDITY_TICKS_LIMIT

\* Mutant: the places in the list are taken for the ids.
QueryChunkByPlace ==
  /\ pc = "chunks"
  /\ LET chunk == First(todo, ChunkSize) IN
     IF \A k \in DOMAIN chunk : Len(result) + k \in ToSet(entries)
     THEN /\ result' = result \o [k \in DOMAIN chunk |-> Len(result) + k]
          /\ todo' = SubSeq(todo, Len(chunk) + 1, Len(todo))
          /\ pc' = IF todo' = <<>> THEN "done" ELSE "chunks"
     ELSE pc' = "failed" /\ UNCHANGED <<result, todo>>
  /\ UNCHANGED <<count, i>>
  /\ UNCHANGED listVars

QueryChunk ==
  /\ pc = "chunks"
  /\ LET chunk == First(todo, ChunkSize) IN
     IF ToSet(chunk) \subseteq ToSet(entries)
     THEN /\ result' = result \o chunk
          /\ todo' = SubSeq(todo, Len(chunk) + 1, Len(todo))
          /\ pc' = IF todo' = <<>> THEN "done" ELSE "chunks"
     ELSE pc' = "failed" /\ UNCHANGED <<result, todo>>
  /\ UNCHANGED <<count, i>>
  /\ UNCHANGED listVars

Query == Start \/ QueryPage \/ QueryFrom \/ QueryAllTokens \/ LoopEnds \/ QueryChunk

Next ==
  \/ Query
  \/ \E id \in Ids : AddEntry(id)
  \/ \E k \in DOMAIN entries : RemoveEntry(k)

\* Every call is answered; nobody has to change the list.
Spec == Init /\ [][Next]_vars /\ WF_vars(Query)

-----------------------------------------------------------------------------
\* Each variable has its type.
TypeOK ==
  /\ method \in Methods
  /\ mine \subseteq Ids
  /\ entries \in Seq(Ids) /\ todo \in Seq(Ids) /\ result \in Seq(Ids)
  /\ born \in MaxStart..(MaxStart + MaxChanges)
  /\ changes \in 0..MaxChanges
  /\ pc \in {"start", "page", "counted", "chunks", "done", "failed"}
  /\ count \in 0..(MaxStart + MaxChanges)
  /\ i \in 0..(count + Step)
  /\ always \subseteq Ids
  /\ removed \in BOOLEAN

\* tokens(owner) is right only while the ids of all tokens are 1, 2, 3, ...
Dense == ToSet(entries) = 1..Len(entries)

\* An entry that is there throughout is returned.  Reading by offset promises
\* that only as long as nothing is removed, tokens as long as ids are dense.
NoneMissed ==
  pc = "done" =>
    \/ always \cap mine \subseteq ToSet(result)
    \/ method \in ByOffset /\ removed
    \/ method = "tokens" /\ (removed \/ ~Dense)

\* Nothing is returned twice, whatever is added or removed between the pages.
\* (tokens returns entries twice, see the README.)
NoDuplicates == method # "tokens" => IsInjective(result)

\* A query over a list that was read before throws only if an entry of the
\* list has been removed meanwhile.
FailsOnlyWhenRemoved == pc = "failed" => removed

\* Every query ends.  allTokens goes on for ever when a token is burned before
\* it is read: the pages are empty and the count is never reached.
Returns ==
  pc # "start" ~> \/ pc \in {"done", "failed"}
                  \/ method \in {"allTokens", "allPositions"} /\ removed
=============================================================================
