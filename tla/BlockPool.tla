------------------------------ MODULE BlockPool ------------------------------
(***************************************************************************)
(* The pool of VPageBlocks (viper.hpp): a client claims a block with a CAS *)
(* on current_block_page_, walks through its pages, and claims the next    *)
(* one; a client that finds the pool nearly full starts the resize thread, *)
(* which maps more blocks and publishes them; the prefault worker runs     *)
(* ahead of the claims; a killed process is followed by a reopen from the  *)
(* metadata line.                                                          *)
(*                                                                         *)
(* Reclamation is off, as HiOM requires (hiom.hpp:316), so free_blocks_ is *)
(* empty and get_block_based_access always asks for a new block.  A page   *)
(* holds a record or not; Frontier and PageLock have what is inside.       *)
(***************************************************************************)
EXTENDS Integers

CONSTANTS
    Clients,
    NumPages,          \* num_pages_per_block
    StartPages,        \* the values of rand() % num_pages_per_block
    AllocBlocks,       \* blocks of one mapping: alloc_size / sizeof(VPageBlock)
    ResizePercent,     \* resize_threshold_, in percent
    RunwayBlocks,      \* prefault_runway_blocks
    MaxClaims,         \* bound: requests for a block
    MaxCrashes         \* bound: killed processes

ASSUME PoolAssumption ==
    /\ NumPages \in Nat \ {0} /\ AllocBlocks \in Nat \ {0}
    /\ StartPages \subseteq 0 .. NumPages - 1 /\ StartPages # {}
    /\ ResizePercent \in 0 .. 100
    /\ RunwayBlocks \in Nat /\ RunwayBlocks >= 2
ASSUME PoolBounds == MaxClaims \in Nat /\ MaxCrashes \in Nat

Pages  == 0 .. NumPages - 1
\* A request claims at most one block and starts at most one resize.
Blocks      == 0 .. MaxClaims - 1
MaxMappings == MaxClaims + 1

VARIABLES
    current_block_page,    \* the next block to claim, and the page to start at
    v_blocks,              \* v_blocks_.size()
    num_v_blocks,
    is_resizing,
    is_v_blocks_resizing,
    metadata, pmem,        \* num_used_blocks and mappings: in the cache, and durable
    pages,                 \* "zero", "init" or "record", of each page
    resizer,               \* where the resize thread is
    pc, cursor, block, page, processed,    \* each client
    claims,
    prefault_hi,           \* the blocks the prefault worker has populated
    written,               \* history: the pages a completed put left a record in
    crashes

poolVars     == <<current_block_page, pages>>
vectorVars   == <<v_blocks, num_v_blocks, is_v_blocks_resizing>>
resizeVars   == <<is_resizing, resizer>>
metaVars     == <<metadata, pmem>>
clientVars   == <<cursor, block, page, processed, claims>>
vars == <<poolVars, vectorVars, resizeVars, metaVars, pc, clientVars, prefault_hi,
          written, crashes>>

None     == MaxClaims                       \* not a block
NoCursor == [block |-> 0, page |-> 0]

\* init_pool and the constructor: the blocks of every mapping are published
\* before a client exists, and the claims go on above num_used_blocks.
Opened(meta) ==
    /\ current_block_page' = [block |-> meta.used, page |-> 0]
    /\ v_blocks' = meta.mappings * AllocBlocks
    /\ num_v_blocks' = meta.mappings * AllocBlocks
    /\ is_v_blocks_resizing' = FALSE
    /\ is_resizing' = FALSE /\ resizer' = "off"
    /\ metadata' = meta
    /\ prefault_hi' = 0

NewPool == [used |-> 0, mappings |-> 1]

Init ==
    /\ current_block_page = NoCursor
    /\ v_blocks = AllocBlocks /\ num_v_blocks = AllocBlocks
    /\ is_v_blocks_resizing = FALSE
    /\ is_resizing = FALSE /\ resizer = "off"
    /\ metadata = NewPool /\ pmem = NewPool
    /\ pages = [b \in Blocks |-> [p \in Pages |-> "zero"]]
    /\ pc = [c \in Clients |-> "none"]
    /\ cursor = [c \in Clients |-> NoCursor]
    /\ block = [c \in Clients |-> None] /\ page = [c \in Clients |-> 0]
    /\ processed = [c \in Clients |-> 0] /\ claims = 0
    /\ prefault_hi = 0
    /\ written = {} /\ crashes = 0

Goto(c, l) == pc' = [pc EXCEPT ![c] = l]
InitPage(b, p) == pages' = [pages EXCEPT ![b][p] = "init"]

-----------------------------------------------------------------------------
(* A client asks for a block: get_new_access_information,                  *)
(* get_block_based_access and get_new_block.                               *)

Asks(c) ==
    /\ claims < MaxClaims
    /\ claims' = claims + 1
    /\ Goto(c, "check")

get_client(c) ==
    /\ pc[c] = "none"
    /\ Asks(c)
    /\ UNCHANGED <<poolVars, vectorVars, resizeVars, metaVars, cursor, block, page, processed,
                   prefault_hi, written, crashes>>

\* Mutant: the pool grows only once a claim is beyond it.
NearlyFullLate(b) == b > v_blocks

NearlyFull(b) == b * 100 > ResizePercent * v_blocks

\* The size is read while the resize thread may be appending to the vector.
get_new_access_information(c) ==
    /\ pc[c] = "check"
    /\ Goto(c, IF NearlyFull(current_block_page.block) THEN "trigger" ELSE "claim")
    /\ UNCHANGED <<poolVars, vectorVars, resizeVars, metaVars, clientVars, prefault_hi,
                   written, crashes>>

\* trigger_resize: one of the clients wins the CAS and starts the thread.
trigger_resize(c) ==
    /\ pc[c] = "trigger"
    /\ is_resizing' = TRUE
    /\ resizer' = IF is_resizing THEN resizer ELSE "map"
    /\ Goto(c, "claim")
    /\ UNCHANGED <<poolVars, vectorVars, metaVars, clientVars, prefault_hi, written, crashes>>

\* Mutant: the block is not waited for.
BlockMappedUnchecked(b) == TRUE

BlockMapped(b) == b < num_v_blocks

\* get_new_block: the load, and the spin until the block is mapped.
LoadBlock(c) ==
    /\ pc[c] = "claim"
    /\ BlockMapped(current_block_page.block)
    /\ cursor' = [cursor EXCEPT ![c] = current_block_page]
    /\ Goto(c, "cas")
    /\ UNCHANGED <<poolVars, vectorVars, resizeVars, metaVars, block, page, processed, claims,
                   prefault_hi, written, crashes>>

\* Mutant: a load and a store instead of the CAS.
CursorUnchangedUnchecked(c) == TRUE

CursorUnchanged(c) == current_block_page = cursor[c]

\* The next claimant starts at a random page of the next block.
CasCursor(c) ==
    /\ pc[c] = "cas"
    /\ CursorUnchanged(c)
    /\ \E p \in StartPages :
           current_block_page' = [block |-> cursor[c].block + 1, page |-> p]
    /\ processed' = [processed EXCEPT ![c] = 0]
    /\ Goto(c, "wait")
    /\ UNCHANGED <<pages, vectorVars, resizeVars, metaVars, cursor, block, page, claims,
                   prefault_hi, written, crashes>>

CasFails(c) ==
    /\ pc[c] = "cas"
    /\ ~CursorUnchanged(c)
    /\ Goto(c, "claim")
    /\ UNCHANGED <<poolVars, vectorVars, resizeVars, metaVars, clientVars, prefault_hi,
                   written, crashes>>

WaitForMove(c) ==
    /\ pc[c] = "wait"
    /\ ~is_v_blocks_resizing
    /\ Goto(c, "index")
    /\ UNCHANGED <<poolVars, vectorVars, resizeVars, metaVars, clientVars, prefault_hi,
                   written, crashes>>

\* v_blocks_[client_block], init of the page, and the fetch_max of
\* num_used_blocks; the CLIENT_BIT is for reclaim only.  A read that meets the
\* vector while it moves finds the right block or faults: Crash is that outcome.
IndexBlock(c) ==
    /\ pc[c] = "index"
    /\ block' = [block EXCEPT ![c] = cursor[c].block]
    /\ page' = [page EXCEPT ![c] = cursor[c].page]
    /\ cursor' = [cursor EXCEPT ![c] = NoCursor]
    /\ InitPage(cursor[c].block, cursor[c].page)
    /\ metadata' = [metadata EXCEPT !.used = IF @ > cursor[c].block THEN @ ELSE cursor[c].block + 1]
    /\ Goto(c, "persist")
    /\ UNCHANGED <<current_block_page, vectorVars, resizeVars, pmem, processed, claims,
                   prefault_hi, written, crashes>>

PersistClaim(c) ==
    /\ pc[c] = "persist"
    /\ pmem' = metadata
    /\ Goto(c, "own")
    /\ UNCHANGED <<poolVars, vectorVars, resizeVars, metadata, clientVars, prefault_hi, written,
                   crashes>>

-----------------------------------------------------------------------------
(* A client that owns a block.                                             *)

\* The puts that fill the page, each durable when it returns.
FillPage(c) ==
    /\ pc[c] = "own"
    /\ pages[block[c]][page[c]] = "init"
    /\ pages' = [pages EXCEPT ![block[c]][page[c]] = "record"]
    /\ written' = written \cup {<<block[c], page[c]>>}
    /\ UNCHANGED <<current_block_page, vectorVars, resizeVars, metaVars, pc, clientVars,
                   prefault_hi, crashes>>

\* Mutant: one page more than the block has.
LastPageLate(n) == n = NumPages + 1

LastPage(n) == n = NumPages

NextPage(p) == (p + 1) % NumPages

\* update_access_information, called by a put that finds its page full; the
\* init at its end repeats the one of get_block_based_access.
update_access_information(c) ==
    /\ pc[c] = "own"
    /\ pages[block[c]][page[c]] = "record"
    /\ processed' = [processed EXCEPT ![c] = @ + 1]
    /\ \/ /\ LastPage(processed[c] + 1)
          /\ Asks(c)
          /\ UNCHANGED <<page, pages>>
       \/ /\ ~LastPage(processed[c] + 1)
          /\ page' = [page EXCEPT ![c] = NextPage(@)]
          /\ InitPage(block[c], NextPage(page[c]))
          /\ UNCHANGED <<pc, claims>>
    /\ UNCHANGED <<current_block_page, vectorVars, resizeVars, metaVars, cursor, block,
                   prefault_hi, written, crashes>>

\* ~Client: what is left of its block is not used again.
remove_client(c) ==
    /\ pc[c] = "own"
    /\ block' = [block EXCEPT ![c] = None] /\ page' = [page EXCEPT ![c] = 0]
    /\ processed' = [processed EXCEPT ![c] = 0]
    /\ Goto(c, "none")
    /\ UNCHANGED <<poolVars, vectorVars, resizeVars, metaVars, cursor, claims, prefault_hi,
                   written, crashes>>

-----------------------------------------------------------------------------
(* The resize thread: allocate_v_page_blocks, add_v_page_blocks.           *)

ResizeStep(from, to) == resizer = from /\ resizer' = to
ResizeUnchanged == UNCHANGED <<poolVars, pc, clientVars, prefault_hi, written, crashes>>

\* Mutant: total_mapped_size does not follow the new mapping.
CountMappingForgotten ==
    /\ ResizeStep("map", "persist")
    /\ ResizeUnchanged /\ UNCHANGED <<vectorVars, is_resizing, metaVars>>

CountMapping ==
    /\ ResizeStep("map", "persist")
    /\ metadata' = [metadata EXCEPT !.mappings = @ + 1]
    /\ ResizeUnchanged /\ UNCHANGED <<vectorVars, is_resizing, pmem>>

PersistMapping ==
    /\ ResizeStep("persist", "reserve")
    /\ pmem' = metadata
    /\ ResizeUnchanged /\ UNCHANGED <<vectorVars, is_resizing, metadata>>

ReserveBegin ==
    /\ ResizeStep("reserve", "move")
    /\ is_v_blocks_resizing' = TRUE
    /\ ResizeUnchanged /\ UNCHANGED <<v_blocks, num_v_blocks, is_resizing, metaVars>>

ReserveEnd ==
    /\ ResizeStep("move", "push")
    /\ is_v_blocks_resizing' = FALSE
    /\ ResizeUnchanged /\ UNCHANGED <<v_blocks, num_v_blocks, is_resizing, metaVars>>

\* push_back of the blocks, one at a time.
PushBlock ==
    /\ resizer = "push"
    /\ v_blocks' = v_blocks + 1
    /\ resizer' = IF v_blocks' % AllocBlocks = 0 THEN "publish" ELSE "push"
    /\ ResizeUnchanged /\ UNCHANGED <<num_v_blocks, is_v_blocks_resizing, is_resizing, metaVars>>

PublishBlocks ==
    /\ ResizeStep("publish", "end")
    /\ num_v_blocks' = v_blocks
    /\ ResizeUnchanged /\ UNCHANGED <<v_blocks, is_v_blocks_resizing, is_resizing, metaVars>>

EndResize ==
    /\ ResizeStep("end", "off")
    /\ is_resizing' = FALSE
    /\ ResizeUnchanged /\ UNCHANGED <<vectorVars, metaVars>>

-----------------------------------------------------------------------------
(* prefault_runway: look, and populate up to a runway ahead of the claims. *)

LowWater == RunwayBlocks \div 2

Ahead == IF prefault_hi > current_block_page.block
         THEN prefault_hi - current_block_page.block ELSE 0

\* One round of the worker; it sleeps while there is nothing to map or enough
\* is mapped.
Prefault ==
    /\ ~is_v_blocks_resizing
    /\ prefault_hi < num_v_blocks /\ Ahead < LowWater
    /\ LET want == current_block_page.block + RunwayBlocks IN
       prefault_hi' = IF want < num_v_blocks THEN want ELSE num_v_blocks
    /\ UNCHANGED <<poolVars, vectorVars, resizeVars, metaVars, pc, clientVars, written, crashes>>

-----------------------------------------------------------------------------
(* The environment.                                                        *)

\* The metadata line leaves the cache.
WriteBack ==
    /\ pmem # metadata
    /\ pmem' = metadata
    /\ UNCHANGED <<poolVars, vectorVars, resizeVars, metadata, pc, clientVars, prefault_hi,
                   written, crashes>>

\* Power fails or the process faults, and the pool is opened again.
Crash ==
    /\ crashes < MaxCrashes
    /\ crashes' = crashes + 1
    /\ Opened(pmem)
    /\ pc' = [c \in Clients |-> "none"]
    /\ block' = [c \in Clients |-> None]
    /\ cursor' = [c \in Clients |-> NoCursor]
    /\ page' = [c \in Clients |-> 0] /\ processed' = [c \in Clients |-> 0]
    /\ UNCHANGED <<pages, pmem, claims, written>>

ClaimStep(c) ==
    \/ get_new_access_information(c) \/ trigger_resize(c)
    \/ LoadBlock(c) \/ CasCursor(c) \/ CasFails(c)
    \/ WaitForMove(c) \/ IndexBlock(c) \/ PersistClaim(c)

ClientStep(c) ==
    \/ get_client(c) \/ ClaimStep(c) \/ FillPage(c)
    \/ update_access_information(c) \/ remove_client(c)

ResizeThread ==
    \/ CountMapping \/ PersistMapping \/ ReserveBegin \/ ReserveEnd
    \/ PushBlock \/ PublishBlocks \/ EndResize

Next == (\E c \in Clients : ClientStep(c)) \/ ResizeThread \/ Prefault \/ WriteBack \/ Crash

Spec == Init /\ [][Next]_vars

\* A claim runs to its end once begun; the two background threads run.
Fairness ==
    /\ \A c \in Clients : WF_vars(ClaimStep(c))
    /\ WF_vars(ResizeThread)
    /\ WF_vars(Prefault)

FairSpec == Spec /\ Fairness

-----------------------------------------------------------------------------
(* Properties.                                                             *)

Meta == [used : 0 .. MaxClaims, mappings : 1 .. MaxMappings]

\* The types of the variables: no block number beyond the requests made, no
\* page number beyond the block.
PoolTypeOK ==
    /\ current_block_page \in [block : 0 .. MaxClaims, page : Pages]
    /\ v_blocks \in 0 .. MaxMappings * AllocBlocks
    /\ num_v_blocks \in 0 .. MaxMappings * AllocBlocks
    /\ is_resizing \in BOOLEAN /\ is_v_blocks_resizing \in BOOLEAN
    /\ metadata \in Meta /\ pmem \in Meta
    /\ pages \in [Blocks -> [Pages -> {"zero", "init", "record"}]]
    /\ resizer \in {"off", "map", "persist", "reserve", "move", "push", "publish", "end"}
    /\ pc \in [Clients -> {"none", "check", "trigger", "claim", "cas", "wait",
                           "index", "persist", "own"}]
    /\ cursor \in [Clients -> [block : 0 .. MaxClaims, page : Pages]]
    /\ block \in [Clients -> Blocks \cup {None}]
    /\ page \in [Clients -> Pages] /\ processed \in [Clients -> 0 .. NumPages]
    /\ claims \in 0 .. MaxClaims
    /\ prefault_hi \in 0 .. MaxMappings * AllocBlocks
    /\ written \subseteq Blocks \X Pages /\ crashes \in 0 .. MaxCrashes

\* The block a client has claimed and not left.
Holds(c) == IF pc[c] \in {"wait", "index"} THEN cursor[c].block ELSE block[c]
Owners   == {c \in Clients : pc[c] \in {"wait", "index", "persist", "own"}}

\* Two clients never hold the same block: get_new_block hands out each block
\* once, to whoever wins the CAS, and a reopened pool goes on above the blocks
\* of the process before it.  With the types: no page number leaves its block.
OneOwner ==
    /\ PoolTypeOK
    /\ \A c, d \in Owners : c # d => Holds(c) # Holds(d)

\* A record that a completed put left in a page stays there: no init of a page
\* (get_block_based_access, update_access_information), by this client, another
\* one or a later process, meets a page with records.
RecordsKept == \A w \in written : pages[w[1]][w[2]] = "record"

\* No client indexes v_blocks_ at or above its size, and the prefault worker
\* does not either, whatever the resize thread is doing (get_block_based_access,
\* prefault_runway).
IndexInRange ==
    /\ \A c \in Clients : pc[c] = "index" => cursor[c].block < v_blocks
    /\ prefault_hi <= v_blocks

\* Whatever part of the metadata is durable, the mappings it counts hold every
\* block it calls used: the recovery after a crash scans v_blocks_ up to
\* num_used_blocks (recover_database, allocate_v_page_blocks).
UsedIsMapped == pmem.used <= pmem.mappings * AllocBlocks

\* A client that asks for a block gets one: the resize thread publishes blocks
\* before the clients that passed the threshold check run out of them, or while
\* they spin in get_new_block.
ClaimsEnd ==
    \A c \in Clients : (pc[c] \notin {"none", "own"}) ~> (pc[c] \in {"none", "own"})
=============================================================================
