--------------------------- MODULE BlockPoolProofs ---------------------------
(***************************************************************************)
(* The safety properties of BlockPool, proved for any number of clients,   *)
(* pages, blocks per mapping, claims and crashes.                          *)
(***************************************************************************)
EXTENDS BlockPool, FiniteSetTheorems, TLAPS

(***************************************************************************)
(* The inductive invariant.                                                *)
(***************************************************************************)
Claiming == {c \in Clients : pc[c] \in {"check", "trigger", "claim", "cas"}}
Starting == {c \in Clients : pc[c] \in {"check", "trigger"}}

\* A request claims at most one block and starts at most one resize: the
\* requests still on their way, and a resize not yet counted, are paid for.
Counted ==
    /\ IsFiniteSet(Claiming) /\ IsFiniteSet(Starting)
    /\ current_block_page.block + Cardinality(Claiming) <= claims
    /\ metadata.mappings + Cardinality(Starting) + (IF resizer = "map" THEN 1 ELSE 0)
         <= claims + 1
    /\ pmem.mappings <= metadata.mappings

Growing == resizer \in {"persist", "reserve", "move", "push", "publish"}

\* What the resize thread has counted, appended and published.
Vector ==
    /\ is_resizing <=> resizer # "off"
    /\ metadata.mappings * AllocBlocks = num_v_blocks + (IF Growing THEN AllocBlocks ELSE 0)
    /\ resizer \notin {"push", "publish"} => v_blocks = num_v_blocks
    /\ resizer = "push" => num_v_blocks <= v_blocks /\ v_blocks < num_v_blocks + AllocBlocks
    /\ resizer = "publish" => v_blocks = num_v_blocks + AllocBlocks
    /\ prefault_hi <= num_v_blocks

\* The blocks in use: published, below the cursor, and counted by the metadata
\* before their client writes to them.
Claimed ==
    /\ metadata.used <= current_block_page.block /\ metadata.used <= num_v_blocks
    /\ pmem.used <= metadata.used /\ pmem.used <= pmem.mappings * AllocBlocks
    /\ \A c \in Clients :
         /\ pc[c] \in {"cas", "wait", "index"} => cursor[c].block < num_v_blocks
         /\ c \in Owners => Holds(c) < current_block_page.block
         /\ pc[c] = "persist" => block[c] < metadata.used
         /\ pc[c] = "own" => block[c] < pmem.used
    /\ \A c, d \in Owners : c # d => Holds(c) # Holds(d)

\* Steps from page p to page q, going round the block.
Distance(p, q) == IF p <= q THEN q - p ELSE q + NumPages - p

\* Records are in blocks the metadata counts; a client has passed the pages of
\* its block that have records since it took the block.
Walk ==
    /\ \A w \in written : w[1] < pmem.used /\ pages[w[1]][w[2]] = "record"
    /\ \A c \in Clients :
         /\ pc[c] \in {"wait", "index", "persist"} =>
              processed[c] = 0 /\ \A w \in written : w[1] # Holds(c)
         /\ pc[c] = "own" =>
              /\ processed[c] < NumPages
              /\ \A w \in written : w[1] = block[c] => Distance(w[2], page[c]) <= processed[c]

PoolInv == PoolTypeOK /\ Counted /\ Vector /\ Claimed /\ Walk

-----------------------------------------------------------------------------
(* Arithmetic of symbolic sizes.                                           *)

\* A product of naturals is a natural, and grows with its first factor.
LEMMA Products ==
    ASSUME NEW a \in Nat, NEW b \in Nat, NEW m \in Nat, a <= b
    PROVE  a * m \in Nat /\ b * m \in Nat /\ a * m <= b * m /\ (a + 1) * m = a * m + m
<1>1. b = a + (b - a) /\ b - a \in Nat
  OBVIOUS
<1>2. (b - a) * m \in Nat /\ a * m \in Nat /\ b * m \in Nat
  BY <1>1
<1>3. b * m = a * m + (b - a) * m
  BY <1>1
<1> QED
  BY <1>2, <1>3

\* Between two multiples of m there is no other one.
LEMMA NextMultiple ==
    ASSUME NEW m \in Nat \ {0}, NEW k \in Nat, NEW r \in 1 .. m
    PROVE  (k * m + r) % m = 0 <=> r = m
<1> DEFINE x == k * m + r
           d == x \div m
           e == x % m
<1>1. k * m \in Nat /\ x \in Nat
  OBVIOUS
<1>2. d \in Int /\ e \in Int /\ x = d * m + e /\ 0 <= e /\ e < m
  BY <1>1
<1> HIDE DEF d, e
<1>3. ASSUME e = 0 PROVE r = m
  <2>1. (d - k) * m = r
    BY <1>1, <1>2, <1>3
  <2>2. d - k >= 1
    BY <1>2, <2>1
  <2>3. (d - k - 1) * m >= 0
    BY <1>2, <2>2
  <2> QED
    BY <1>2, <2>1, <2>2, <2>3
<1>4. ASSUME r = m PROVE e = 0
  <2>1. (k + 1 - d) * m = e
    BY <1>1, <1>2, <1>4
  <2>2. k + 1 - d <= 0
    <3> SUFFICES ASSUME k + 1 - d >= 1 PROVE FALSE
      BY <1>2
    <3>1. (k + 1 - d - 1) * m >= 0
      BY <1>2
    <3> QED
      BY <1>2, <2>1, <3>1
  <2>3. (d - k - 1) * m >= 0
    BY <1>2, <2>2
  <2> QED
    BY <1>2, <2>1, <2>3
<1> QED
  BY <1>3, <1>4 DEF e


\* The step from one page to the next, going round the block.
LEMMA NextPageValue ==
    ASSUME NEW p \in Pages
    PROVE  NextPage(p) \in Pages /\ NextPage(p) = IF p + 1 = NumPages THEN 0 ELSE p + 1
<1>1. NumPages \in Nat \ {0} /\ p \in Nat /\ p + 1 \in 1 .. NumPages
  BY PoolAssumption DEF Pages
<1>2. (p + 1) % NumPages = IF p + 1 = NumPages THEN 0 ELSE p + 1
  <2>1. CASE p + 1 = NumPages
    <3>1. (0 * NumPages + (p + 1)) % NumPages = 0
      BY <1>1, <2>1, NextMultiple
    <3> QED
      BY <1>1, <2>1, <3>1
  <2>2. CASE p + 1 # NumPages
    BY <1>1, <2>2
  <2> QED
    BY <2>1, <2>2
<1> QED
  BY <1>1, <1>2 DEF NextPage, Pages

\* A page passed at most n steps ago, n short of a round, is not the next one,
\* and is passed at most n + 1 steps ago then.
LEMMA StepOn ==
    ASSUME NEW p \in Pages, NEW q \in Pages, NEW n \in Nat, n + 1 < NumPages,
           Distance(q, p) <= n
    PROVE  Distance(q, NextPage(p)) <= n + 1 /\ q # NextPage(p)
<1>1. NextPage(p) = IF p + 1 = NumPages THEN 0 ELSE p + 1
  BY NextPageValue
<1> QED
  BY <1>1, PoolAssumption DEF Distance, Pages

\* What the invariant says of the numbers a client keeps.
Known(c) ==
    /\ block[c] \in Int /\ Holds(c) \in Int
    /\ cursor[c].block \in 0 .. MaxClaims /\ cursor[c].page \in Pages /\ page[c] \in Pages
    /\ pc[c] \in {"wait", "index"} => cursor[c].block \in Blocks
    /\ pc[c] \in {"persist", "own"} => block[c] \in Blocks

\* A client's page is a page, and a block it holds is a block.
LEMMA ClientsKnown == ASSUME PoolInv PROVE \A c \in Clients : Known(c)
<1> TAKE c \in Clients
<1> USE PoolBounds
<1>1. PoolTypeOK /\ Claimed
  BY DEF PoolInv
<1>2. block[c] \in Int
  BY <1>1 DEF PoolTypeOK, Blocks, None
<1>3. cursor[c].block \in 0 .. MaxClaims /\ cursor[c].page \in Pages /\ page[c] \in Pages
  BY <1>1 DEF PoolTypeOK
<1>4. Holds(c) \in Int
  BY <1>2, <1>3 DEF Holds
<1>5. c \in Owners => Holds(c) < MaxClaims
  <2>1. current_block_page.block \in 0 .. MaxClaims
    BY <1>1 DEF PoolTypeOK
  <2> QED
    BY <1>1, <1>4, <2>1 DEF Claimed
<1>6. ASSUME pc[c] \in {"wait", "index"} PROVE cursor[c].block \in Blocks
  BY <1>3, <1>5, <1>6 DEF Blocks, Owners, Holds
<1>7. ASSUME pc[c] \in {"persist", "own"} PROVE block[c] \in Blocks
  BY <1>1, <1>5, <1>7 DEF PoolTypeOK, Blocks, None, Owners, Holds
<1> QED
  BY <1>2, <1>3, <1>4, <1>6, <1>7 DEF Known

\* The numbers of the pool itself.
LEMMA PoolKnown ==
    ASSUME PoolInv
    PROVE  /\ current_block_page.block \in Nat
           /\ metadata.used \in Nat /\ metadata.mappings \in Nat
           /\ pmem.used \in Nat /\ pmem.mappings \in Nat
           /\ metadata.used <= metadata.mappings * AllocBlocks
           /\ \A w \in written : w[1] \in Blocks /\ w[2] \in Pages /\ w[1] \in Nat
<1> USE PoolAssumption, PoolBounds DEF PoolInv, PoolTypeOK
<1>1. metadata.used \in Nat /\ metadata.mappings \in Nat /\ pmem.used \in Nat /\ pmem.mappings \in Nat
  BY DEF Meta, MaxMappings
<1>2. metadata.used <= metadata.mappings * AllocBlocks
  BY <1>1 DEF Vector, Growing, Claimed
<1>3. \A w \in written : w[1] \in Blocks /\ w[2] \in Pages /\ w[1] \in Nat
  BY DEF Blocks
<1> QED
  BY <1>1, <1>2, <1>3
-----------------------------------------------------------------------------
(* Every step keeps every part.                                            *)

\* The resize thread counts, appends and publishes one mapping at a time.
LEMMA VectorNext == PoolInv /\ [Next]_vars => Vector'
<1> SUFFICES ASSUME PoolInv, [Next]_vars PROVE Vector'
  OBVIOUS
<1> USE PoolAssumption, PoolBounds DEF PoolInv, PoolTypeOK, Meta, vars, poolVars, vectorVars, resizeVars, metaVars, clientVars
<1>1. ASSUME NEW c \in Clients, get_client(c) PROVE Vector'
  BY <1>1 DEF Vector, Growing, get_client, Goto, Asks
<1>2. ASSUME NEW c \in Clients, get_new_access_information(c) PROVE Vector'
  BY <1>2 DEF Vector, Growing, get_new_access_information, Goto
<1>3. ASSUME NEW c \in Clients, trigger_resize(c) PROVE Vector'
  BY <1>3 DEF Vector, Growing, trigger_resize, Goto
<1>4. ASSUME NEW c \in Clients, LoadBlock(c) PROVE Vector'
  BY <1>4 DEF Vector, Growing, LoadBlock, Goto, BlockMapped
<1>5. ASSUME NEW c \in Clients, CasCursor(c) PROVE Vector'
  BY <1>5 DEF Vector, Growing, CasCursor, Goto, CursorUnchanged
<1>6. ASSUME NEW c \in Clients, CasFails(c) PROVE Vector'
  BY <1>6 DEF Vector, Growing, CasFails, Goto, CursorUnchanged
<1>7. ASSUME NEW c \in Clients, WaitForMove(c) PROVE Vector'
  BY <1>7 DEF Vector, Growing, WaitForMove, Goto
<1>8. ASSUME NEW c \in Clients, IndexBlock(c) PROVE Vector'
  BY <1>8 DEF Vector, Growing, IndexBlock, Goto, InitPage
<1>9. ASSUME NEW c \in Clients, PersistClaim(c) PROVE Vector'
  BY <1>9 DEF Vector, Growing, PersistClaim, Goto
<1>10. ASSUME NEW c \in Clients, FillPage(c) PROVE Vector'
  BY <1>10 DEF Vector, Growing, FillPage, Goto
<1>11. ASSUME NEW c \in Clients, update_access_information(c) PROVE Vector'
  BY <1>11 DEF Vector, Growing, update_access_information, Goto, InitPage, Asks, LastPage
<1>12. ASSUME NEW c \in Clients, remove_client(c) PROVE Vector'
  BY <1>12 DEF Vector, Growing, remove_client, Goto
<1>13. ASSUME CountMapping PROVE Vector'
  <2>1. metadata'.mappings * AllocBlocks = metadata.mappings * AllocBlocks + AllocBlocks
    <3>1. metadata.mappings \in Nat /\ metadata'.mappings = metadata.mappings + 1
      BY <1>13 DEF CountMapping, ResizeStep, ResizeUnchanged
    <3> QED
      BY <3>1, Products
  <2> QED
    BY <1>13, <2>1 DEF Vector, Growing, CountMapping, ResizeStep, ResizeUnchanged
<1>14. ASSUME PersistMapping PROVE Vector'
  BY <1>14 DEF Vector, Growing, PersistMapping, ResizeStep, ResizeUnchanged
<1>15. ASSUME ReserveBegin PROVE Vector'
  BY <1>15 DEF Vector, Growing, ReserveBegin, ResizeStep, ResizeUnchanged
<1>16. ASSUME ReserveEnd PROVE Vector'
  BY <1>16 DEF Vector, Growing, ReserveEnd, ResizeStep, ResizeUnchanged
<1>17. ASSUME PushBlock PROVE Vector'
  <2> DEFINE k == metadata.mappings - 1
             r == v_blocks + 1 - num_v_blocks
  <2>1. k \in Nat /\ num_v_blocks = k * AllocBlocks
    <3>1. k \in Nat /\ metadata.mappings = k + 1
      OBVIOUS
    <3>2. metadata.mappings * AllocBlocks = num_v_blocks + AllocBlocks
      BY <1>17 DEF Vector, Growing, PushBlock, ResizeUnchanged
    <3> HIDE DEF k
    <3> QED
      BY <3>1, <3>2, Products
  <2>2. r \in 1 .. AllocBlocks /\ v_blocks' = k * AllocBlocks + r
    BY <1>17, <2>1 DEF Vector, PushBlock, ResizeUnchanged
  <2>3. v_blocks' % AllocBlocks = 0 <=> r = AllocBlocks
    <3> HIDE DEF k, r
    <3> QED
      BY <2>1, <2>2, NextMultiple
  <2> QED
    BY <1>17, <2>3 DEF Vector, Growing, PushBlock, ResizeUnchanged
<1>18. ASSUME PublishBlocks PROVE Vector'
  BY <1>18 DEF Vector, Growing, PublishBlocks, ResizeStep, ResizeUnchanged
<1>19. ASSUME EndResize PROVE Vector'
  BY <1>19 DEF Vector, Growing, EndResize, ResizeStep, ResizeUnchanged
<1>20. ASSUME Prefault PROVE Vector'
  BY <1>20 DEF Vector, Growing, Prefault
<1>21. ASSUME WriteBack PROVE Vector'
  BY <1>21 DEF Vector, Growing, WriteBack
<1>22. ASSUME Crash PROVE Vector'
  <2>1. pmem.mappings * AllocBlocks \in Nat
    BY Products
  <2> QED
    BY <1>22, <2>1 DEF Vector, Growing, Crash, Opened
<1>23. CASE UNCHANGED vars
  BY <1>23 DEF Vector, Growing
<1> QED
  BY <1>1, <1>2, <1>3, <1>4, <1>5, <1>6, <1>7, <1>8, <1>9, <1>10, <1>11, <1>12,
     <1>13, <1>14, <1>15, <1>16, <1>17, <1>18, <1>19, <1>20, <1>21, <1>22, <1>23
     DEF Next, ClientStep, ClaimStep, ResizeThread

\* A client that begins to ask for a block is one more claimant.
LEMMA AskCounted ==
    ASSUME PoolTypeOK, Counted, NEW c \in Clients, pc[c] \in {"none", "own"},
           pc' = [pc EXCEPT ![c] = "check"]
    PROVE  /\ IsFiniteSet(Claiming') /\ Cardinality(Claiming') = Cardinality(Claiming) + 1
           /\ IsFiniteSet(Starting') /\ Cardinality(Starting') = Cardinality(Starting) + 1
           /\ Cardinality(Claiming) \in Nat /\ Cardinality(Starting) \in Nat
<1>1. /\ c \notin Claiming /\ Claiming' = Claiming \cup {c}
      /\ c \notin Starting /\ Starting' = Starting \cup {c}
  BY DEF Claiming, Starting, PoolTypeOK
<1>2. IsFiniteSet(Claiming) /\ IsFiniteSet(Starting)
  BY DEF Counted
<1> QED
  BY <1>1, <1>2, FS_AddElement, FS_CardinalityType

\* A client that leaves the requests for good.
LEMMA LeaveStarting ==
    ASSUME PoolTypeOK, Counted, NEW c \in Clients, pc[c] \in {"check", "trigger"},
           pc' = [pc EXCEPT ![c] = "claim"]
    PROVE  /\ Claiming' = Claiming
           /\ IsFiniteSet(Starting') /\ Cardinality(Starting') = Cardinality(Starting) - 1
           /\ Cardinality(Claiming) \in Nat /\ Cardinality(Starting) \in Nat
<1>1. /\ Claiming' = Claiming
      /\ c \in Starting /\ Starting' = Starting \ {c}
  BY DEF Claiming, Starting, PoolTypeOK
<1>2. IsFiniteSet(Claiming) /\ IsFiniteSet(Starting)
  BY DEF Counted
<1> QED
  BY <1>1, <1>2, FS_RemoveElement, FS_CardinalityType

LEMMA LeaveClaiming ==
    ASSUME PoolTypeOK, Counted, NEW c \in Clients, pc[c] = "cas",
           pc' = [pc EXCEPT ![c] = "wait"]
    PROVE  /\ Starting' = Starting
           /\ IsFiniteSet(Claiming') /\ Cardinality(Claiming') = Cardinality(Claiming) - 1
           /\ Cardinality(Claiming) \in Nat /\ Cardinality(Starting) \in Nat
<1>1. /\ Starting' = Starting
      /\ c \in Claiming /\ Claiming' = Claiming \ {c}
  BY DEF Claiming, Starting, PoolTypeOK
<1>2. IsFiniteSet(Claiming) /\ IsFiniteSet(Starting)
  BY DEF Counted
<1> QED
  BY <1>1, <1>2, FS_RemoveElement, FS_CardinalityType

\* A request is spent by its claim, and by the resize it starts.
LEMMA CountedNext == PoolInv /\ [Next]_vars => Counted'
<1> SUFFICES ASSUME PoolInv, [Next]_vars PROVE Counted'
  OBVIOUS
<1> USE PoolAssumption, PoolBounds DEF PoolInv, PoolTypeOK, Meta, vars, poolVars, vectorVars, resizeVars, metaVars, clientVars
<1>1. ASSUME NEW c \in Clients, get_client(c) PROVE Counted'
  <2>1. /\ IsFiniteSet(Claiming') /\ Cardinality(Claiming') = Cardinality(Claiming) + 1
        /\ IsFiniteSet(Starting') /\ Cardinality(Starting') = Cardinality(Starting) + 1
        /\ Cardinality(Claiming) \in Nat /\ Cardinality(Starting) \in Nat
    BY <1>1, AskCounted DEF get_client, Goto, Asks
  <2> QED
    BY <1>1, <2>1 DEF Counted, Vector, get_client, Goto, Asks
<1>2. ASSUME NEW c \in Clients, get_new_access_information(c) PROVE Counted'
  <2>1. CASE NearlyFull(current_block_page.block)
    BY <1>2, <2>1 DEF Counted, Claiming, Starting, get_new_access_information, Goto
  <2>2. CASE ~NearlyFull(current_block_page.block)
    <3>1. /\ Claiming' = Claiming
          /\ IsFiniteSet(Starting') /\ Cardinality(Starting') = Cardinality(Starting) - 1
          /\ Cardinality(Claiming) \in Nat /\ Cardinality(Starting) \in Nat
      BY <1>2, <2>2, LeaveStarting DEF get_new_access_information, Goto
    <3> QED
      BY <1>2, <2>2, <3>1 DEF Counted, Vector, get_new_access_information, Goto
  <2> QED
    BY <2>1, <2>2
<1>3. ASSUME NEW c \in Clients, trigger_resize(c) PROVE Counted'
  <2>1. /\ Claiming' = Claiming
        /\ IsFiniteSet(Starting') /\ Cardinality(Starting') = Cardinality(Starting) - 1
        /\ Cardinality(Claiming) \in Nat /\ Cardinality(Starting) \in Nat
    BY <1>3, LeaveStarting DEF trigger_resize, Goto
  <2> QED
    BY <1>3, <2>1 DEF Counted, Vector, trigger_resize, Goto
<1>4. ASSUME NEW c \in Clients, LoadBlock(c) PROVE Counted'
  BY <1>4 DEF Counted, Claiming, Starting, LoadBlock, Goto, BlockMapped
<1>5. ASSUME NEW c \in Clients, CasCursor(c) PROVE Counted'
  <2>1. /\ Starting' = Starting
        /\ IsFiniteSet(Claiming') /\ Cardinality(Claiming') = Cardinality(Claiming) - 1
        /\ Cardinality(Claiming) \in Nat /\ Cardinality(Starting) \in Nat
    BY <1>5, LeaveClaiming DEF CasCursor, Goto, CursorUnchanged
  <2> QED
    BY <1>5, <2>1 DEF Counted, Vector, CasCursor, Goto, CursorUnchanged
<1>6. ASSUME NEW c \in Clients, CasFails(c) PROVE Counted'
  BY <1>6 DEF Counted, Claiming, Starting, CasFails, Goto, CursorUnchanged
<1>7. ASSUME NEW c \in Clients, WaitForMove(c) PROVE Counted'
  BY <1>7 DEF Counted, Claiming, Starting, WaitForMove, Goto
<1>8. ASSUME NEW c \in Clients, IndexBlock(c) PROVE Counted'
  BY <1>8 DEF Counted, Claiming, Starting, IndexBlock, Goto, InitPage
<1>9. ASSUME NEW c \in Clients, PersistClaim(c) PROVE Counted'
  <2>1. Claiming' = Claiming /\ Starting' = Starting
    BY <1>9 DEF Claiming, Starting, PersistClaim, Goto
  <2> QED
    BY <1>9, <2>1 DEF Counted, PersistClaim, Goto
<1>10. ASSUME NEW c \in Clients, FillPage(c) PROVE Counted'
  BY <1>10 DEF Counted, Claiming, Starting, FillPage, Goto
<1>11. ASSUME NEW c \in Clients, update_access_information(c) PROVE Counted'
  <2>1. CASE pc' = pc
    BY <1>11, <2>1 DEF Counted, Claiming, Starting, update_access_information, Goto, InitPage, Asks, LastPage
  <2>2. CASE pc' # pc
    <3>1. /\ IsFiniteSet(Claiming') /\ Cardinality(Claiming') = Cardinality(Claiming) + 1
          /\ IsFiniteSet(Starting') /\ Cardinality(Starting') = Cardinality(Starting) + 1
          /\ Cardinality(Claiming) \in Nat /\ Cardinality(Starting) \in Nat
      BY <1>11, <2>2, AskCounted DEF update_access_information, Goto, InitPage, Asks, LastPage
    <3> QED
      BY <1>11, <2>2, <3>1 DEF Counted, Vector, update_access_information, Goto, InitPage, Asks, LastPage
  <2> QED
    BY <2>1, <2>2
<1>12. ASSUME NEW c \in Clients, remove_client(c) PROVE Counted'
  BY <1>12 DEF Counted, Claiming, Starting, remove_client, Goto
<1>13. ASSUME CountMapping PROVE Counted'
  <2>1. Claiming' = Claiming /\ Starting' = Starting
    BY <1>13 DEF Claiming, Starting, CountMapping, ResizeStep, ResizeUnchanged
  <2>2. Cardinality(Starting) \in Nat
    BY FS_CardinalityType DEF Counted
  <2> QED
    BY <1>13, <2>1, <2>2 DEF Counted, CountMapping, ResizeStep, ResizeUnchanged
<1>14. ASSUME PersistMapping PROVE Counted'
  BY <1>14 DEF Counted, Claiming, Starting, PersistMapping, ResizeStep, ResizeUnchanged
<1>15. ASSUME ReserveBegin PROVE Counted'
  BY <1>15 DEF Counted, Claiming, Starting, ReserveBegin, ResizeStep, ResizeUnchanged
<1>16. ASSUME ReserveEnd PROVE Counted'
  BY <1>16 DEF Counted, Claiming, Starting, ReserveEnd, ResizeStep, ResizeUnchanged
<1>17. ASSUME PushBlock PROVE Counted'
  BY <1>17 DEF Counted, Claiming, Starting, PushBlock, ResizeUnchanged
<1>18. ASSUME PublishBlocks PROVE Counted'
  BY <1>18 DEF Counted, Claiming, Starting, PublishBlocks, ResizeStep, ResizeUnchanged
<1>19. ASSUME EndResize PROVE Counted'
  BY <1>19 DEF Counted, Claiming, Starting, EndResize, ResizeStep, ResizeUnchanged
<1>20. ASSUME Prefault PROVE Counted'
  BY <1>20 DEF Counted, Claiming, Starting, Prefault
<1>21. ASSUME WriteBack PROVE Counted'
  BY <1>21 DEF Counted, Claiming, Starting, WriteBack
<1>22. ASSUME Crash PROVE Counted'
  <2>1. Claiming' = {} /\ Starting' = {}
    BY <1>22 DEF Claiming, Starting, Crash, Opened
  <2>2. current_block_page'.block <= claims
    <3>1. Cardinality(Claiming) \in Nat
      BY FS_CardinalityType DEF Counted
    <3> QED
      BY <1>22, <3>1 DEF Counted, Claimed, Crash, Opened
  <2>3. metadata'.mappings <= claims + 1
    <3>1. Cardinality(Starting) \in Nat
      BY FS_CardinalityType DEF Counted
    <3> QED
      BY <1>22, <3>1 DEF Counted, Crash, Opened
  <2> QED
    BY <1>22, <2>1, <2>2, <2>3, FS_EmptySet DEF Counted, Crash, Opened
<1>23. CASE UNCHANGED vars
  BY <1>23 DEF Counted, Claiming, Starting
<1> QED
  BY <1>1, <1>2, <1>3, <1>4, <1>5, <1>6, <1>7, <1>8, <1>9, <1>10, <1>11, <1>12,
     <1>13, <1>14, <1>15, <1>16, <1>17, <1>18, <1>19, <1>20, <1>21, <1>22, <1>23
     DEF Next, ClientStep, ClaimStep, ResizeThread

\* No more is claimed or mapped than the requests allow.
LEMMA BoundsNext ==
    ASSUME PoolInv, [Next]_vars, claims' \in 0 .. MaxClaims,
           current_block_page'.block \in Nat, metadata'.mappings \in Nat
    PROVE  current_block_page'.block <= MaxClaims /\ metadata'.mappings <= MaxMappings
<1>1. Counted'
  BY CountedNext
<1>2. Cardinality(Claiming') \in Nat /\ Cardinality(Starting') \in Nat
  BY <1>1, FS_CardinalityType DEF Counted
<1> QED
  BY <1>1, <1>2, PoolBounds DEF Counted, MaxMappings

\* Every step keeps the types.
LEMMA TypeNext == PoolInv /\ [Next]_vars => PoolTypeOK'
<1> SUFFICES ASSUME PoolInv, [Next]_vars PROVE PoolTypeOK'
  OBVIOUS
<1>a. \A c \in Clients : Known(c)
  BY ClientsKnown
<1>p. /\ current_block_page.block \in Nat
      /\ metadata.used \in Nat /\ metadata.mappings \in Nat
      /\ pmem.used \in Nat /\ pmem.mappings \in Nat
      /\ metadata.used <= metadata.mappings * AllocBlocks
      /\ \A w \in written : w[1] \in Blocks /\ w[2] \in Pages /\ w[1] \in Nat
  BY PoolKnown
<1>b. claims' \in 0 .. MaxClaims /\ current_block_page'.block \in Nat /\ metadata'.mappings \in Nat
        => current_block_page'.block <= MaxClaims /\ metadata'.mappings <= MaxMappings
  BY BoundsNext
<1>z. 0 \in Pages /\ StartPages \subseteq Pages /\ MaxMappings \in Nat \ {0}
      /\ MaxMappings * AllocBlocks \in Nat /\ NoCursor \in [block : 0 .. MaxClaims, page : Pages]
  BY PoolAssumption, PoolBounds DEF Pages, MaxMappings, NoCursor
<1> USE PoolAssumption, PoolBounds DEF PoolInv, PoolTypeOK, vars, poolVars, vectorVars, resizeVars, metaVars, clientVars
<1>1. ASSUME NEW c \in Clients, get_client(c) PROVE PoolTypeOK'
  BY <1>1 DEF PoolTypeOK, get_client, Goto, Asks
<1>2. ASSUME NEW c \in Clients, get_new_access_information(c) PROVE PoolTypeOK'
  BY <1>2 DEF PoolTypeOK, get_new_access_information, Goto
<1>3. ASSUME NEW c \in Clients, trigger_resize(c) PROVE PoolTypeOK'
  BY <1>3 DEF PoolTypeOK, trigger_resize, Goto
<1>4. ASSUME NEW c \in Clients, LoadBlock(c) PROVE PoolTypeOK'
  BY <1>4 DEF PoolTypeOK, LoadBlock, Goto, BlockMapped
<1>5. ASSUME NEW c \in Clients, CasCursor(c) PROVE PoolTypeOK'
  <2>1. PICK p \in StartPages : current_block_page' = [block |-> cursor[c].block + 1, page |-> p]
    BY <1>5 DEF CasCursor, Goto, CursorUnchanged
  <2>2. /\ current_block_page'.block = cursor[c].block + 1 /\ cursor[c].block \in Nat
        /\ metadata'.mappings \in Nat /\ claims' \in 0 .. MaxClaims
    BY <1>5, <1>a, <1>p, <2>1 DEF Known, CasCursor, Goto, CursorUnchanged
  <2>3. cursor[c].block + 1 \in 0 .. MaxClaims
    BY <2>2, <1>b
  <2>4. current_block_page' \in [block : 0 .. MaxClaims, page : Pages]
    BY <1>z, <2>1, <2>3
  <2>5. processed' \in [Clients -> 0 .. NumPages]
    BY <1>5 DEF CasCursor, Goto, CursorUnchanged
  <2> QED
    BY <1>5, <2>4, <2>5 DEF CasCursor, Goto, CursorUnchanged
<1>6. ASSUME NEW c \in Clients, CasFails(c) PROVE PoolTypeOK'
  BY <1>6 DEF PoolTypeOK, CasFails, Goto, CursorUnchanged
<1>7. ASSUME NEW c \in Clients, WaitForMove(c) PROVE PoolTypeOK'
  BY <1>7 DEF PoolTypeOK, WaitForMove, Goto
<1>8. ASSUME NEW c \in Clients, IndexBlock(c) PROVE PoolTypeOK'
  <2>1. cursor[c].block \in Blocks /\ cursor[c].page \in Pages
    BY <1>8, <1>a DEF Known, IndexBlock
  <2>2. metadata' \in Meta
    <3>1. cursor[c].block + 1 \in 0 .. MaxClaims
      BY <2>1 DEF Blocks
    <3> QED
      BY <1>8, <3>1 DEF Meta, IndexBlock, Goto, InitPage
  <2>3. pages' \in [Blocks -> [Pages -> {"zero", "init", "record"}]]
    BY <1>8, <2>1 DEF IndexBlock, Goto, InitPage
  <2>4. cursor' \in [Clients -> [block : 0 .. MaxClaims, page : Pages]]
    BY <1>8, <1>z DEF IndexBlock, Goto, InitPage
  <2> QED
    BY <1>8, <2>1, <2>2, <2>3, <2>4 DEF IndexBlock, Goto, InitPage
<1>9. ASSUME NEW c \in Clients, PersistClaim(c) PROVE PoolTypeOK'
  BY <1>9 DEF PoolTypeOK, PersistClaim, Goto
<1>10. ASSUME NEW c \in Clients, FillPage(c) PROVE PoolTypeOK'
  <2>1. block[c] \in Blocks /\ page[c] \in Pages
    BY <1>10, <1>a DEF Known, FillPage, Goto
  <2>2. pages' \in [Blocks -> [Pages -> {"zero", "init", "record"}]]
    BY <1>10, <2>1 DEF FillPage, Goto
  <2>3. written' \subseteq Blocks \X Pages
    BY <1>10, <2>1 DEF FillPage, Goto
  <2> QED
    BY <1>10, <2>2, <2>3 DEF FillPage, Goto
<1>11. ASSUME NEW c \in Clients, update_access_information(c) PROVE PoolTypeOK'
  <2>1. block[c] \in Blocks /\ page[c] \in Pages
    BY <1>11, <1>a DEF Known, update_access_information, Goto, InitPage, Asks, LastPage
  <2>2. NextPage(page[c]) \in Pages
    BY <2>1, NextPageValue
  <2>3. processed' \in [Clients -> 0 .. NumPages]
    <3>1. processed[c] + 1 \in 0 .. NumPages
      BY <1>11 DEF Walk, update_access_information, Goto, InitPage, Asks, LastPage
    <3> QED
      BY <1>11, <3>1 DEF update_access_information, Goto, InitPage, Asks, LastPage
  <2>4. CASE LastPage(processed[c] + 1)
    <3>1. /\ claims' = claims + 1 /\ claims < MaxClaims /\ pc' = [pc EXCEPT ![c] = "check"]
          /\ UNCHANGED <<page, pages>>
      BY <1>11, <2>4 DEF update_access_information, Goto, InitPage, Asks, LastPage
    <3> QED
      BY <1>11, <2>3, <3>1 DEF update_access_information
  <2>5. CASE ~LastPage(processed[c] + 1)
    <3>1. /\ page' = [page EXCEPT ![c] = NextPage(page[c])]
          /\ pages' = [pages EXCEPT ![block[c]][NextPage(page[c])] = "init"]
          /\ UNCHANGED <<pc, claims>>
      BY <1>11, <2>5 DEF update_access_information, Goto, InitPage, Asks, LastPage
    <3>2. pages' \in [Blocks -> [Pages -> {"zero", "init", "record"}]]
      BY <2>1, <2>2, <3>1
    <3>3. page' \in [Clients -> Pages]
      BY <2>2, <3>1
    <3> QED
      BY <1>11, <2>3, <3>1, <3>2, <3>3 DEF update_access_information
  <2> QED
    BY <2>4, <2>5
<1>12. ASSUME NEW c \in Clients, remove_client(c) PROVE PoolTypeOK'
  <2>1. block' \in [Clients -> Blocks \cup {None}]
    BY <1>12 DEF remove_client, Goto
  <2>2. page' \in [Clients -> Pages] /\ processed' \in [Clients -> 0 .. NumPages]
    BY <1>12, <1>z DEF remove_client, Goto
  <2> QED
    BY <1>12, <2>1, <2>2 DEF remove_client, Goto
<1>13. ASSUME CountMapping PROVE PoolTypeOK'
  <2>1. /\ metadata' = [metadata EXCEPT !.mappings = metadata.mappings + 1]
        /\ claims' \in 0 .. MaxClaims /\ current_block_page'.block \in Nat
    BY <1>13, <1>p DEF CountMapping, ResizeStep, ResizeUnchanged
  <2>2. metadata.mappings + 1 \in 1 .. MaxMappings
    <3>1. metadata'.mappings = metadata.mappings + 1
      BY <2>1 DEF Meta
    <3> QED
      BY <1>b, <1>p, <1>z, <2>1, <3>1
  <2>3. metadata' \in Meta
    BY <2>1, <2>2 DEF Meta
  <2> QED
    BY <1>13, <2>3 DEF CountMapping, ResizeStep, ResizeUnchanged
<1>14. ASSUME PersistMapping PROVE PoolTypeOK'
  BY <1>14 DEF PoolTypeOK, PersistMapping, ResizeStep, ResizeUnchanged
<1>15. ASSUME ReserveBegin PROVE PoolTypeOK'
  BY <1>15 DEF PoolTypeOK, ReserveBegin, ResizeStep, ResizeUnchanged
<1>16. ASSUME ReserveEnd PROVE PoolTypeOK'
  BY <1>16 DEF PoolTypeOK, ReserveEnd, ResizeStep, ResizeUnchanged
<1>17. ASSUME PushBlock PROVE PoolTypeOK'
  <2>1. metadata.mappings <= MaxMappings
    BY DEF Meta
  <2>2. metadata.mappings * AllocBlocks \in Nat
        /\ metadata.mappings * AllocBlocks <= MaxMappings * AllocBlocks
    BY <1>p, <1>z, <2>1, Products
  <2>3. v_blocks' <= metadata.mappings * AllocBlocks /\ v_blocks' \in Nat
    BY <1>17 DEF Vector, Growing, PushBlock, ResizeUnchanged
  <2>4. v_blocks' \in 0 .. MaxMappings * AllocBlocks
    BY <1>z, <2>2, <2>3
  <2> QED
    BY <1>17, <2>4 DEF PushBlock, ResizeUnchanged
<1>18. ASSUME PublishBlocks PROVE PoolTypeOK'
  BY <1>18 DEF PoolTypeOK, PublishBlocks, ResizeStep, ResizeUnchanged
<1>19. ASSUME EndResize PROVE PoolTypeOK'
  BY <1>19 DEF PoolTypeOK, EndResize, ResizeStep, ResizeUnchanged
<1>20. ASSUME Prefault PROVE PoolTypeOK'
  <2>1. prefault_hi' \in 0 .. num_v_blocks
    BY <1>20, <1>p, <1>z DEF Prefault
  <2>2. prefault_hi' \in 0 .. MaxMappings * AllocBlocks
    BY <1>z, <2>1
  <2> QED
    BY <1>20, <2>2 DEF Prefault
<1>21. ASSUME WriteBack PROVE PoolTypeOK'
  BY <1>21 DEF PoolTypeOK, WriteBack
<1>22. ASSUME Crash PROVE PoolTypeOK'
  <2>1. pmem.mappings * AllocBlocks \in 0 .. MaxMappings * AllocBlocks
    <3>1. pmem.mappings <= MaxMappings
      BY DEF Meta
    <3> QED
      BY <1>p, <1>z, <3>1, Products
  <2>2. current_block_page' \in [block : 0 .. MaxClaims, page : Pages]
    BY <1>22, <1>z DEF Meta, Crash, Opened
  <2>3. prefault_hi' \in 0 .. MaxMappings * AllocBlocks
    BY <1>22, <1>z DEF Crash, Opened
  <2>4. /\ v_blocks' \in 0 .. MaxMappings * AllocBlocks
        /\ num_v_blocks' \in 0 .. MaxMappings * AllocBlocks
    BY <1>22, <2>1 DEF Crash, Opened
  <2>5. /\ cursor' \in [Clients -> [block : 0 .. MaxClaims, page : Pages]]
        /\ block' \in [Clients -> Blocks \cup {None}]
        /\ page' \in [Clients -> Pages] /\ processed' \in [Clients -> 0 .. NumPages]
    BY <1>22, <1>z DEF Crash, Opened
  <2>6. crashes' \in 0 .. MaxCrashes /\ metadata' \in Meta /\ pmem' \in Meta
    BY <1>22 DEF Crash, Opened
  <2>7. UNCHANGED <<pages, claims, written>>
    BY <1>22 DEF Crash, Opened
  <2>8. /\ is_resizing' \in BOOLEAN /\ is_v_blocks_resizing' \in BOOLEAN /\ resizer' = "off"
        /\ pc' \in [Clients -> {"none", "check", "trigger", "claim", "cas", "wait",
                                "index", "persist", "own"}]
    BY <1>22 DEF Crash, Opened
  <2> QED
    BY <2>2, <2>3, <2>4, <2>5, <2>6, <2>7, <2>8
<1>23. CASE UNCHANGED vars
  BY <1>23 DEF PoolTypeOK
<1> QED
  BY <1>1, <1>2, <1>3, <1>4, <1>5, <1>6, <1>7, <1>8, <1>9, <1>10, <1>11, <1>12,
     <1>13, <1>14, <1>15, <1>16, <1>17, <1>18, <1>19, <1>20, <1>21, <1>22, <1>23
     DEF Next, ClientStep, ClaimStep, ResizeThread

\* A block is claimed once, published when it is indexed, and counted before it
\* is written to.
LEMMA ClaimedNext == PoolInv /\ [Next]_vars => Claimed'
<1> SUFFICES ASSUME PoolInv, [Next]_vars PROVE Claimed'
  OBVIOUS
<1>a. \A c \in Clients : Known(c)
  BY ClientsKnown
<1>p. /\ current_block_page.block \in Nat
      /\ metadata.used \in Nat /\ metadata.mappings \in Nat
      /\ pmem.used \in Nat /\ pmem.mappings \in Nat
      /\ metadata.used <= metadata.mappings * AllocBlocks
      /\ \A w \in written : w[1] \in Blocks /\ w[2] \in Pages /\ w[1] \in Nat
  BY PoolKnown
<1> USE PoolAssumption, PoolBounds DEF PoolInv, PoolTypeOK, Meta, vars, poolVars, vectorVars, resizeVars, metaVars, clientVars
<1>1. ASSUME NEW c \in Clients, get_client(c) PROVE Claimed'
  BY <1>1 DEF Claimed, Owners, Holds, get_client, Goto, Asks
<1>2. ASSUME NEW c \in Clients, get_new_access_information(c) PROVE Claimed'
  BY <1>2 DEF Claimed, Owners, Holds, get_new_access_information, Goto
<1>3. ASSUME NEW c \in Clients, trigger_resize(c) PROVE Claimed'
  BY <1>3 DEF Claimed, Owners, Holds, trigger_resize, Goto
<1>4. ASSUME NEW c \in Clients, LoadBlock(c) PROVE Claimed'
  BY <1>4 DEF Claimed, Owners, Holds, LoadBlock, Goto, BlockMapped
<1>5. ASSUME NEW c \in Clients, CasCursor(c) PROVE Claimed'
  <2>1. /\ current_block_page'.block = cursor[c].block + 1
        /\ cursor[c].block = current_block_page.block
    BY <1>5 DEF CasCursor, Goto, CursorUnchanged
  <2>2. ASSUME NEW d \in Clients, d # c
        PROVE  (d \in Owners' <=> d \in Owners) /\ Holds(d)' = Holds(d)
    BY <1>5, <2>2 DEF Owners, Holds, CasCursor, Goto, CursorUnchanged
  <2>3. c \in Owners' /\ Holds(c)' = cursor[c].block
    BY <1>5 DEF Owners, Holds, CasCursor, Goto, CursorUnchanged
  <2>4. \A d \in Clients : d \in Owners' => Holds(d)' < current_block_page'.block
    BY <1>a, <1>p, <2>1, <2>2, <2>3 DEF Claimed, Known
  <2>5. \A d, e \in Owners' : d # e => Holds(d)' # Holds(e)'
    BY <1>a, <1>p, <2>1, <2>2, <2>3 DEF Claimed, Known, Owners
  <2> QED
    BY <1>5, <2>1, <2>4, <2>5 DEF Claimed, Owners, CasCursor, Goto, CursorUnchanged
<1>6. ASSUME NEW c \in Clients, CasFails(c) PROVE Claimed'
  BY <1>6 DEF Claimed, Owners, Holds, CasFails, Goto, CursorUnchanged
<1>7. ASSUME NEW c \in Clients, WaitForMove(c) PROVE Claimed'
  BY <1>7 DEF Claimed, Owners, Holds, WaitForMove, Goto
<1>8. ASSUME NEW c \in Clients, IndexBlock(c) PROVE Claimed'
  <2>1. /\ cursor[c].block < current_block_page.block /\ cursor[c].block < num_v_blocks
        /\ cursor[c].block \in Nat
    BY <1>8 DEF Claimed, Owners, Holds, IndexBlock, Goto, InitPage
  <2>2. /\ metadata'.used \in Nat /\ metadata'.mappings = metadata.mappings
        /\ metadata'.used >= metadata.used /\ metadata'.used > cursor[c].block
        /\ metadata'.used <= current_block_page.block /\ metadata'.used <= num_v_blocks
    BY <1>8, <2>1 DEF Claimed, IndexBlock, Goto, InitPage
  <2>3. Owners' = Owners /\ \A d \in Clients : d \in Owners => Holds(d)' = Holds(d)
    BY <1>8 DEF Owners, Holds, IndexBlock, Goto, InitPage
  <2>4. \A d \in Clients : pc'[d] = "persist" => block'[d] < metadata'.used
    <3> TAKE d \in Clients
    <3>1. CASE d = c
      BY <1>8, <2>2, <3>1 DEF IndexBlock, Goto, InitPage
    <3>2. CASE d # c
      BY <1>8, <1>a, <1>p, <2>2, <3>2 DEF Claimed, Known, IndexBlock, Goto, InitPage
    <3> QED
      BY <3>1, <3>2
  <2>5. \A d, e \in Owners' : d # e => Holds(d)' # Holds(e)'
    BY <2>3 DEF Claimed, Owners
  <2>6. \A d \in Clients : d \in Owners' => Holds(d)' < current_block_page'.block
    BY <1>8, <2>3 DEF Claimed, IndexBlock, Goto, InitPage
  <2>7. \A d \in Clients : /\ pc'[d] \in {"cas", "wait", "index"} => cursor'[d].block < num_v_blocks'
                           /\ pc'[d] = "own" => block'[d] < pmem'.used
    BY <1>8 DEF Claimed, IndexBlock, Goto, InitPage
  <2> QED
    BY <1>8, <2>2, <2>4, <2>5, <2>6, <2>7 DEF Claimed, IndexBlock, Goto, InitPage
<1>9. ASSUME NEW c \in Clients, PersistClaim(c) PROVE Claimed'
  <2>1. pmem' = metadata /\ UNCHANGED <<metadata, current_block_page, num_v_blocks, cursor, block>>
    BY <1>9 DEF PersistClaim, Goto
  <2>2. \A d \in Clients : Holds(d)' = Holds(d) /\ (d \in Owners' <=> d \in Owners)
    BY <1>9 DEF Owners, Holds, PersistClaim, Goto
  <2>3. \A d \in Clients : pc'[d] = "own" => block'[d] < pmem'.used
    BY <1>9, <1>a, <1>p, <2>1 DEF Claimed, Known, PersistClaim, Goto
  <2>4. \A d \in Clients : /\ pc'[d] \in {"cas", "wait", "index"} => cursor'[d].block < num_v_blocks'
                           /\ pc'[d] = "persist" => block'[d] < metadata'.used
    BY <1>9, <2>1 DEF Claimed, PersistClaim, Goto
  <2>5. \A d \in Clients : d \in Owners' => Holds(d)' < current_block_page'.block
    BY <2>1, <2>2 DEF Claimed
  <2>6. \A d, e \in Owners' : d # e => Holds(d)' # Holds(e)'
    BY <2>2 DEF Claimed, Owners
  <2> QED
    BY <1>p, <2>1, <2>3, <2>4, <2>5, <2>6 DEF Claimed
<1>10. ASSUME NEW c \in Clients, FillPage(c) PROVE Claimed'
  BY <1>10 DEF Claimed, Owners, Holds, FillPage, Goto
<1>11. ASSUME NEW c \in Clients, update_access_information(c) PROVE Claimed'
  BY <1>11 DEF Claimed, Owners, Holds, update_access_information, Goto, InitPage, Asks, LastPage
<1>12. ASSUME NEW c \in Clients, remove_client(c) PROVE Claimed'
  BY <1>12 DEF Claimed, Owners, Holds, remove_client, Goto
<1>13. ASSUME CountMapping PROVE Claimed'
  BY <1>13 DEF Claimed, Owners, Holds, CountMapping, ResizeStep, ResizeUnchanged
<1>14. ASSUME PersistMapping PROVE Claimed'
  <2>1. pmem' = metadata /\ UNCHANGED <<metadata, current_block_page, num_v_blocks, cursor, block>>
    BY <1>14 DEF PersistMapping, ResizeStep, ResizeUnchanged
  <2>2. \A d \in Clients : Holds(d)' = Holds(d) /\ (d \in Owners' <=> d \in Owners)
    BY <1>14 DEF Owners, Holds, PersistMapping, ResizeStep, ResizeUnchanged
  <2>3. \A d \in Clients : pc'[d] = "own" => block'[d] < pmem'.used
    BY <1>14, <1>a, <1>p, <2>1 DEF Claimed, Known, PersistMapping, ResizeStep, ResizeUnchanged
  <2>4. \A d \in Clients : /\ pc'[d] \in {"cas", "wait", "index"} => cursor'[d].block < num_v_blocks'
                           /\ pc'[d] = "persist" => block'[d] < metadata'.used
    BY <1>14, <2>1 DEF Claimed, PersistMapping, ResizeStep, ResizeUnchanged
  <2>5. \A d \in Clients : d \in Owners' => Holds(d)' < current_block_page'.block
    BY <2>1, <2>2 DEF Claimed
  <2>6. \A d, e \in Owners' : d # e => Holds(d)' # Holds(e)'
    BY <2>2 DEF Claimed, Owners
  <2> QED
    BY <1>p, <2>1, <2>3, <2>4, <2>5, <2>6 DEF Claimed
<1>15. ASSUME ReserveBegin PROVE Claimed'
  BY <1>15 DEF Claimed, Owners, Holds, ReserveBegin, ResizeStep, ResizeUnchanged
<1>16. ASSUME ReserveEnd PROVE Claimed'
  BY <1>16 DEF Claimed, Owners, Holds, ReserveEnd, ResizeStep, ResizeUnchanged
<1>17. ASSUME PushBlock PROVE Claimed'
  BY <1>17 DEF Claimed, Owners, Holds, PushBlock, ResizeUnchanged
<1>18. ASSUME PublishBlocks PROVE Claimed'
  BY <1>18 DEF Claimed, Owners, Holds, Vector, PublishBlocks, ResizeStep, ResizeUnchanged
<1>19. ASSUME EndResize PROVE Claimed'
  BY <1>19 DEF Claimed, Owners, Holds, EndResize, ResizeStep, ResizeUnchanged
<1>20. ASSUME Prefault PROVE Claimed'
  BY <1>20 DEF Claimed, Owners, Holds, Prefault
<1>21. ASSUME WriteBack PROVE Claimed'
  <2>1. pmem' = metadata /\ UNCHANGED <<metadata, current_block_page, num_v_blocks, cursor, block>>
    BY <1>21 DEF WriteBack
  <2>2. \A d \in Clients : Holds(d)' = Holds(d) /\ (d \in Owners' <=> d \in Owners)
    BY <1>21 DEF Owners, Holds, WriteBack
  <2>3. \A d \in Clients : pc'[d] = "own" => block'[d] < pmem'.used
    BY <1>21, <1>a, <1>p, <2>1 DEF Claimed, Known, WriteBack
  <2>4. \A d \in Clients : /\ pc'[d] \in {"cas", "wait", "index"} => cursor'[d].block < num_v_blocks'
                           /\ pc'[d] = "persist" => block'[d] < metadata'.used
    BY <1>21, <2>1 DEF Claimed, WriteBack
  <2>5. \A d \in Clients : d \in Owners' => Holds(d)' < current_block_page'.block
    BY <2>1, <2>2 DEF Claimed
  <2>6. \A d, e \in Owners' : d # e => Holds(d)' # Holds(e)'
    BY <2>2 DEF Claimed, Owners
  <2> QED
    BY <1>p, <2>1, <2>3, <2>4, <2>5, <2>6 DEF Claimed
<1>22. ASSUME Crash PROVE Claimed'
  BY <1>22 DEF Claimed, Owners, Holds, Crash, Opened
<1>23. CASE UNCHANGED vars
  BY <1>23 DEF Claimed, Owners, Holds
<1> QED
  BY <1>1, <1>2, <1>3, <1>4, <1>5, <1>6, <1>7, <1>8, <1>9, <1>10, <1>11, <1>12,
     <1>13, <1>14, <1>15, <1>16, <1>17, <1>18, <1>19, <1>20, <1>21, <1>22, <1>23
     DEF Next, ClientStep, ClaimStep, ResizeThread

\* No page with records is initialised again.
LEMMA WalkNext == PoolInv /\ [Next]_vars => Walk'
<1> SUFFICES ASSUME PoolInv, [Next]_vars PROVE Walk'
  OBVIOUS
<1>a. \A c \in Clients : Known(c)
  BY ClientsKnown
<1>p. /\ current_block_page.block \in Nat
      /\ metadata.used \in Nat /\ metadata.mappings \in Nat
      /\ pmem.used \in Nat /\ pmem.mappings \in Nat
      /\ metadata.used <= metadata.mappings * AllocBlocks
      /\ \A w \in written : w[1] \in Blocks /\ w[2] \in Pages /\ w[1] \in Nat
  BY PoolKnown
<1> USE PoolAssumption, PoolBounds DEF PoolInv, PoolTypeOK, Meta, vars, poolVars, vectorVars, resizeVars, metaVars, clientVars
<1>1. ASSUME NEW c \in Clients, get_client(c) PROVE Walk'
  BY <1>1 DEF Walk, Holds, get_client, Goto, Asks
<1>2. ASSUME NEW c \in Clients, get_new_access_information(c) PROVE Walk'
  BY <1>2 DEF Walk, Holds, get_new_access_information, Goto
<1>3. ASSUME NEW c \in Clients, trigger_resize(c) PROVE Walk'
  BY <1>3 DEF Walk, Holds, trigger_resize, Goto
<1>4. ASSUME NEW c \in Clients, LoadBlock(c) PROVE Walk'
  BY <1>4 DEF Walk, Holds, LoadBlock, Goto, BlockMapped
<1>5. ASSUME NEW c \in Clients, CasCursor(c) PROVE Walk'
  <2>1. \A w \in written : w[1] < cursor[c].block
    BY <1>5, <1>a, <1>p DEF Walk, Claimed, Known, CasCursor, Goto, CursorUnchanged
  <2>2. ASSUME NEW d \in Clients, d # c
        PROVE  pc'[d] = pc[d] /\ Holds(d)' = Holds(d) /\ processed'[d] = processed[d]
    BY <1>5, <2>2 DEF Holds, CasCursor, Goto, CursorUnchanged
  <2>3. pc'[c] = "wait" /\ Holds(c)' = cursor[c].block /\ processed'[c] = 0
    BY <1>5 DEF Holds, CasCursor, Goto, CursorUnchanged
  <2>4. \A w \in written : w[1] # Holds(c)'
    BY <1>p, <1>a, <2>1, <2>3 DEF Known
  <2> QED
    BY <1>5, <2>2, <2>3, <2>4 DEF Walk, CasCursor, Goto, CursorUnchanged
<1>6. ASSUME NEW c \in Clients, CasFails(c) PROVE Walk'
  BY <1>6 DEF Walk, Holds, CasFails, Goto, CursorUnchanged
<1>7. ASSUME NEW c \in Clients, WaitForMove(c) PROVE Walk'
  BY <1>7 DEF Walk, Holds, WaitForMove, Goto
<1>8. ASSUME NEW c \in Clients, IndexBlock(c) PROVE Walk'
  <2>1. /\ cursor[c].block \in Blocks /\ cursor[c].page \in Pages
        /\ \A w \in written : w[1] # cursor[c].block
    BY <1>8, <1>a DEF Walk, Known, Holds, IndexBlock, Goto, InitPage
  <2>2. \A w \in written : pages'[w[1]][w[2]] = "record"
    BY <1>8, <2>1 DEF Walk, IndexBlock, Goto, InitPage
  <2>3. ASSUME NEW d \in Clients, d # c
        PROVE  /\ pc'[d] = pc[d] /\ Holds(d)' = Holds(d) /\ page'[d] = page[d]
               /\ block'[d] = block[d]
    BY <1>8, <2>3 DEF Holds, IndexBlock, Goto, InitPage
  <2>4. pc'[c] = "persist" /\ Holds(c)' = cursor[c].block /\ processed[c] = 0
    BY <1>8 DEF Walk, Holds, IndexBlock, Goto, InitPage
  <2> QED
    BY <1>8, <2>1, <2>2, <2>3, <2>4 DEF Walk, IndexBlock, Goto, InitPage
<1>9. ASSUME NEW c \in Clients, PersistClaim(c) PROVE Walk'
  <2>1. \A w \in written : w[1] < pmem'.used
    BY <1>9, <1>a, <1>p DEF Walk, Claimed, Known, PersistClaim, Goto
  <2>2. \A w \in written : w[1] # block[c]
    BY <1>9 DEF Walk, Holds, PersistClaim, Goto
  <2>3. ASSUME NEW d \in Clients, d # c
        PROVE  pc'[d] = pc[d] /\ Holds(d)' = Holds(d)
    BY <1>9, <2>3 DEF Holds, PersistClaim, Goto
  <2>4. pc'[c] = "own" /\ processed[c] = 0
    BY <1>9 DEF Walk, PersistClaim, Goto
  <2> QED
    BY <1>9, <2>1, <2>2, <2>3, <2>4 DEF Walk, PersistClaim, Goto
<1>10. ASSUME NEW c \in Clients, FillPage(c) PROVE Walk'
  <2>1. block[c] \in Blocks /\ page[c] \in Pages /\ block[c] < pmem.used
    BY <1>10, <1>a DEF Claimed, Known, FillPage, Goto
  <2>2. \A w \in written' : w[1] < pmem.used /\ pages'[w[1]][w[2]] = "record"
    BY <1>10, <2>1 DEF Walk, FillPage, Goto
  <2>3. \A d \in Clients : Holds(d)' = Holds(d)
    BY <1>10 DEF Holds, FillPage, Goto
  <2>4. \A d \in Owners : d # c => Holds(d) # block[c]
    BY <1>10 DEF Claimed, Owners, Holds, FillPage, Goto
  <2>5. Distance(page[c], page[c]) = 0
    BY <2>1 DEF Distance, Pages
  <2>6. ASSUME NEW d \in Clients, pc[d] = "own"
        PROVE  \A w \in written' : w[1] = block[d] => Distance(w[2], page[d]) <= processed[d]
    <3>1. processed[d] >= 0
      OBVIOUS
    <3>2. d # c => block[d] # block[c]
      BY <2>4, <2>6 DEF Owners, Holds
    <3> QED
      BY <1>10, <2>5, <2>6, <3>1, <3>2 DEF Walk, FillPage, Goto
  <2>7. ASSUME NEW d \in Clients, pc[d] \in {"wait", "index", "persist"}
        PROVE  \A w \in written' : w[1] # Holds(d)
    <3>1. Holds(d) # block[c]
      BY <1>10, <2>4, <2>7 DEF Owners, FillPage, Goto
    <3> QED
      BY <1>10, <2>7, <3>1 DEF Walk, FillPage, Goto
  <2> QED
    BY <1>10, <2>2, <2>3, <2>6, <2>7 DEF Walk, FillPage, Goto
<1>11. ASSUME NEW c \in Clients, update_access_information(c) PROVE Walk'
  <2> DEFINE next == NextPage(page[c])
  <2>1. block[c] \in Blocks /\ page[c] \in Pages /\ processed[c] \in 0 .. NumPages - 1
    BY <1>11, <1>a, <1>p DEF Walk, Claimed, Known, update_access_information, Goto, InitPage, Asks, LastPage
  <2>2. ASSUME NEW d \in Clients, d # c
        PROVE  /\ pc'[d] = pc[d] /\ Holds(d)' = Holds(d) /\ page'[d] = page[d]
               /\ block'[d] = block[d] /\ processed'[d] = processed[d]
    BY <1>11, <2>2 DEF Holds, update_access_information, Goto, InitPage, Asks, LastPage
  <2>3. CASE LastPage(processed[c] + 1)
    <3>1. pc'[c] = "check" /\ pages' = pages
      BY <1>11, <2>3 DEF update_access_information, Goto, InitPage, Asks, LastPage
    <3> QED
      BY <1>11, <2>2, <3>1 DEF Walk, update_access_information, Goto, InitPage, Asks, LastPage
  <2>4. CASE ~LastPage(processed[c] + 1)
    <3>1. /\ processed[c] + 1 < NumPages /\ processed'[c] = processed[c] + 1
          /\ page'[c] = next /\ pc' = pc /\ block' = block /\ pages' = [pages EXCEPT ![block[c]][next] = "init"]
      BY <1>11, <2>1, <2>4 DEF update_access_information, Goto, InitPage, Asks, LastPage
    <3>2. next \in Pages
      BY <2>1, NextPageValue
    <3>3. ASSUME NEW w \in written, w[1] = block[c]
          PROVE  Distance(w[2], next) <= processed[c] + 1 /\ w[2] # next
      <4>1. w[2] \in Pages
        BY <1>p
      <4>2. Distance(w[2], page[c]) <= processed[c]
        BY <1>11, <3>3 DEF Walk, update_access_information, Goto, InitPage, Asks, LastPage
      <4> QED
        BY <2>1, <3>1, <4>1, <4>2, StepOn
    <3>4. \A w \in written : pages'[w[1]][w[2]] = "record"
      BY <2>1, <3>1, <3>2, <3>3 DEF Walk
    <3> QED
      BY <1>11, <2>1, <2>2, <3>1, <3>3, <3>4 DEF Walk, Holds, update_access_information, Goto, InitPage, Asks, LastPage
  <2> QED
    BY <2>3, <2>4
<1>12. ASSUME NEW c \in Clients, remove_client(c) PROVE Walk'
  <2>1. ASSUME NEW d \in Clients, d # c
        PROVE  /\ pc'[d] = pc[d] /\ Holds(d)' = Holds(d) /\ page'[d] = page[d]
               /\ block'[d] = block[d] /\ processed'[d] = processed[d]
    BY <1>12, <2>1 DEF Holds, remove_client, Goto
  <2>2. pc'[c] = "none"
    BY <1>12 DEF remove_client, Goto
  <2> QED
    BY <1>12, <2>1, <2>2 DEF Walk, remove_client, Goto
<1>13. ASSUME CountMapping PROVE Walk'
  BY <1>13 DEF Walk, Holds, CountMapping, ResizeStep, ResizeUnchanged
<1>14. ASSUME PersistMapping PROVE Walk'
  <2>1. \A d \in Clients : Holds(d)' = Holds(d)
    BY <1>14 DEF Holds, PersistMapping, ResizeStep, ResizeUnchanged
  <2>2. \A w \in written : w[1] < pmem'.used
    BY <1>14, <1>a, <1>p DEF Walk, Claimed, Known, PersistMapping, ResizeStep, ResizeUnchanged
  <2> QED
    BY <1>14, <2>1, <2>2 DEF Walk, PersistMapping, ResizeStep, ResizeUnchanged
<1>15. ASSUME ReserveBegin PROVE Walk'
  BY <1>15 DEF Walk, Holds, ReserveBegin, ResizeStep, ResizeUnchanged
<1>16. ASSUME ReserveEnd PROVE Walk'
  BY <1>16 DEF Walk, Holds, ReserveEnd, ResizeStep, ResizeUnchanged
<1>17. ASSUME PushBlock PROVE Walk'
  BY <1>17 DEF Walk, Holds, PushBlock, ResizeUnchanged
<1>18. ASSUME PublishBlocks PROVE Walk'
  BY <1>18 DEF Walk, Holds, PublishBlocks, ResizeStep, ResizeUnchanged
<1>19. ASSUME EndResize PROVE Walk'
  BY <1>19 DEF Walk, Holds, EndResize, ResizeStep, ResizeUnchanged
<1>20. ASSUME Prefault PROVE Walk'
  BY <1>20 DEF Walk, Holds, Prefault
<1>21. ASSUME WriteBack PROVE Walk'
  <2>1. \A d \in Clients : Holds(d)' = Holds(d)
    BY <1>21 DEF Holds, WriteBack
  <2>2. \A w \in written : w[1] < pmem'.used
    BY <1>21, <1>a, <1>p DEF Walk, Claimed, Known, WriteBack
  <2> QED
    BY <1>21, <2>1, <2>2 DEF Walk, WriteBack
<1>22. ASSUME Crash PROVE Walk'
  BY <1>22 DEF Walk, Holds, Crash, Opened
<1>23. CASE UNCHANGED vars
  BY <1>23 DEF Walk, Holds
<1> QED
  BY <1>1, <1>2, <1>3, <1>4, <1>5, <1>6, <1>7, <1>8, <1>9, <1>10, <1>11, <1>12,
     <1>13, <1>14, <1>15, <1>16, <1>17, <1>18, <1>19, <1>20, <1>21, <1>22, <1>23
     DEF Next, ClientStep, ClaimStep, ResizeThread

-----------------------------------------------------------------------------
(* The theorems.                                                           *)

\* A new pool satisfies the invariant.
LEMMA PoolInit == Init => PoolInv
<1> SUFFICES ASSUME Init PROVE PoolInv
  OBVIOUS
<1> USE PoolAssumption, PoolBounds DEF Init
<1>z. 0 \in Pages /\ MaxMappings \in Nat \ {0} /\ NoCursor \in [block : 0 .. MaxClaims, page : Pages]
  BY DEF Pages, MaxMappings, NoCursor
<1>1. PoolTypeOK
  <2>1. AllocBlocks \in 0 .. MaxMappings * AllocBlocks /\ MaxMappings * AllocBlocks \in Nat
    <3>1. 1 \in Nat /\ 1 <= MaxMappings /\ 1 * AllocBlocks = AllocBlocks
      BY <1>z
    <3>2. 1 * AllocBlocks <= MaxMappings * AllocBlocks /\ MaxMappings * AllocBlocks \in Nat
      BY <1>z, <3>1, Products
    <3> QED
      BY <3>1, <3>2
  <2>2. NewPool \in Meta
    BY <1>z DEF NewPool, Meta
  <2>3. /\ block \in [Clients -> Blocks \cup {None}]
        /\ page \in [Clients -> Pages] /\ processed \in [Clients -> 0 .. NumPages]
        /\ cursor \in [Clients -> [block : 0 .. MaxClaims, page : Pages]]
    BY <1>z
  <2>4. pages \in [Blocks -> [Pages -> {"zero", "init", "record"}]] /\ written \subseteq Blocks \X Pages
    OBVIOUS
  <2>5. prefault_hi \in 0 .. MaxMappings * AllocBlocks
    BY <2>1
  <2>6. current_block_page \in [block : 0 .. MaxClaims, page : Pages]
    BY <1>z
  <2>7. claims \in 0 .. MaxClaims /\ crashes \in 0 .. MaxCrashes
    OBVIOUS
  <2> QED
    BY <2>1, <2>2, <2>3, <2>4, <2>5, <2>6, <2>7 DEF PoolTypeOK
<1>2. Counted
  <2>1. Claiming = {} /\ Starting = {}
    BY DEF Claiming, Starting
  <2> QED
    BY <2>1, FS_EmptySet DEF Counted, NoCursor, NewPool
<1>3. Vector
  BY DEF Vector, Growing, NewPool
<1>4. Claimed
  BY DEF Claimed, NewPool, NoCursor, Owners
<1>5. Walk
  BY DEF Walk
<1> QED
  BY <1>1, <1>2, <1>3, <1>4, <1>5 DEF PoolInv

\* The invariant holds in every state: claims, walks through a block, resizes,
\* the prefault worker, write-backs and crashes keep every part of it.
THEOREM PoolInvariance == Spec => []PoolInv
<1>1. Init => PoolInv
  BY PoolInit
<1>2. PoolInv /\ [Next]_vars => PoolInv'
  BY TypeNext, CountedNext, VectorNext, ClaimedNext, WalkNext DEF PoolInv
<1> QED
  BY <1>1, <1>2, PTL DEF Spec

\* Two clients never hold the same block, whatever the interleaving of their CAS
\* on current_block_page_ and however many processes were killed before
\* (get_new_block, get_block_based_access, init_pool).
THEOREM ClaimsExclusive == Spec => []OneOwner
<1>1. PoolInv => OneOwner
  BY DEF PoolInv, Claimed, OneOwner
<1> QED
  BY <1>1, PoolInvariance, PTL

\* No init of a page meets a record: a block that a later claim can reach has no
\* record in it, because num_used_blocks is durable before a put returns, and a
\* client goes round its block once (get_block_based_access,
\* update_access_information).
THEOREM PutsKept == Spec => []RecordsKept
<1>1. PoolInv => RecordsKept
  BY DEF PoolInv, Walk, RecordsKept
<1> QED
  BY <1>1, PoolInvariance, PTL

\* v_blocks_ is never indexed at or above its size, by a client or by the prefault
\* worker, at any point of a resize (get_block_based_access, prefault_runway).
THEOREM BlocksMapped == Spec => []IndexInRange
<1>1. PoolInv => IndexInRange
  <2> SUFFICES ASSUME PoolInv PROVE IndexInRange
    OBVIOUS
  <2>1. num_v_blocks <= v_blocks /\ num_v_blocks \in Int /\ v_blocks \in Int /\ prefault_hi \in Int
        /\ prefault_hi <= num_v_blocks
    BY PoolAssumption DEF PoolInv, PoolTypeOK, Vector
  <2>2. \A c \in Clients : pc[c] = "index" => cursor[c].block < num_v_blocks /\ cursor[c].block \in Int
    BY ClientsKnown DEF PoolInv, Claimed, Known
  <2> QED
    BY <2>1, <2>2 DEF IndexInRange
<1> QED
  BY <1>1, PoolInvariance, PTL

\* The durable count of used blocks never exceeds the durable mappings, so the
\* scan of recover_database stays inside what allocate_v_page_blocks mapped.
THEOREM RecoveryMapped == Spec => []UsedIsMapped
<1>1. PoolInv => UsedIsMapped
  BY DEF PoolInv, Claimed, UsedIsMapped
<1> QED
  BY <1>1, PoolInvariance, PTL
=============================================================================
