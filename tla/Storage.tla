------------------------------- MODULE Storage -------------------------------
(***************************************************************************)
(* The database of src/storage.py: the Block table (a block per height),   *)
(* the State and Emission tables (the ledger as last saved) and TxIndex    *)
(* (a height per confirmed transaction; AddrIndex holds the same heights   *)
(* per address).  Each write is one db.atomic() transaction, so it is one  *)
(* operator from the old database to the new one.                          *)
(***************************************************************************)
EXTENDS Chain

EmptyDisk == [blocks |-> <<>>, state |-> EmptyLedger, index |-> <<>>]

(* _index_block for a list of blocks in turn: a transaction that has a row *)
(* keeps it (on_conflict_ignore).                                          *)
IndexBlocks(index, blks) ==
  LET holders(tx) == {i \in DOMAIN blks : tx \in ToSet(blks[i].txs)}
  IN  [tx \in DOMAIN index \cup UNION {ToSet(blks[i].txs) : i \in DOMAIN blks} |->
         IF tx \in DOMAIN index THEN index[tx] ELSE blks[Min(holders(tx))].height]

(* Block.insert ... on_conflict_replace for a list of blocks in turn: the  *)
(* last block of a height has the row.                                     *)
InsertBlocks(table, blks) ==
  LET claims(h) == {i \in DOMAIN blks : blks[i].height = h}
  IN  [h \in DOMAIN table \cup {blks[i].height : i \in DOMAIN blks} |->
         IF claims(h) = {} THEN table[h] ELSE blks[Max(claims(h))]]

SaveBlock(disk, blk) ==
  [disk EXCEPT !.blocks = InsertBlocks(@, <<blk>>), !.index = IndexBlocks(@, <<blk>>)]

(* Mutant: the block without the ledger. *)
SaveOnlyBlock(disk, blk, led) == SaveBlock(disk, blk)

SaveBlockAndState(disk, blk, led) == [SaveBlock(disk, blk) EXCEPT !.state = led]

(* Mutant: nothing is deleted, rows are only overwritten. *)
OverwriteChainAndState(disk, fork, tail, led) ==
  [blocks |-> InsertBlocks(disk.blocks, tail),
   index  |-> IndexBlocks(disk.index, tail),
   state  |-> led]

(* replace_chain_and_state: rows from height fork up go, tail and led come. *)
ReplaceChainAndState(disk, fork, tail, led) ==
  [blocks |-> InsertBlocks([h \in {x \in DOMAIN disk.blocks : x < fork} |-> disk.blocks[h]],
                           tail),
   index  |-> IndexBlocks([tx \in {x \in DOMAIN disk.index : disk.index[x] < fork}
                             |-> disk.index[tx]],
                          tail),
   state  |-> led]

(* load_all_blocks: ordered by height, whatever heights there are. *)
LoadAllBlocks(disk) ==
  LET rows == DOMAIN disk.blocks
      below(h) == Cardinality({x \in rows : x < h})
  IN  [i \in 1..Cardinality(rows) |->
         disk.blocks[CHOOSE h \in rows : below(h) = i - 1]]

(* state_exists: the State table holds a row per address with an entry. *)
StateExists(disk) ==
  \E a \in Addr : disk.state.bal[a] # 0 \/ disk.state.nonce[a] # 0

(* node._load_cs, once there are blocks: the stored state is taken as it   *)
(* is, and only a database without one is replayed.                        *)
LoadChainState(disk) ==
  IF StateExists(disk) THEN FromStorage(LoadAllBlocks(disk), disk.state)
                       ELSE FromChain(LoadAllBlocks(disk))

=============================================================================
