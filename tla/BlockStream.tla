----------------------------- MODULE BlockStream -----------------------------
(***************************************************************************)
(* What a sender promises the link, and what FecLink assumes of it: blocks *)
(* take consecutive ring ids; a shard is put on the wire at most once, and *)
(* only if its block was encoded; the shards of one block leave in         *)
(* increasing index order.  Any shard may never leave.  Nothing is         *)
(* promised about the order of shards of different blocks.                 *)
(***************************************************************************)
EXTENDS BlockRing, Sequences

VARIABLES
  made,   \* every block so far: its ring id and the indexes of its shards
  gone    \* the shards <<block number, index>> that were put on the wire

Init == made = <<>> /\ gone = {}

Encode ==
  LET block == made'[Len(made')]
  IN  /\ Len(made') > Len(made) /\ made' = Append(made, block)
      /\ block.id \in BlockId /\ block.idxs \subseteq Nat
      /\ made # <<>> => block.id = wire_block_id(made[Len(made)].id + 1)
      /\ UNCHANGED gone

Leave ==
  \E b \in 1 .. Len(made) : \E i \in made[b].idxs :
    /\ \A j \in made[b].idxs : <<b, j>> \in gone => j < i
    /\ gone' = gone \cup {<<b, i>>}
    /\ UNCHANGED made

Spec == Init /\ [][Encode \/ Leave]_<<made, gone>>
=============================================================================
