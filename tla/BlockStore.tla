----------------------------- MODULE BlockStore -----------------------------
(***************************************************************************)
(* What the buffer cache promises (bio.c lines 8-14): each block has one   *)
(* content, and one process at a time uses it.                             *)
(***************************************************************************)
CONSTANTS Proc, Block, Data, None

VARIABLES
  owner,    \* the process that uses a block, or None
  content   \* what the users of a block see

StoreInit == owner = [b \in Block |-> None] /\ content \in [Block -> Data]

Take(p, b) ==
  /\ owner[b] = None
  /\ owner' = [owner EXCEPT ![b] = p]
  /\ UNCHANGED content

Update(p, b) ==
  /\ owner[b] = p
  /\ \E d \in Data : content' = [content EXCEPT ![b] = d]
  /\ UNCHANGED owner

Drop(p, b) ==
  /\ owner[b] = p
  /\ owner' = [owner EXCEPT ![b] = None]
  /\ UNCHANGED content

StoreNext == \E p \in Proc, b \in Block : Take(p, b) \/ Update(p, b) \/ Drop(p, b)

StoreSpec == StoreInit /\ [][StoreNext]_<<owner, content>>
=============================================================================
