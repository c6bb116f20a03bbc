------------------------------ MODULE SyncDisk ------------------------------
(***************************************************************************)
(* What bio.c expects of virtio_disk_rw: a call transfers one block, once, *)
(* between being made and returning.                                       *)
(***************************************************************************)
CONSTANTS Proc, Data

VARIABLES
  state,   \* "idle", "busy" until the block has moved, then "done"
  write,   \* direction of the call
  bdata,   \* the caller's buffer
  blk      \* the block on the disk

SyncInit ==
  /\ state = [p \in Proc |-> "idle"]
  /\ write \in [Proc -> BOOLEAN]
  /\ bdata \in [Proc -> Data]
  /\ blk \in [Proc -> Data]

SyncCall(p) ==
  /\ state[p] = "idle"
  /\ state' = [state EXCEPT ![p] = "busy"]
  /\ \E w \in BOOLEAN : write' = [write EXCEPT ![p] = w]
  /\ \E d \in Data : bdata' = [bdata EXCEPT ![p] = d]
  /\ UNCHANGED blk

SyncTransfer(p) ==
  /\ state[p] = "busy"
  /\ state' = [state EXCEPT ![p] = "done"]
  /\ \/ write[p] /\ blk' = [blk EXCEPT ![p] = bdata[p]] /\ UNCHANGED bdata
     \/ ~write[p] /\ bdata' = [bdata EXCEPT ![p] = blk[p]] /\ UNCHANGED blk
  /\ UNCHANGED write

SyncReturn(p) ==
  /\ state[p] = "done"
  /\ state' = [state EXCEPT ![p] = "idle"]
  /\ UNCHANGED <<write, bdata, blk>>

SyncNext == \E p \in Proc : SyncCall(p) \/ SyncTransfer(p) \/ SyncReturn(p)

SyncSpec == SyncInit /\ [][SyncNext]_<<state, write, bdata, blk>>
=============================================================================
