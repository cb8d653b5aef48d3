--------------------------------- MODULE Chains ---------------------------------
(***************************************************************************)
(* What a device's virtqueues promise their driver                         *)
(* (src/virtio/virtio_mmio.hpp): each chain it offers is taken once, in    *)
(* the order they were offered, and given back once, in the order they     *)
(* were taken -- or at once, when the device refuses it.  How the rings    *)
(* and their 16-bit positions keep track of that is Virtio's.              *)
(***************************************************************************)
EXTENDS Integers, SequencesExt

CONSTANTS Queue, Chain   \* the queues; the chains of each
VARIABLES offered, held, returned   \* of each queue, sequences of chains

vars == <<offered, held, returned>>

Nothing == [q \in Queue |-> <<>>]
Init == offered = Nothing /\ held = Nothing /\ returned = Nothing

Stay(q) == offered'[q] = offered[q] /\ held'[q] = held[q] /\ returned'[q] = returned[q]

(* The driver offers a chain it has, and takes back what was returned.     *)
Offer(q) ==
  /\ \E c \in Chain[q] \ (Range(offered[q]) \cup Range(held[q]) \cup Range(returned[q])) :
       offered'[q] = Append(offered[q], c)
  /\ held'[q] = held[q] /\ returned'[q] = returned[q]

Reap(q) ==
  /\ returned[q] # <<>> /\ returned'[q] = Tail(returned[q])
  /\ offered'[q] = offered[q] /\ held'[q] = held[q]

Take(q) ==
  /\ offered[q] # <<>> /\ offered'[q] = Tail(offered[q])
  /\ held'[q] = Append(held[q], Head(offered[q]))
  /\ returned'[q] = returned[q]

(* The one held longest, or the one just taken.                            *)
Return(q) ==
  /\ held[q] # <<>>
  /\ \E i \in {1, Len(held[q])} :
       /\ returned'[q] = Append(returned[q], held[q][i])
       /\ held'[q] = RemoveAt(held[q], i)
  /\ offered'[q] = offered[q]

(* A reset: the device forgets them all, and they are the driver's.        *)
Forget == offered' = Nothing /\ held' = Nothing /\ returned' = Nothing

(* Otherwise each queue by itself.                                         *)
Next ==
  \/ \A q \in Queue : Stay(q) \/ Take(q) \/ Return(q) \/ Offer(q) \/ Reap(q)
  \/ Forget
Spec == Init /\ [][Next]_vars
=================================================================================
