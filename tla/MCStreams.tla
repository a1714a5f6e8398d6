------------------------------ MODULE MCStreams ------------------------------
(***************************************************************************)
(* The byte stream and the vectored byte stream in one run: a behaviour is *)
(* one of a client of either, as use says.                                 *)
(***************************************************************************)
EXTENDS ByteStream

CONSTANTS
    VGrowSz, IovMax, VMaxBytes, MaxDoubts          \* those of VByteStream

ASSUME VectorAssumption == VGrowSz \in Nat \ {0} /\ {IovMax, VMaxBytes, MaxDoubts} \subseteq Nat

VARIABLES
    use,
    iov, veod, vpos, st, vput, wrote, doubt   \* those of VByteStream

vsvars == <<iov, veod, vpos, st, vput, wrote, doubt>>

V == INSTANCE VByteStream WITH GrowSz <- VGrowSz, MaxBytes <- VMaxBytes

MCInit == Init /\ V!VStart /\ use \in {"bytes", "vector"}

MCNext ==
    \/ use = "bytes" /\ Next /\ UNCHANGED <<use, vsvars>>
    \/ use = "vector" /\ V!VNext /\ UNCHANGED <<use, vars>>

MCSpec == MCInit /\ [][MCNext]_<<vars, vsvars, use>>

\* VectorKept of the vectored stream: without the uses it is not up to, none of its
\* assertions fails and no byte is lost, repeated or displaced.
VectorKept == V!VectorKept
=============================================================================
