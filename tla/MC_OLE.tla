------------------------------- MODULE MC_OLE -------------------------------
(***************************************************************************)
(* Small parameters for DistributedVectorOLE.  Two levels: seeds of 1 + 1  *)
(* elements for outputs of up to 4, and of 2 + 2 for outputs of up to 8.   *)
(* A batch of 1 has room to spare on the first level and one of 2 just     *)
(* fits, 3 needs the second level, and 5 is capped to 4 there.             *)
(***************************************************************************)
EXTENDS OLEProperties

MCSeedSize == <<1, 2>>
MCOutputSize == <<4, 8>>
MCNumNoise == <<1, 2>>
MCNumBuckets == [n \in {1, 2} |-> n]

\* One batch size that is refused, and one for each way through the loop.
MCBatchSizes == {-1, 2, 3, 5}

=============================================================================
