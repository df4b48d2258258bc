---------------------------- MODULE MC_VirtioNet ----------------------------
(* Instances of the network device for TLC. *)
EXTENDS VirtioNet

\* Behind a header of two bytes: a frame over two descriptors, nothing at all,
\* a header with a descriptor to itself, a frame in one descriptor.
Sent == << <<3, 1>>, <<2>>, <<2, 1>>, <<3>> >>

\* A buffer with the header to itself and too small for a long frame, and one
\* whose first descriptor takes header and frame.
Posted == [b \in Slots |-> IF b = 0 THEN <<2, 2>> ELSE <<3, 2>>]

LongShort == <<3, 1, 2, 3>>
=============================================================================
