------------------------------ MODULE Channel -------------------------------
(***************************************************************************)
(* What a pipe promises to its users: a bounded first-in first-out queue   *)
(* of bytes.                                                               *)
(***************************************************************************)
EXTENDS Naturals, Sequences

CONSTANTS Byte, Size

VARIABLES queue,   \* the bytes written and not yet read
          last     \* the byte that a reader received last

channel_vars == <<queue, last>>

ChannelInit == queue = <<>> /\ last \in Byte

Send(b) == Len(queue) < Size /\ queue' = Append(queue, b) /\ UNCHANGED last

Receive == queue # <<>> /\ last' = Head(queue) /\ queue' = Tail(queue)

\* A new pipe is empty, whatever its page was used for.
Fresh == queue' = <<>> /\ UNCHANGED last

ChannelNext == (\E b \in Byte : Send(b)) \/ Receive \/ Fresh

ChannelSpec == ChannelInit /\ [][ChannelNext]_channel_vars
=============================================================================
