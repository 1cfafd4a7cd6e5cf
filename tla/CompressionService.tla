------------------------- MODULE CompressionService -------------------------
(***************************************************************************)
(* What betsy promises, with no GPU in it: every requested compression is  *)
(* delivered once, and the file holds the compression of the source image  *)
(* in the format of the requested codec, every byte of it.                 *)
(***************************************************************************)
CONSTANTS
  Encoder,        \* the compressions that run in the process
  NoFile,         \* nothing delivered yet
  Compressed(_)   \* the file a request must produce

VARIABLES request, file

vars == <<request, file>>

Init == file = [e \in Encoder |-> NoFile]

Deliver(e) ==
  /\ file[e] = NoFile
  /\ file' = [file EXCEPT ![e] = Compressed(request[e])]
  /\ UNCHANGED request

Next == \E e \in Encoder : Deliver(e)

Spec == Init /\ [][Next]_vars /\ \A e \in Encoder : WF_vars(Deliver(e))
=============================================================================
