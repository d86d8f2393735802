--------------------------- MODULE MCFlowControl ---------------------------
(* Payloads of 1 byte make netcmds of 3; one of 6, the limit, makes 8 and  *)
(* exceeds netcmd_maxsz = 7, as the largest netcmds of the program do.     *)
EXTENDS FlowControl

Load(burst, steps) ==
  [burst |-> [i \in 1..burst |-> 1], steps |-> [i \in 1..steps |-> 1]]

MCWorkload ==
  [End -> {Load(b, s) : b \in {0, 1, 6}, s \in {0, 3}}]
  \cup {("client" :> [burst |-> <<6>>, steps |-> <<1>>] @@ "server" :> Load(1, 1))}
=============================================================================
