-------------------------------- MODULE Cli --------------------------------
(***************************************************************************)
(* The command line client (cli.py) beside other clients of Server.  A     *)
(* command waits until its channel is ready, makes one unary call with a   *)
(* deadline and ends with an exit code: 0 if it did what was asked, 1 if   *)
(* a key was not found or a condition did not hold, 2 for an error.        *)
(***************************************************************************)
EXTENDS Server

\* A call that no command makes has no exit code.
ASSUME ExitAssumption == None \notin {"running", "0", "1", "2"}

VARIABLE exit       \* call -> "running" or the exit code, None if it is no command's

clivars == <<svars, exit>>

CliInit == ServerInit /\ exit = [r \in Calls |-> None]

Ends(r, code) == exit' = [exit EXCEPT ![r] = code] /\ UNCHANGED svars

_conditional_exit_code(status) == IF status = "STORED" THEN "0" ELSE "1"

\* A value that was found may still fail to be decoded or written to a file.
exit_codes(r) ==
    IF rpc[r].answer.code # "OK" THEN {"2"}
    ELSE LET result == rpc[r].answer.items[1].result IN
         CASE Op(r) = "Get" -> IF result = None THEN {"1"} ELSE {"0", "2"}
           [] Op(r) \in {"SetIfAbsent", "CompareAndSet"} ->
                {_conditional_exit_code(result)}
           [] OTHER -> {"0"}

\* channel_ready() has no timeout: a command without a server waits.
Request(r, q) ==
    /\ exit[r] = None /\ q.op \in UnaryOps
    /\ Accept(r, q)
    /\ exit' = [exit EXCEPT ![r] = "running"]

\* The value is only looked at when the channel is ready.
_parse_value_input_raises(r) ==
    /\ exit[r] = None /\ rpc[r].phase = "idle" /\ accepting
    /\ Ends(r, "2")

Return(r) ==
    /\ exit[r] = "running" /\ Answered(r)
    /\ \E code \in exit_codes(r) : Ends(r, code)

\* A bug: a call without an answer is taken for a miss.
RpcErrorAsMiss(r) == exit[r] = "running" /\ Ends(r, "1")

\* The deadline passes, perhaps with the answer under way, or the server ends
\* the call: AioRpcError.
RpcError(r) == exit[r] = "running" /\ Ends(r, "2")

CliNext ==
    \/ Proceed /\ UNCHANGED exit
    \/ \E r \in Calls :
         \/ exit[r] = None /\ Arrive(r) /\ UNCHANGED exit
         \/ \E q \in Requests : Request(r, q)
         \/ _parse_value_input_raises(r) \/ Return(r) \/ RpcError(r)

\* The server works without its clients, so they need no fairness.
CliSpec == CliInit /\ [][CliNext]_clivars /\ ServerFairness

-----------------------------------------------------------------------------
\* A script that acts on the exit code of a write is right: 0 says that the
\* value has been stored, 1 that it has not been and never will be.  Only 2
\* leaves it open: after a deadline the write may still happen.
ExitTruthful ==
    \A r \in Calls :
      rpc[r].phase # "idle" /\ rpc[r].request # None /\ Op(r) \in WriteOps =>
        /\ exit[r] = "0" => <<r, 1>> \in committed
        /\ exit[r] = "1" => <<r, 1>> \notin committed
=============================================================================
