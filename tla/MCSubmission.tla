---------------------------- MODULE MCSubmission ----------------------------
(***************************************************************************)
(* The signing commands, and the client their requests go through: one of  *)
(* two machines runs, the other rests.                                     *)
(*   commands: two of one key, any two, two endpoints, estimates and flags *)
(*     on both sides of every limit.                                       *)
(*   client: three endpoints, two requests, a clock long enough for a      *)
(*     block to expire.                                                    *)
(***************************************************************************)
EXTENDS Submission, HttpRpc, TLC

CONSTANTS u1, u2, u3

MCPlan ==
  {[sound |-> TRUE, estimatedGas |-> 5], [sound |-> TRUE, estimatedGas |-> 8],
   [sound |-> FALSE, estimatedGas |-> 8]}

MCUrls == <<u1, u2, u3>>

\* The two commands are alike.
MCSymmetry == Permutations(Command)

VARIABLE machine

IdleCommands == args = [c \in Command |-> CHOOSE a \in Args : TRUE] /\ Init
IdleClient == foreign = {} /\ RpcInit

MCInit ==
  \/ machine = "commands" /\ Init /\ IdleClient
  \/ machine = "client" /\ RpcInit /\ IdleCommands

MCNext ==
  /\ UNCHANGED machine
  /\ \/ machine = "commands" /\ Next /\ UNCHANGED rpcVars
     \/ machine = "client" /\ RpcNext /\ UNCHANGED vars

MCSpec == MCInit /\ [][MCNext]_<<machine, vars, rpcVars>>
=============================================================================
