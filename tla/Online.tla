-------------------------------- MODULE Online --------------------------------
(***************************************************************************)
(* The online phase over the channels: every party runs evaluateCircuit     *)
(* (SecureEval's program), and each of its reconstructions is the loops of  *)
(* Reconstruct, in which the party passes on the shares it has computed and  *)
(* goes on with the list it gets back.  The dealer takes no part in it.      *)
(***************************************************************************)
EXTENDS SecureEval

CONSTANTS Clang,
          use_pking   \* the use_pking argument of the evaluator's constructor

ASSUME OnlineAssumption == Clang \in BOOLEAN /\ use_pking \in BOOLEAN

VARIABLES chan, inSock, sent,            \* the channels, as in NetIOMP
          phase, call, at, share_recv    \* the loops, as in Reconstruct

\* The gates are reconstructed as the constructor was told, the outputs directly.
ViaKing == [c \in 1 .. numCalls |-> use_pking /\ Program[Rounds[c]].kind # "outputs"]

Net == INSTANCE Reconstruct
         WITH numCalls <- numCalls, numShares <- numShares, viaKing <- ViaKing

netVars  == <<chan, inSock, sent, phase, call, at, share_recv>>
evalVars == <<given, stream, drawn, preproc, wires, pc, outvals>>

-----------------------------------------------------------------------------
OnlineInit == Init /\ Net!Init

\* The evaluator reaches an interactive stage and calls reconstruct.
CallReconstruct(p) ==
  /\ Running(p)
  /\ IsRound(Here(p))
  /\ Net!BeginWith(p, ToReconstruct(p))
  /\ UNCHANGED evalVars

\* Inside reconstruct.
Communicate(p) ==
  /\ \/ Net!SendShares(p) \/ Net!EndSend(p)   \/ Net!EnterRecv(p)
     \/ Net!Recv(p)       \/ Net!Aggregate(p) \/ Net!Reply(p)
  /\ UNCHANGED evalVars

\* reconstruct returns, and the evaluator goes on with the list it filled in.
GoOn(p) == Net!Return(p) /\ Resume(p)

\* The inputs and the local gates of a level take no message.
Compute(p) ==
  /\ phase[p] = "idle"
  /\ SetInputs(p) \/ Local(p)
  /\ UNCHANGED netVars

OnlineStep(p) == CallReconstruct(p) \/ Communicate(p) \/ GoOn(p) \/ Compute(p)

onlineVars == <<vars, netVars>>

OnlineNext == (\E p \in Party : OnlineStep(p)) \/ (Done /\ UNCHANGED onlineVars)

OnlineSpec == /\ OnlineInit
              /\ [][OnlineNext]_onlineVars
              /\ \A p \in Party : WF_onlineVars(OnlineStep(p))
-----------------------------------------------------------------------------
\* Evaluation over the channels, where parties are spread over the loops of
\* several calls and buffers hold messages back, is evaluation with abstract
\* calls: the same wires and outputs step by step, and every party returns.
ImplementsSecureEval == Spec

\* When a party returns its outputs, it has read all that was sent to it and
\* all that it has sent has left its buffers, although others may still be
\* reading: whatever uses the network next starts clean on its side.
CleanWhenReturned ==
  \A p, q \in Party :
    ~Running(p) => chan[q][p] = <<>> /\ inSock[p][q] = Len(chan[p][q])
=============================================================================
